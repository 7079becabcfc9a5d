------------------------------- MODULE Webhook -------------------------------
(***************************************************************************)
(* The Stripe webhook of backend/src/routes.rs (payment, process_webhook,   *)
(* apply_sub_patch) with the two tables it writes, Users and WebhookEvents, *)
(* and the hourly run_webhook_cleanup.                                      *)
(*                                                                          *)
(* Stripe is the environment.  It owns one subscription, whose successive   *)
(* contents are the versions 0, 1, 2...; the change to version n emits      *)
(* event n.  Stripe delivers each event at least once, in any order and     *)
(* possibly to two workers at once, and retries until it is answered 200    *)
(* or gives up.                                                             *)
(* Each database call and each Stripe call of a handler is one action.      *)
(***************************************************************************)
EXTENDS Integers, FiniteSets

CONSTANTS Handlers,   \* HTTP workers inside the payment handler
          MaxVer,     \* bound: changes of the subscription at Stripe
          MaxFaults   \* bound: crashes, failed calls, lost answers, give-ups

ASSUME WebhookAssumption == MaxVer \in Nat /\ MaxFaults \in Nat

VARIABLES
    stripeVer,  \* Stripe: the current version of the subscription
    kind,       \* Stripe: the kind of event each change brings
    settled,    \* Stripe: events it will not deliver any more
    hasUser,    \* Users: has the customer's email an account
    sub,        \* Users: the version in the subscription columns, 0 if unset
    recorded,   \* WebhookEvents: the event_id column
    stage, ev, patch,  \* per worker: where it is, its event, the version to write
    overtaken,  \* history: per worker, did another write after its Retrieve
    ends,       \* history: how handlings of each event ended
    replay,     \* history: per worker, was its event recorded at delivery
    faults      \* faults so far

stripe == <<stripeVer, kind>>
worker == <<stage, ev, patch, overtaken, replay>>
webhookVars == <<stripeVer, kind, settled, hasUser, sub, recorded,
          stage, ev, patch, overtaken, ends, replay, faults>>

(* "snapshot": customer.subscription.created, .updated or .deleted, which   *)
(* carry the subscription.  "retrieve": checkout.session.completed and      *)
(* invoice.paid, whose handlers ask Stripe for it.  "notice": every event   *)
(* that writes nothing to Users, invoice.payment_failed among them.         *)
Kinds == {"snapshot", "retrieve", "notice"}

Stages == {"idle", "check", "retrieve", "email", "lookup", "write", "record", "respond"}

(* How the part of a handling that concerns Users ended. *)
Ends == {"applied", "dbError", "nothing"}

Versions == 0..MaxVer
Events == 1..MaxVer
NoEvent == 0

Emitted(e) == e <= stripeVer

WebhookInit ==
    /\ stripeVer = 0
    /\ kind \in [Events -> Kinds]
    /\ settled = {}
    /\ hasUser \in BOOLEAN
    /\ sub = 0
    /\ recorded = {}
    /\ stage = [h \in Handlers |-> "idle"]
    /\ ev = [h \in Handlers |-> NoEvent]
    /\ patch = [h \in Handlers |-> 0]
    /\ overtaken = [h \in Handlers |-> FALSE]
    /\ ends = [e \in Events |-> {}]
    /\ replay = [h \in Handlers |-> FALSE]
    /\ faults = 0

Fault == faults < MaxFaults /\ faults' = faults + 1

MoveTo(h, label) == stage' = [stage EXCEPT ![h] = label]

(* The worker answers 4xx or 5xx, or dies, and forgets its event. *)
Abandon(h) ==
    /\ MoveTo(h, "idle")
    /\ ev' = [ev EXCEPT ![h] = NoEvent]
    /\ patch' = [patch EXCEPT ![h] = 0]
    /\ overtaken' = [overtaken EXCEPT ![h] = FALSE]
    /\ replay' = [replay EXCEPT ![h] = FALSE]

End(h, how) == ends' = [ends EXCEPT ![ev[h]] = @ \cup {how}]
------------------------------------------------------------------------------
(* Faults: plausible bugs, which the properties below must rule out. *)

(* The record is written first, as the comment in payment warns against. *)
CheckRecordsFirst(h) ==
    /\ stage[h] = "check"
    /\ IF ev[h] \in recorded
       THEN MoveTo(h, "respond") /\ UNCHANGED <<ends, recorded>>
       ELSE /\ recorded' = recorded \cup {ev[h]}
            /\ CASE kind[ev[h]] = "snapshot" -> MoveTo(h, "email") /\ UNCHANGED ends
                 [] kind[ev[h]] = "retrieve" -> MoveTo(h, "retrieve") /\ UNCHANGED ends
                 [] OTHER -> MoveTo(h, "record") /\ End(h, "nothing")
    /\ UNCHANGED <<stripe, settled, hasUser, sub, ev, patch, overtaken, replay, faults>>

(* The cleanup forgets events that Stripe still retries. *)
PruneEarly(e) == e \in recorded

(* The subscription comes from the event's own object, as it was when the   *)
(* event was made, and not from Stripe.                                     *)
RetrievedFromEvent(h) == ev[h]

(* A worker answers only the first delivery of an event. *)
RespondWhenNew(h) ==
    /\ stage[h] = "respond"
    /\ ~replay[h]
    /\ settled' = settled \cup {ev[h]}
    /\ Abandon(h)
    /\ UNCHANGED <<stripe, hasUser, sub, recorded, ends, faults>>

------------------------------------------------------------------------------
(* Stripe changes the subscription and emits an event about it. *)
StripeChanges ==
    /\ stripeVer < MaxVer
    /\ stripeVer' = stripeVer + 1
    /\ UNCHANGED <<kind, settled, hasUser, sub, recorded, worker, ends, faults>>

(* Stripe delivers an event: a first delivery, a retry or a duplicate.      *)
(* payment has verified the signature and parsed the event.                 *)
DeliverEvent(h, e) ==
    /\ stage[h] = "idle"
    /\ Emitted(e)
    /\ e \notin settled
    /\ MoveTo(h, "check")
    /\ ev' = [ev EXCEPT ![h] = e]
    /\ replay' = [replay EXCEPT ![h] = e \in recorded]
    /\ UNCHANGED <<stripe, settled, hasUser, sub, recorded, patch, overtaken, ends, faults>>

(* Stripe stops retrying an event that was never answered 200. *)
GiveUp(e) ==
    /\ Emitted(e)
    /\ e \notin settled
    /\ Fault
    /\ settled' = settled \cup {e}
    /\ UNCHANGED <<stripe, hasUser, sub, recorded, worker, ends>>

(* The customer signs up with the email Stripe knows. *)
SignUp ==
    /\ ~hasUser
    /\ hasUser' = TRUE
    /\ UNCHANGED <<stripe, settled, sub, recorded, worker, ends, faults>>

(* find_webhook_event finds the row. *)
IsRecorded(e) == e \in recorded

(* payment: a recorded event is acknowledged; another one is processed.     *)
(* process_webhook branches on the type: a "notice" writes nothing.         *)
Check(h) ==
    /\ stage[h] = "check"
    /\ IF IsRecorded(ev[h])
       THEN MoveTo(h, "respond") /\ UNCHANGED ends
       ELSE CASE kind[ev[h]] = "snapshot" -> MoveTo(h, "email") /\ UNCHANGED ends
              [] kind[ev[h]] = "retrieve" -> MoveTo(h, "retrieve") /\ UNCHANGED ends
              [] OTHER -> MoveTo(h, "record") /\ End(h, "nothing")
    /\ UNCHANGED <<stripe, settled, hasUser, sub, recorded, ev, patch, overtaken, replay, faults>>

(* find_webhook_event fails: 500.  So does find_user for a "notice". *)
CheckFails(h) ==
    /\ stage[h] = "check"
    /\ Fault
    /\ Abandon(h)
    /\ UNCHANGED <<stripe, settled, hasUser, sub, recorded, ends>>

(* retrieve_subscription answers with the subscription as it is now. *)
Retrieved(h) == stripeVer

(* checkout.session.completed may carry customer_email and skip the look-up *)
(* of the customer.                                                         *)
Retrieve(h) ==
    /\ stage[h] = "retrieve"
    /\ patch' = [patch EXCEPT ![h] = Retrieved(h)]
    /\ overtaken' = [overtaken EXCEPT ![h] = FALSE]
    /\ \E label \in {"email", "lookup"} : MoveTo(h, label)
    /\ UNCHANGED <<stripe, settled, hasUser, sub, recorded, ev, ends, replay, faults>>

(* resolve_customer_email finds the address.  A subscription event carries  *)
(* the version to write in its object.                                      *)
Resolve(h) ==
    /\ stage[h] = "email"
    /\ patch' = IF kind[ev[h]] = "snapshot"
                THEN [patch EXCEPT ![h] = ev[h]] ELSE patch
    /\ MoveTo(h, "lookup")
    /\ UNCHANGED <<stripe, settled, hasUser, sub, recorded, ev, overtaken, ends, replay, faults>>

(* A Stripe call fails, or times out on the Stripe worker: 500, or 400 for  *)
(* the customer of a subscription event.                                    *)
StripeFails(h) ==
    /\ stage[h] \in {"retrieve", "email"}
    /\ Fault
    /\ Abandon(h)
    /\ UNCHANGED <<stripe, settled, hasUser, sub, recorded, ends>>

(* The customer has no email: 400 for a subscription event; a retrieving    *)
(* handler returns Ok, and the event is recorded with nothing written.      *)
NoEmail(h) ==
    /\ stage[h] = "email"
    /\ Fault
    /\ IF kind[ev[h]] = "snapshot"
       THEN Abandon(h) /\ UNCHANGED ends
       ELSE MoveTo(h, "record") /\ End(h, "nothing") /\ UNCHANGED <<ev, patch, overtaken, replay>>
    /\ UNCHANGED <<stripe, settled, hasUser, sub, recorded>>

(* apply_sub_patch: find_user.  An unknown address returns false. *)
Lookup(h) ==
    /\ stage[h] = "lookup"
    /\ IF hasUser THEN MoveTo(h, "write") /\ UNCHANGED ends
                  ELSE MoveTo(h, "record") /\ End(h, "nothing")
    /\ UNCHANGED <<stripe, settled, hasUser, sub, recorded, ev, patch, overtaken, replay, faults>>

(* The other workers hold what they read before this one's write. *)
Overtake(h) ==
    overtaken' = [g \in Handlers |->
                     g # h /\ stage[g] \in {"email", "lookup", "write"}]

(* apply_sub_patch: update_user_subscription sets the three columns, with   *)
(* no regard to what they hold.                                             *)
Write(h) ==
    /\ stage[h] = "write"
    /\ sub' = patch[h]
    /\ Overtake(h)
    /\ End(h, "applied")
    /\ MoveTo(h, "record")
    /\ UNCHANGED <<stripe, settled, hasUser, recorded, ev, patch, replay, faults>>

(* apply_sub_patch: either statement fails.  It logs and returns false, and *)
(* process_webhook ignores the result.                                      *)
PatchFails(h) ==
    /\ stage[h] \in {"lookup", "write"}
    /\ Fault
    /\ End(h, "dbError")
    /\ MoveTo(h, "record")
    /\ UNCHANGED <<stripe, settled, hasUser, sub, recorded, ev, patch, overtaken, replay>>

(* insert_webhook_event; a second insert of the same id violates the        *)
(* primary key, which is logged and answered 200 like a success.            *)
Record(h) ==
    /\ stage[h] = "record"
    /\ recorded' = recorded \cup {ev[h]}
    /\ MoveTo(h, "respond")
    /\ UNCHANGED <<stripe, settled, hasUser, sub, ev, patch, overtaken, ends, replay, faults>>

(* insert_webhook_event fails: logged, and answered 200 all the same. *)
RecordFails(h) ==
    /\ stage[h] = "record"
    /\ Fault
    /\ MoveTo(h, "respond")
    /\ UNCHANGED <<stripe, settled, hasUser, sub, recorded, ev, patch, overtaken, ends, replay>>

(* The 200 reaches Stripe, which stops retrying. *)
Respond(h) ==
    /\ stage[h] = "respond"
    /\ settled' = settled \cup {ev[h]}
    /\ Abandon(h)
    /\ UNCHANGED <<stripe, hasUser, sub, recorded, ends, faults>>

(* The 200 is lost, or came after Stripe's timeout. *)
ResponseLost(h) ==
    /\ stage[h] = "respond"
    /\ Fault
    /\ Abandon(h)
    /\ UNCHANGED <<stripe, settled, hasUser, sub, recorded, ends>>

(* The process is killed and restarted: every handling is cut short. *)
Crash ==
    /\ \E h \in Handlers : stage[h] # "idle"
    /\ Fault
    /\ stage' = [h \in Handlers |-> "idle"]
    /\ ev' = [h \in Handlers |-> NoEvent]
    /\ patch' = [h \in Handlers |-> 0]
    /\ overtaken' = [h \in Handlers |-> FALSE]
    /\ replay' = [h \in Handlers |-> FALSE]
    /\ UNCHANGED <<stripe, settled, hasUser, sub, recorded, ends>>

(* A row is older than WEBHOOK_RETENTION_DAYS.  Stripe retries for about    *)
(* three days and a handling takes seconds, so no delivery is left by then. *)
Expired(e) ==
    /\ e \in recorded
    /\ e \in settled
    /\ \A h \in Handlers : ev[h] # e

(* run_webhook_cleanup: prune_webhook_events drops the expired rows. *)
Prune ==
    /\ \E e \in Events : Expired(e)
    /\ recorded' = {e \in recorded : ~Expired(e)}
    /\ UNCHANGED <<stripe, settled, hasUser, sub, worker, ends, faults>>
------------------------------------------------------------------------------
Handle(h) ==
    \/ Check(h) \/ Retrieve(h) \/ Resolve(h) \/ Lookup(h) \/ Write(h)
    \/ Record(h) \/ Respond(h)

HandleFails(h) ==
    \/ CheckFails(h) \/ StripeFails(h) \/ NoEmail(h) \/ PatchFails(h)
    \/ RecordFails(h) \/ ResponseLost(h)

WebhookNext ==
    \/ StripeChanges \/ SignUp
    \/ \E e \in Events : GiveUp(e)
    \/ \E h \in Handlers, e \in Events : DeliverEvent(h, e)
    \/ \E h \in Handlers : Handle(h) \/ HandleFails(h)
    \/ Crash
    \/ Prune

WebhookSpec == WebhookInit /\ [][WebhookNext]_webhookVars

(* A worker's calls return, since every one of them has a timeout, and      *)
(* Stripe redelivers what it has not been answered 200.                     *)
WebhookFairSpec ==
    /\ WebhookSpec
    /\ \A h \in Handlers : WF_webhookVars(Handle(h))
    /\ \A e \in Events : WF_webhookVars(\E h \in Handlers : DeliverEvent(h, e))
------------------------------------------------------------------------------
WebhookTypeOK ==
    /\ stripeVer \in Versions /\ sub \in Versions
    /\ kind \in [Events -> Kinds]
    /\ settled \subseteq Events /\ recorded \subseteq Events
    /\ hasUser \in BOOLEAN
    /\ stage \in [Handlers -> Stages]
    /\ ev \in [Handlers -> Events \cup {NoEvent}]
    /\ patch \in [Handlers -> Versions]
    /\ ends \in [Events -> SUBSET Ends]
    /\ overtaken \in [Handlers -> BOOLEAN]
    /\ replay \in [Handlers -> BOOLEAN]
    /\ faults \in 0..MaxFaults

(* The order payment insists on: the row in WebhookEvents, and the 200 that *)
(* silences Stripe, come only after some handling of the event has been     *)
(* through its effect, whatever crashes and failures came between.          *)
RecordFollowsEffect ==
    /\ \A e \in recorded : ends[e] # {}
    /\ \A h \in Handlers : stage[h] \in {"record", "respond"} => ends[ev[h]] # {}

(* A delivery that starts after the event was recorded changes nothing:     *)
(* the retention outlives the retries.                                      *)
ReplayIsSkipped ==
    \A h \in Handlers : replay[h] => stage[h] \in {"check", "respond"}

(* What makes retries and reordered deliveries of the retrieving events     *)
(* harmless: the row goes back to an older state of the subscription only   *)
(* when a snapshot event brings one, or when the answer of Stripe that a    *)
(* worker writes was overtaken by another worker's write.  Deliveries that  *)
(* do not overlap, of checkout.session.completed and invoice.paid, in any   *)
(* order and however often, never take the row back.                        *)
SetBackOnlyByRace ==
    [][sub' < sub =>
          \E h \in Handlers :
             /\ Write(h)
             /\ kind[ev[h]] = "snapshot" \/ overtaken[h]]_webhookVars

(* Once Stripe's faults are over, each event it emits is handled to its end *)
(* or given up.                                                             *)
EventuallyHandled ==
    \A e \in Events : Emitted(e) ~> (ends[e] # {} \/ e \in settled)
------------------------------------------------------------------------------
(* What the comments in payment say, and the code does not do.              *)

(* "the record can never claim an event was handled when it was not": a     *)
(* recorded event had a handling that did not end in a database error.      *)
RecordNeverClaimsTooMuch ==
    \A e \in recorded : ends[e] # {"dbError"}

(* "the possibility of applying an event twice, which is safe here": to     *)
(* apply an event again does not replace a newer subscription.              *)
ApplyingTwiceIsSafe ==
    [][\A h \in Handlers : Write(h) /\ "applied" \in ends[ev[h]] => sub' >= sub]_webhookVars
==============================================================================

------------------------ MODULE PaymentConfirmation ------------------------
(***************************************************************************)
(* How a public order becomes paid and gets its entry passes:              *)
(* verifyPayment, handleWebhook and the deletion of orders in              *)
(* apps/api/src/commercial/commercial.service.ts.                          *)
(*                                                                         *)
(* A handler's database round trips are separate steps.  A transaction     *)
(* runs at READ COMMITTED, so one that reads the order and then writes     *)
(* from what it read is two steps; its writes commit together.  A write    *)
(* that finds its row gone raises and rolls back (the handler answers 404  *)
(* or 500 and changes nothing).                                            *)
(*                                                                         *)
(* acquireLock answers null both when another request holds                *)
(* lock:verify-order and when Redis is down, and both handlers go on with  *)
(* null: the lock never decides anything here, so it is not a variable.    *)
(* failed_at and failure_reason are written but no guard reads them.       *)
(***************************************************************************)
EXTENDS Integers, FiniteSets

CONSTANTS Orders,     \* ids of public orders
          Handlers,   \* requests in flight
          Kinds,      \* the kinds of event the gateway sends
          Quantity,   \* passes bought with an order
          FullPower,  \* isFullPowerActive may be on: never in production
          MaxCrashes  \* bound: requests lost to a restart

CaptureKinds == {"payment.captured", "order.paid"}

ASSUME NonEmptyAssumption == Orders # {} /\ Kinds # {}
ASSUME QuantityAssumption == Quantity \in Nat \ {0}
ASSUME SwitchAssumption == FullPower \in BOOLEAN /\ MaxCrashes \in Nat
ASSUME FiniteAssumption == IsFiniteSet(Handlers)
ASSUME KindsAssumption == Kinds \subseteq CaptureKinds \cup {"payment.failed"}

Events == [order : Orders, kind : Kinds]

VARIABLES order,    \* commercial_orders.order_status; PAID and CAPTURED go together
          passes,   \* how many attendees of each order there are
          captured, \* the gateway holds the customer's money
          delivery, \* how far the gateway is with each event
          eventRow, \* payment_webhook_events
          request,  \* handlers between two of their round trips
          crashes

vars == <<order, passes, captured, delivery, eventRow, request, crashes>>

Status == {"none", "PENDING", "PAID", "CANCELLED", "deleted"}
(* live and revoked passes hang on the order; an orphan is an ACTIVE pass  *)
(* whose order_id went NULL with its order.                                *)
Passes == [live : Nat, revoked : Nat, orphan : Nat]
Places == {"idle", "verify", "verifyRead", "webhookNew", "webhookRecorded",
           "webhookRead", "cancel", "purge", "remove", "removeOrder"}
(* status and passes: what the handler last read of its order. *)
Request == [at : Places, order : Orders, kind : Kinds, status : Status, passes : Nat]

NoPasses == [live |-> 0, revoked |-> 0, orphan |-> 0]
Idle == [at |-> "idle", order |-> CHOOSE o \in Orders : TRUE,
         kind |-> CHOOSE k \in Kinds : TRUE, status |-> "none", passes |-> 0]

(* Every pass counter and every remembered row has its shape. *)
TypeOK == /\ order \in [Orders -> Status]
          /\ passes \in [Orders -> Passes]
          /\ captured \in [Orders -> BOOLEAN]
          /\ delivery \in [Events -> {"unsent", "sent", "acked"}]
          /\ eventRow \in [Events -> {"none", "recorded", "processed"}]
          /\ request \in [Handlers -> Request]
          /\ crashes \in 0..MaxCrashes

Init == /\ order = [o \in Orders |-> "none"]
        /\ passes = [o \in Orders |-> NoPasses]
        /\ captured = [o \in Orders |-> FALSE]
        /\ delivery = [e \in Events |-> "unsent"]
        /\ eventRow = [e \in Events |-> "none"]
        /\ request = [h \in Handlers |-> Idle]
        /\ crashes = 0

-----------------------------------------------------------------------------
(* Helpers *)

Exists(o) == order[o] \notin {"none", "deleted"}
Linked(o) == passes[o].live + passes[o].revoked
EventOf(r) == [order |-> r.order, kind |-> r.kind]

Idling(h) == request[h].at = "idle"
Go(h, r)  == request' = [request EXCEPT ![h] = r]
Finish(h) == Go(h, Idle)

(* The handler throws: nothing it did in its transaction stays. *)
Raise(h) == Finish(h) /\ UNCHANGED <<order, passes, delivery, eventRow>>

(* A handler at place p remembers the order's row as it is now. *)
Reading(p, o, k) == [at |-> p, order |-> o, kind |-> k, status |-> order[o],
                     passes |-> Linked(o)]

(* Write status s unless the row was read as PAID, and add n passes. *)
Confirm(r, n) ==
  /\ order' = [order EXCEPT ![r.order] = IF r.status = "PAID" THEN @ ELSE "PAID"]
  /\ passes' = [passes EXCEPT ![r.order].live = @ + n]

(* Mutant: the loop starts one pass too late. *)
MissingOneTooFew(r) == IF r.passes < Quantity THEN Quantity - r.passes - 1 ELSE 0

(* verifyPayment's loop runs from the passes it read to the quantity. *)
Missing(r) == IF r.passes < Quantity THEN Quantity - r.passes ELSE 0

(* Mutant: the webhook does not look for passes already created. *)
WebhookIssuesAlways(r) == Quantity

(* handleWebhook creates all passes, or none if it read any. *)
WebhookIssues(r) == IF r.passes = 0 THEN Quantity ELSE 0

-----------------------------------------------------------------------------
(* The customer and the gateway *)

CreateOrder(o) ==
  /\ order[o] = "none"
  /\ order' = [order EXCEPT ![o] = "PENDING"]
  /\ UNCHANGED <<passes, captured, delivery, eventRow, request, crashes>>

(* The customer pays at the gateway, which knows nothing of deletions. *)
Pay(o) ==
  /\ order[o] # "none" /\ ~captured[o]
  /\ captured' = [captured EXCEPT ![o] = TRUE]
  /\ delivery' = [e \in Events |-> IF e.order = o /\ e.kind \in CaptureKinds
                                     THEN "sent" ELSE delivery[e]]
  /\ UNCHANGED <<order, passes, eventRow, request, crashes>>

(* An attempt fails; the customer may try again on the same order. *)
Decline(e) ==
  /\ e.kind = "payment.failed" /\ order[e.order] # "none" /\ ~captured[e.order]
  /\ delivery[e] = "unsent"
  /\ delivery' = [delivery EXCEPT ![e] = "sent"]
  /\ UNCHANGED <<order, passes, captured, eventRow, request, crashes>>

-----------------------------------------------------------------------------
(* verifyPayment: the browser reports the payment, as often as it likes.   *)
(* The gateway signs nothing before the capture; a wrong signature or      *)
(* order id is refused before anything modelled changes.                   *)

BeginVerify(h, o) ==
  /\ Idling(h) /\ captured[o]
  /\ Exists(o) /\ order[o] # "PAID"
  /\ Go(h, [Idle EXCEPT !.at = "verify", !.order = o])
  /\ UNCHANGED <<order, passes, captured, delivery, eventRow, crashes>>

(* The transaction reads the order afresh. *)
ReadVerify(h) ==
  LET r == request[h] IN
  /\ r.at = "verify"
  /\ IF ~Exists(r.order) \/ (order[r.order] = "PAID" /\ Linked(r.order) >= Quantity)
       THEN Finish(h)
       ELSE Go(h, Reading("verifyRead", r.order, r.kind))
  /\ UNCHANGED <<order, passes, captured, delivery, eventRow, crashes>>

CommitVerify(h) ==
  LET r == request[h] IN
  /\ r.at = "verifyRead"
  /\ IF Exists(r.order)
       THEN Confirm(r, Missing(r)) /\ Finish(h) /\ UNCHANGED <<delivery, eventRow>>
       ELSE Raise(h)
  /\ UNCHANGED <<captured, crashes>>

-----------------------------------------------------------------------------
(* handleWebhook: at-least-once delivery; only a 2xx answer stops it *)

(* The event was processed before: answer already_processed. *)
SkipProcessed(e) ==
  /\ delivery[e] = "sent" /\ eventRow[e] = "processed"
  /\ delivery' = [delivery EXCEPT ![e] = "acked"]
  /\ UNCHANGED <<order, passes, captured, eventRow, request, crashes>>

(* Mutant: events are told apart by their payment, and a recorded one      *)
(* counts as processed.                                                    *)
BeginWebhookUnlessSeen(h, e) ==
  /\ Idling(h) /\ delivery[e] # "unsent"
  /\ \A f \in Events : f.order = e.order => eventRow[f] = "none"
  /\ Go(h, Reading("webhookNew", e.order, e.kind))
  /\ UNCHANGED <<order, passes, captured, delivery, eventRow, crashes>>

(* The event's row and its order are read; an acknowledged event may come  *)
(* again.                                                                  *)
BeginWebhook(h, e) ==
  /\ Idling(h) /\ delivery[e] # "unsent" /\ eventRow[e] # "processed"
  /\ Go(h, Reading(IF eventRow[e] = "none" THEN "webhookNew" ELSE "webhookRecorded",
                   e.order, e.kind))
  /\ UNCHANGED <<order, passes, captured, delivery, eventRow, crashes>>

(* Mutant: the receipt is stored as already processed. *)
RecordEventProcessed(h) ==
  LET r == request[h] IN
  /\ r.at = "webhookNew"
  /\ IF eventRow[EventOf(r)] = "none" /\ (r.status = "deleted" \/ Exists(r.order))
       THEN /\ eventRow' = [eventRow EXCEPT ![EventOf(r)] = "processed"]
            /\ Go(h, [r EXCEPT !.at = "webhookRecorded"])
            /\ UNCHANGED <<order, passes, delivery>>
       ELSE Raise(h)
  /\ UNCHANGED <<captured, crashes>>

(* INSERT of the receipt: a second delivery of the event violates the      *)
(* unique event_id, a deleted order the foreign key.                       *)
RecordEvent(h) ==
  LET r == request[h] IN
  /\ r.at = "webhookNew"
  /\ IF eventRow[EventOf(r)] = "none" /\ (r.status = "deleted" \/ Exists(r.order))
       THEN /\ eventRow' = [eventRow EXCEPT ![EventOf(r)] = "recorded"]
            /\ Go(h, [r EXCEPT !.at = "webhookRecorded"])
            /\ UNCHANGED <<order, passes, delivery>>
       ELSE Raise(h)
  /\ UNCHANGED <<captured, crashes>>

(* Mutant: any event about the payment confirms the order. *)
ReadWebhookAnyKind(h) ==
  LET r == request[h] IN
  /\ r.at = "webhookRecorded" /\ r.status # "deleted"
  /\ Go(h, Reading("webhookRead", r.order, r.kind))
  /\ UNCHANGED <<order, passes, captured, delivery, eventRow, crashes>>

(* The confirming transaction reads the order afresh. *)
ReadWebhook(h) ==
  LET r == request[h] IN
  /\ r.at = "webhookRecorded" /\ r.kind \in CaptureKinds /\ r.status # "deleted"
  /\ Go(h, Reading("webhookRead", r.order, r.kind))
  /\ UNCHANGED <<order, passes, captured, delivery, eventRow, crashes>>

(* The event becomes processed; the gateway may miss the answer. *)
Processed(h, e) ==
  /\ eventRow' = [eventRow EXCEPT ![e] = "processed"]
  /\ delivery' \in {delivery, [delivery EXCEPT ![e] = "acked"]}
  /\ Finish(h)

CommitWebhook(h) ==
  LET r == request[h]
      writesOrder == r.status # "PAID" \/ WebhookIssues(r) > 0
  IN
  /\ r.at = "webhookRead"
  /\ IF eventRow[EventOf(r)] = "none" \/ (writesOrder /\ ~Exists(r.order))
       THEN Raise(h)
       ELSE /\ IF writesOrder THEN Confirm(r, WebhookIssues(r))
                              ELSE UNCHANGED <<order, passes>>
            /\ Processed(h, EventOf(r))
  /\ UNCHANGED <<captured, crashes>>

(* Any other event, or one of an order not found, is only marked; a failed *)
(* payment also writes the order it read as PENDING.                       *)
CloseEvent(h) ==
  LET r == request[h] IN
  /\ r.at = "webhookRecorded" /\ (r.kind \notin CaptureKinds \/ r.status = "deleted")
  /\ IF eventRow[EventOf(r)] = "none" \/ (r.status = "PENDING" /\ ~Exists(r.order))
       THEN Raise(h)
       ELSE Processed(h, EventOf(r)) /\ UNCHANGED <<order, passes>>
  /\ UNCHANGED <<captured, crashes>>

-----------------------------------------------------------------------------
(* deleteOrderAdmin and, order by order, bulkDeleteOrdersAdmin: the order  *)
(* is read with its dependants before the transaction.                     *)

(* getOrderProtectionReason.  A cancelled order was protected before and   *)
(* keeps its payment or its events; passes with scans belong to orders     *)
(* that were paid.                                                         *)
Protected(o) == \/ order[o] \in {"PAID", "CANCELLED"}
                \/ \E e \in Events : e.order = o /\ eventRow[e] # "none"

(* Others than the super administrator may only remove what is not         *)
(* protected; full power is a setting switched on and off at any time.     *)
(* The bulk deletion never cancels.                                        *)
BeginDelete(h, o, super, power) ==
  /\ Idling(h) /\ Exists(o)
  /\ Protected(o) => super
  /\ power => super /\ FullPower
  /\ LET mode == IF power THEN "purge"
                 ELSE IF Protected(o) THEN "cancel" ELSE "remove"
     IN Go(h, Reading(mode, o, Idle.kind))
  /\ UNCHANGED <<order, passes, captured, delivery, eventRow, crashes>>

(* A removal in progress holds the rows of the passes it deleted. *)
PassesLocked(o) == \E g \in Handlers : /\ request[g].at = "removeOrder"
                                       /\ request[g].order = o /\ request[g].passes > 0

(* Mutant: the cancellation ignores the row locks. *)
CancelUnlocked(h) ==
  LET r == request[h] IN
  /\ r.at = "cancel"
  /\ IF Exists(r.order)
       THEN /\ order' = [order EXCEPT ![r.order] = "CANCELLED"]
            /\ passes' = [passes EXCEPT ![r.order].live = 0, ![r.order].revoked = Linked(r.order)]
            /\ Finish(h) /\ UNCHANGED <<delivery, eventRow>>
       ELSE Raise(h)
  /\ UNCHANGED <<captured, crashes>>

CancelOrder(h) ==
  LET r == request[h] IN
  /\ r.at = "cancel" /\ ~PassesLocked(r.order)
  /\ IF Exists(r.order)
       THEN /\ order' = [order EXCEPT ![r.order] = "CANCELLED"]
            /\ passes' = [passes EXCEPT ![r.order] =
                            [live |-> 0, revoked |-> Linked(r.order), orphan |-> @.orphan]]
            /\ Finish(h) /\ UNCHANGED <<delivery, eventRow>>
       ELSE Raise(h)
  /\ UNCHANGED <<captured, crashes>>

(* DELETE of the order: its passes still there lose their order_id. *)
DeleteRow(o, gone) ==
  /\ order' = [order EXCEPT ![o] = "deleted"]
  /\ passes' = [passes EXCEPT ![o] = [live |-> 0, revoked |-> 0,
                                      orphan |-> @.orphan + @.live - gone]]

(* Full power: webhook receipts and order go; passes only if some were     *)
(* read before the transaction.                                            *)
PurgeOrder(h) ==
  LET r == request[h] IN
  /\ r.at = "purge" /\ ~PassesLocked(r.order)
  /\ IF Exists(r.order)
       THEN /\ DeleteRow(r.order, IF r.passes > 0 THEN passes[r.order].live ELSE 0)
            /\ eventRow' = [e \in Events |-> IF e.order = r.order THEN "none" ELSE eventRow[e]]
            /\ Finish(h) /\ UNCHANGED delivery
       ELSE Raise(h)
  /\ UNCHANGED <<captured, crashes>>

(* First statement of the plain removal: the live passes it deletes. *)
RemovePasses(h) ==
  LET r == request[h] IN
  /\ r.at = "remove" /\ ~PassesLocked(r.order)
  /\ Go(h, [r EXCEPT !.at = "removeOrder", !.passes = passes[r.order].live])
  /\ UNCHANGED <<order, passes, captured, delivery, eventRow, crashes>>

(* Second statement and commit. *)
RemoveOrder(h) ==
  LET r == request[h] IN
  /\ r.at = "removeOrder"
  /\ IF Exists(r.order)
       THEN DeleteRow(r.order, r.passes) /\ Finish(h) /\ UNCHANGED <<delivery, eventRow>>
       ELSE Raise(h)
  /\ UNCHANGED <<captured, crashes>>

(* The process restarts: the request is gone, its transaction rolled back. *)
Crash(h) ==
  /\ ~Idling(h) /\ crashes < MaxCrashes
  /\ crashes' = crashes + 1
  /\ Raise(h) /\ UNCHANGED captured

-----------------------------------------------------------------------------
Step(h) == \/ ReadVerify(h) \/ CommitVerify(h)
           \/ RecordEvent(h) \/ ReadWebhook(h) \/ CommitWebhook(h) \/ CloseEvent(h)
           \/ CancelOrder(h) \/ PurgeOrder(h) \/ RemovePasses(h) \/ RemoveOrder(h)

Next == \/ \E o \in Orders : CreateOrder(o) \/ Pay(o)
        \/ \E e \in Events : Decline(e) \/ SkipProcessed(e)
        \/ \E h \in Handlers :
             \/ \E o \in Orders : \/ BeginVerify(h, o)
                                  \/ \E super, power \in BOOLEAN : BeginDelete(h, o, super, power)
             \/ \E e \in Events : BeginWebhook(h, e)
             \/ Step(h)
             \/ Crash(h)

Spec == Init /\ [][Next]_vars

(* The event loop finishes what it started, and the gateway sends an event *)
(* again until it is answered, whatever else the handlers are busy with.   *)
Fairness == /\ \A h \in Handlers : WF_vars(Step(h))
            /\ \A e \in Events : SF_vars(delivery[e] = "sent" /\ \E h \in Handlers : BeginWebhook(h, e))

FairSpec == Spec /\ Fairness

-----------------------------------------------------------------------------
(* An order marked paid has all the passes that were paid for: whoever     *)
(* wrote PAID wrote the missing passes in the same transaction.            *)
PaidHasPasses == \A o \in Orders : order[o] = "PAID" => Linked(o) >= Quantity

(* A capture receipt marked processed is never the last word on a pending  *)
(* order: a later delivery would be skipped and the money kept for nothing.*)
ProcessedMeansConfirmed ==
  \A e \in Events : eventRow[e] = "processed" /\ e.kind \in CaptureKinds
                      => order[e.order] # "PENDING"

(* An order never issues more passes than it paid for (the guard at        *)
(* verifyPayment's "If already paid and passes exist").                    *)
IssuedOnce == \A o \in Orders : Linked(o) + passes[o].orphan <= Quantity

(* Retries, redeliveries and restarts add no passes: an order's passes come *)
(* at most once from each request that was in flight when the first of     *)
(* them committed, so a single request at a time issues exactly once.      *)
OneBatchPerOverlap ==
  \A o \in Orders : Linked(o) + passes[o].orphan <= Quantity * Cardinality(Handlers)

Public == INSTANCE PublicOrder WITH TestOrders <- FALSE

(* Whatever requests overlap, and whatever they remember, an order becomes *)
(* PAID only once its money was taken, failed attempts confirm nothing,    *)
(* and nothing brings a deleted order back.                                *)
ImplementsPublicOrder == Public!Spec

(* A captured payment is not left on a pending order, although browsers    *)
(* leave, deliveries are lost or doubled and processes restart.            *)
CaptureConfirmed ==
  \A o \in Orders : captured[o] /\ order[o] = "PENDING" ~> order[o] # "PENDING"
=============================================================================

---------------------- MODULE PaymentConfirmationProofs ----------------------
(***************************************************************************)
(* What PaymentConfirmation keeps for every set of orders and handlers,    *)
(* every quantity and any number of restarts.                              *)
(*                                                                         *)
(* PaidHasPasses and ProcessedMeansConfirmed are not inductive: a handler  *)
(* commits what it decided from an earlier read.  What makes them hold is  *)
(* that between that read and the commit an order only makes progress      *)
(* (Progress): it does not become pending again, does not come back from   *)
(* deletion, and keeps its passes until it is deleted.                     *)
(***************************************************************************)
EXTENDS PaymentConfirmation, FiniteSetTheorems, TLAPS

USE NonEmptyAssumption, QuantityAssumption, SwitchAssumption, KindsAssumption

(* An order has no passes or all of them: passes are issued in batches.    *)
Batches == \A o \in Orders : Linked(o) = 0 \/ Linked(o) >= Quantity

(* The gateway sends events of orders that were created only. *)
EventsHaveOrders ==
  \A e \in Events : delivery[e] # "unsent" \/ eventRow[e] # "none" => order[e.order] # "none"

(* What a handler remembers is still good enough for what it will do.      *)
StillGood(r) ==
  /\ order[r.order] # "none"
  /\ r.at \in {"verifyRead", "webhookRead"} =>
        /\ r.passes = 0 \/ r.passes >= Quantity
        /\ Exists(r.order) => Linked(r.order) >= r.passes
        /\ r.status = "PAID" => order[r.order] # "PENDING"
  /\ r.at \in {"webhookNew", "webhookRecorded"} /\ r.status = "deleted"
        => order[r.order] = "deleted"
  /\ r.at = "removeOrder" /\ Exists(r.order) => r.passes <= passes[r.order].live

ReadsStillGood == \A h \in Handlers : ~Idling(h) => StillGood(request[h])

IInv == /\ TypeOK /\ Batches /\ EventsHaveOrders /\ ReadsStillGood
        /\ PaidHasPasses /\ ProcessedMeansConfirmed

(* What any step may do to an order. *)
Progress(o) ==
  /\ order[o] # "none" => order'[o] # "none"
  /\ order'[o] = "PENDING" => order[o] \in {"none", "PENDING"}
  /\ order[o] = "deleted" => order'[o] = "deleted"
  /\ order'[o] # "deleted" => Linked(o)' >= Linked(o)

(* The removal in progress holds the passes it counted. *)
RemovalGoesOn(r) ==
  r.at = "removeOrder" => \/ order'[r.order] = "deleted" \/ r.passes = 0
                          \/ passes'[r.order].live >= passes[r.order].live

-----------------------------------------------------------------------------
(* Facts about records and functions *)

LEMMA RequestFields ==
    ASSUME TypeOK, NEW h \in Handlers
    PROVE  /\ request[h].at \in Places /\ request[h].order \in Orders
           /\ request[h].kind \in Kinds /\ request[h].status \in Status
           /\ request[h].passes \in Nat
  BY DEF TypeOK, Request

LEMMA PassFields ==
    ASSUME TypeOK, NEW o \in Orders
    PROVE  /\ passes[o].live \in Nat /\ passes[o].revoked \in Nat /\ passes[o].orphan \in Nat
           /\ Linked(o) \in Nat /\ order[o] \in Status
  BY DEF TypeOK, Passes, Linked

LEMMA IdleOK == Idle \in Request
  BY DEF Idle, Request, Places, Status

LEMMA ReadingOK ==
    ASSUME TypeOK, NEW p \in Places, NEW o \in Orders, NEW k \in Kinds
    PROVE  Reading(p, o, k) \in Request
  BY PassFields DEF Reading, Request, TypeOK

LEMMA EventFields ==
    ASSUME NEW e \in Events
    PROVE  e.order \in Orders /\ e.kind \in Kinds
  BY DEF Events

LEMMA EventOfOK ==
    ASSUME TypeOK, NEW h \in Handlers
    PROVE  /\ EventOf(request[h]) \in Events
           /\ EventOf(request[h]).order = request[h].order
           /\ EventOf(request[h]).kind = request[h].kind
  BY RequestFields DEF EventOf, Events

(* A handler other than the one that moves keeps what it remembers valid.  *)
LEMMA OthersStayGood ==
    ASSUME TypeOK, TypeOK', NEW g \in Handlers, request'[g] = request[g],
           Progress(request[g].order), RemovalGoesOn(request[g]),
           StillGood(request[g])
    PROVE  StillGood(request[g])'
  <1> DEFINE r == request[g]
             o == r.order
  <1>1. /\ o \in Orders /\ r.passes \in Nat
        /\ passes[o].live \in Nat /\ passes'[o].live \in Nat
        /\ Linked(o) \in Nat /\ Linked(o)' \in Nat /\ order[o] \in Status
    <2>1. o \in Orders /\ r.passes \in Nat
      BY RequestFields
    <2>2. passes'[o].live \in Nat /\ passes'[o].revoked \in Nat
      BY <2>1 DEF TypeOK, Passes
    <2>3. QED BY <2>1, <2>2, PassFields DEF Linked
  <1>2. order'[o] # "none"
    BY DEF Progress, StillGood
  <1>3. ASSUME r.at \in {"verifyRead", "webhookRead"}
        PROVE  /\ r.passes = 0 \/ r.passes >= Quantity
               /\ Exists(o)' => Linked(o)' >= r.passes
               /\ r.status = "PAID" => order'[o] # "PENDING"
    BY <1>1, <1>3, QuantityAssumption DEF Progress, StillGood, Exists
  <1>4. ASSUME r.at \in {"webhookNew", "webhookRecorded"}, r.status = "deleted"
        PROVE  order'[o] = "deleted"
    BY <1>4 DEF Progress, StillGood
  <1>5. ASSUME r.at = "removeOrder", Exists(o)'
        PROVE  r.passes <= passes'[o].live
    <2>1. Exists(o)
      BY <1>5 DEF Exists, Progress, StillGood
    <2>2. r.passes <= passes[o].live
      BY <1>5, <2>1 DEF StillGood
    <2>3. QED BY <1>1, <1>5, <2>2 DEF RemovalGoesOn, Exists
  <1>6. QED BY <1>2, <1>3, <1>4, <1>5 DEF StillGood, Exists, Linked

(* A step of h after which the reads of the others are still good and h    *)
(* has none, or one that is good.                                          *)
LEMMA ReadsFramed ==
    ASSUME IInv, TypeOK', NEW h \in Handlers, NEW r \in Request, Go(h, r),
           r.at # "idle" => StillGood(r)',
           \A o \in Orders : Progress(o),
           \A g \in Handlers \ {h} : RemovalGoesOn(request[g])
    PROVE  ReadsStillGood'
  <1> SUFFICES ASSUME NEW g \in Handlers, ~Idling(g)'
               PROVE  StillGood(request[g])'
    BY DEF ReadsStillGood
  <1>1. CASE g = h
    <2>1. request'[g] = r
      BY <1>1 DEF Go, IInv, TypeOK
    <2>2. StillGood(r)'
      BY <2>1 DEF Idling
    <2>3. QED BY <2>1, <2>2 DEF StillGood
  <1>2. CASE g # h
    <2>1. request'[g] = request[g]
      BY <1>2 DEF Go, IInv, TypeOK
    <2>2. StillGood(request[g])
      BY <2>1 DEF IInv, ReadsStillGood, Idling
    <2>3. QED BY <1>2, <2>1, <2>2, OthersStayGood, RequestFields DEF IInv
  <1>3. QED BY <1>1, <1>2

(* Nothing but the handler's own memory changes. *)
LEMMA OnlyMemory ==
    ASSUME IInv, NEW h \in Handlers, NEW r \in Request, Go(h, r),
           UNCHANGED <<order, passes, captured, delivery, eventRow>>,
           crashes' \in 0..MaxCrashes,
           r.at # "idle" => StillGood(r)
    PROVE  IInv'
  <1>1. TypeOK'
    BY DEF IInv, TypeOK, Go
  <1>2. \A o \in Orders : Progress(o)
    BY PassFields DEF Progress, IInv, Linked
  <1>3. \A g \in Handlers : RemovalGoesOn(request[g])
    BY RequestFields, PassFields DEF RemovalGoesOn, IInv
  <1>4. r.at # "idle" => StillGood(r)'
    BY DEF StillGood, Exists, Linked
  <1>5. ReadsStillGood'
    BY <1>1, <1>2, <1>3, <1>4, ReadsFramed
  <1>6. QED
    BY <1>1, <1>5 DEF IInv, Batches, EventsHaveOrders, PaidHasPasses,
          ProcessedMeansConfirmed, Linked

LEMMA Raised ==
    ASSUME IInv, NEW h \in Handlers, Raise(h), UNCHANGED captured, crashes' \in 0..MaxCrashes
    PROVE  IInv'
  BY IdleOK, OnlyMemory DEF Raise, Finish, Idle

LEMMA Finished ==
    ASSUME IInv, NEW h \in Handlers, Finish(h),
           UNCHANGED <<order, passes, captured, delivery, eventRow, crashes>>
    PROVE  IInv'
  BY Raised DEF Raise, IInv, TypeOK

-----------------------------------------------------------------------------
(* The steps that change a handler's memory only *)

LEMMA BeginVerifyStep ==
    ASSUME IInv, NEW h \in Handlers, NEW o \in Orders, BeginVerify(h, o)
    PROVE  IInv'
  <1> DEFINE r == [Idle EXCEPT !.at = "verify", !.order = o]
  <1>1. r \in Request /\ r.at = "verify" /\ r.order = o
    BY DEF Idle, Request, Places, Status
  <1> HIDE DEF r
  <1>2. StillGood(r)
    BY <1>1 DEF StillGood, BeginVerify, Exists
  <1>3. Go(h, r)
    BY DEF BeginVerify, r
  <1>4. QED BY <1>1, <1>2, <1>3, OnlyMemory DEF BeginVerify, IInv, TypeOK

(* What a read of an order gives is good as long as nothing happens. *)
LEMMA ReadingGood ==
    ASSUME IInv, NEW p \in Places, NEW o \in Orders, NEW k \in Kinds,
           order[o] # "none", p # "removeOrder"
    PROVE  StillGood(Reading(p, o, k))
  BY PassFields DEF StillGood, Reading, IInv, Batches, Exists

LEMMA RememberReading ==
    ASSUME IInv, NEW h \in Handlers, NEW p \in Places, NEW o \in Orders, NEW k \in Kinds,
           Go(h, Reading(p, o, k)), order[o] # "none", p # "removeOrder",
           UNCHANGED <<order, passes, captured, delivery, eventRow, crashes>>
    PROVE  IInv'
  <1>1. Reading(p, o, k) \in Request
    BY ReadingOK DEF IInv
  <1>2. StillGood(Reading(p, o, k))
    BY ReadingGood
  <1>3. QED BY <1>1, <1>2, OnlyMemory DEF IInv, TypeOK

LEMMA ReadVerifyStep ==
    ASSUME IInv, NEW h \in Handlers, ReadVerify(h)
    PROVE  IInv'
  <1>1. CASE Finish(h)
    BY <1>1, Finished DEF ReadVerify
  <1>2. CASE Go(h, Reading("verifyRead", request[h].order, request[h].kind))
    <2>1. order[request[h].order] # "none"
      BY DEF ReadVerify, IInv, ReadsStillGood, Idling, StillGood
    <2>2. QED BY <1>2, <2>1, RememberReading, RequestFields DEF ReadVerify, Places, IInv
  <1>3. QED BY <1>1, <1>2 DEF ReadVerify

LEMMA ReadWebhookStep ==
    ASSUME IInv, NEW h \in Handlers, ReadWebhook(h)
    PROVE  IInv'
  <1>1. order[request[h].order] # "none"
    BY DEF ReadWebhook, IInv, ReadsStillGood, Idling, StillGood
  <1>2. QED BY <1>1, RememberReading, RequestFields DEF ReadWebhook, Places, IInv

LEMMA BeginWebhookStep ==
    ASSUME IInv, NEW h \in Handlers, NEW e \in Events, BeginWebhook(h, e)
    PROVE  IInv'
  <1>1. order[e.order] # "none"
    BY DEF BeginWebhook, IInv, EventsHaveOrders
  <1>2. CASE eventRow[e] = "none"
    BY <1>1, <1>2, RememberReading, EventFields DEF BeginWebhook, Places
  <1>3. CASE eventRow[e] # "none"
    BY <1>1, <1>3, RememberReading, EventFields DEF BeginWebhook, Places
  <1>4. QED BY <1>2, <1>3

LEMMA BeginDeleteStep ==
    ASSUME IInv, NEW h \in Handlers, NEW o \in Orders, NEW super \in BOOLEAN,
           NEW power \in BOOLEAN, BeginDelete(h, o, super, power)
    PROVE  IInv'
  <1>1. order[o] # "none" /\ Idle.kind \in Kinds
    BY IdleOK DEF BeginDelete, Exists, Request
  <1>2. PICK p \in {"purge", "cancel", "remove"} : Go(h, Reading(p, o, Idle.kind))
    BY DEF BeginDelete
  <1>3. QED BY <1>1, <1>2, RememberReading DEF BeginDelete, Places

LEMMA RemovePassesStep ==
    ASSUME IInv, NEW h \in Handlers, RemovePasses(h)
    PROVE  IInv'
  <1> DEFINE n == passes[request[h].order].live
             r == [request[h] EXCEPT !.at = "removeOrder", !.passes = n]
  <1>1. n \in Nat
    BY RequestFields, PassFields DEF IInv
  <1>2. /\ r \in Request /\ r.at = "removeOrder" /\ r.passes = n
        /\ r.order = request[h].order
    BY <1>1 DEF IInv, TypeOK, Request, Places
  <1>3. order[request[h].order] # "none"
    BY DEF RemovePasses, IInv, ReadsStillGood, Idling, StillGood
  <1>4. Go(h, r)
    BY DEF RemovePasses
  <1>5. StillGood(r)
    BY <1>1, <1>2, <1>3 DEF StillGood
  <1> HIDE DEF r
  <1>6. QED BY <1>2, <1>4, <1>5, OnlyMemory DEF RemovePasses, IInv, TypeOK

-----------------------------------------------------------------------------
(* The customer, the gateway and the receipts *)

(* No order or pass changes, and no handler moves. *)
LEMMA HandlersWait ==
    ASSUME IInv, TypeOK', UNCHANGED request, \A o \in Orders : Progress(o),
           UNCHANGED passes
    PROVE  ReadsStillGood'
  <1> SUFFICES ASSUME NEW g \in Handlers, ~Idling(g)'
               PROVE  StillGood(request[g])'
    BY DEF ReadsStillGood
  <1>1. request'[g] = request[g] /\ StillGood(request[g])
    BY DEF IInv, ReadsStillGood, Idling
  <1>2. RemovalGoesOn(request[g])
    BY RequestFields, PassFields DEF RemovalGoesOn, IInv
  <1>3. QED BY <1>1, <1>2, OthersStayGood, RequestFields DEF IInv

LEMMA CreateOrderStep ==
    ASSUME IInv, NEW o \in Orders, CreateOrder(o)
    PROVE  IInv'
  <1>1. TypeOK'
    BY DEF IInv, TypeOK, CreateOrder, Status
  <1>2. \A p \in Orders : order'[p] = IF p = o THEN "PENDING" ELSE order[p]
    BY DEF CreateOrder, IInv, TypeOK
  <1>3. \A p \in Orders : Progress(p)
    BY <1>2, PassFields DEF CreateOrder, Progress, Linked, IInv
  <1>4. ReadsStillGood'
    BY <1>1, <1>3, HandlersWait DEF CreateOrder
  <1>5. Batches' /\ PaidHasPasses'
    BY <1>2 DEF IInv, Batches, PaidHasPasses, Linked, CreateOrder
  <1>6. EventsHaveOrders'
    BY <1>2, EventFields DEF IInv, EventsHaveOrders, CreateOrder
  <1>7. ProcessedMeansConfirmed'
    BY <1>2, EventFields DEF IInv, EventsHaveOrders, ProcessedMeansConfirmed, CreateOrder
  <1>8. QED BY <1>1, <1>4, <1>5, <1>6, <1>7 DEF IInv

(* Deliveries move, and only of events whose order exists. *)
LEMMA DeliveryStep ==
    ASSUME IInv, UNCHANGED <<order, passes, eventRow, request, crashes>>,
           captured' \in [Orders -> BOOLEAN],
           delivery' \in [Events -> {"unsent", "sent", "acked"}],
           \A e \in Events : delivery'[e] # delivery[e] => order[e.order] # "none"
    PROVE  IInv'
  <1>1. TypeOK'
    BY DEF IInv, TypeOK
  <1>2. \A o \in Orders : Progress(o)
    BY PassFields DEF Progress, Linked, IInv
  <1>3. ReadsStillGood'
    BY <1>1, <1>2, HandlersWait
  <1>4. EventsHaveOrders'
    BY DEF IInv, EventsHaveOrders
  <1>5. QED
    BY <1>1, <1>3, <1>4 DEF IInv, Batches, PaidHasPasses, ProcessedMeansConfirmed, Linked

LEMMA PayStep ==
    ASSUME IInv, NEW o \in Orders, Pay(o)
    PROVE  IInv'
  <1>1. captured' \in [Orders -> BOOLEAN]
    BY DEF Pay, IInv, TypeOK
  <1>2. /\ delivery' \in [Events -> {"unsent", "sent", "acked"}]
        /\ \A e \in Events : delivery'[e] # delivery[e] => order[e.order] # "none"
    BY DEF Pay, IInv, TypeOK
  <1>3. QED BY <1>1, <1>2, DeliveryStep DEF Pay

LEMMA DeclineStep ==
    ASSUME IInv, NEW e \in Events, Decline(e) \/ SkipProcessed(e)
    PROVE  IInv'
  <1>1. captured' \in [Orders -> BOOLEAN]
    BY DEF Decline, SkipProcessed, IInv, TypeOK
  <1>2. /\ delivery' \in [Events -> {"unsent", "sent", "acked"}]
        /\ \A f \in Events : delivery'[f] # delivery[f] => order[f.order] # "none"
    BY DEF Decline, SkipProcessed, IInv, TypeOK, EventsHaveOrders
  <1>3. QED BY <1>1, <1>2, DeliveryStep DEF Decline, SkipProcessed

LEMMA RecordEventStep ==
    ASSUME IInv, NEW h \in Handlers, RecordEvent(h)
    PROVE  IInv'
  <1> DEFINE r == request[h]
             e == EventOf(r)
  <1>1. CASE Raise(h)
    BY <1>1, Raised DEF RecordEvent, IInv, TypeOK
  <1>2. CASE ~Raise(h)
    <2>1. /\ r.at = "webhookNew" /\ Go(h, [r EXCEPT !.at = "webhookRecorded"])
          /\ eventRow' = [eventRow EXCEPT ![e] = "recorded"]
          /\ UNCHANGED <<order, passes, delivery, captured, crashes>>
      BY <1>2 DEF RecordEvent
    <2>2. PICK s \in Request : /\ Go(h, s) /\ s.at = "webhookRecorded" /\ s.order = r.order
                              /\ s.status = r.status
      BY <2>1 DEF IInv, TypeOK, Request, Places
    <2>3. e \in Events /\ e.order = r.order /\ StillGood(r)
      BY <2>1, EventOfOK DEF IInv, ReadsStillGood, Idling
    <2> HIDE DEF e
    <2>4. TypeOK'
      BY <2>1, <2>2, <2>3 DEF IInv, TypeOK, Go
    <2>5. /\ \A o \in Orders : Progress(o)
          /\ \A g \in Handlers : RemovalGoesOn(request[g])
      BY <2>1, PassFields, RequestFields DEF Progress, RemovalGoesOn, Linked, IInv
    <2>6. StillGood(s)'
      BY <2>1, <2>2, <2>3 DEF StillGood
    <2>7. ReadsStillGood'
      BY <2>1, <2>2, <2>4, <2>5, <2>6, ReadsFramed
    <2>8. order[e.order] # "none"
      BY <2>3 DEF StillGood
    <2>9. EventsHaveOrders' /\ ProcessedMeansConfirmed'
      BY <2>1, <2>3, <2>8 DEF IInv, TypeOK, EventsHaveOrders, ProcessedMeansConfirmed
    <2>10. QED
      BY <2>1, <2>4, <2>7, <2>9 DEF IInv, Batches, PaidHasPasses, Linked
  <1>3. QED BY <1>1, <1>2

(* An event is marked processed once its order is not pending any more, if *)
(* it reports a capture.                                                   *)
LEMMA ProcessedStep ==
    ASSUME IInv, NEW h \in Handlers, NEW e \in Events, Processed(h, e),
           UNCHANGED <<captured, crashes>>,
           order' \in [Orders -> Status], passes' \in [Orders -> Passes],
           \A o \in Orders : Progress(o), Batches', PaidHasPasses',
           \A g \in Handlers \ {h} : RemovalGoesOn(request[g]),
           order[e.order] # "none", e.kind \in CaptureKinds => order'[e.order] # "PENDING"
    PROVE  IInv'
  <1>1. TypeOK'
    BY IdleOK DEF IInv, TypeOK, Processed, Finish, Go
  <1>2. ReadsStillGood'
    BY <1>1, IdleOK, ReadsFramed DEF Processed, Finish, Idle
  <1>3. \A f \in Events : /\ eventRow'[f] = IF f = e THEN "processed" ELSE eventRow[f]
                          /\ delivery'[f] # "unsent" => delivery[f] # "unsent" \/ f = e
    BY DEF Processed, IInv, TypeOK
  <1>4. EventsHaveOrders'
    BY <1>3, EventFields DEF IInv, EventsHaveOrders, Progress
  <1>5. ProcessedMeansConfirmed'
    <2> SUFFICES ASSUME NEW f \in Events, eventRow'[f] = "processed", f.kind \in CaptureKinds
                 PROVE  order'[f.order] # "PENDING"
      BY DEF ProcessedMeansConfirmed
    <2>1. CASE f = e
      BY <2>1
    <2>2. CASE f # e
      <3>1. order[f.order] \notin {"none", "PENDING"}
        BY <1>3, <2>2 DEF IInv, EventsHaveOrders, ProcessedMeansConfirmed
      <3>2. QED BY <3>1, EventFields DEF Progress
    <2>3. QED BY <2>1, <2>2
  <1>6. QED BY <1>1, <1>2, <1>4, <1>5 DEF IInv

LEMMA CloseEventStep ==
    ASSUME IInv, NEW h \in Handlers, CloseEvent(h)
    PROVE  IInv'
  <1> DEFINE r == request[h]
             e == EventOf(r)
  <1>1. CASE Raise(h)
    BY <1>1, Raised DEF CloseEvent, IInv, TypeOK
  <1>2. CASE ~Raise(h)
    <2>1. /\ r.at = "webhookRecorded" /\ (r.kind \notin CaptureKinds \/ r.status = "deleted")
          /\ Processed(h, e) /\ UNCHANGED <<order, passes, captured, crashes>>
      BY <1>2 DEF CloseEvent
    <2>2. e \in Events /\ e.order = r.order /\ e.kind = r.kind /\ StillGood(r)
      BY <2>1, EventOfOK DEF IInv, ReadsStillGood, Idling
    <2> HIDE DEF e
    <2>3. /\ \A o \in Orders : Progress(o)
          /\ \A g \in Handlers : RemovalGoesOn(request[g])
      BY <2>1, PassFields, RequestFields DEF Progress, RemovalGoesOn, Linked, IInv
    <2>4. /\ order[e.order] # "none"
          /\ e.kind \in CaptureKinds => order'[e.order] # "PENDING"
      BY <2>1, <2>2 DEF StillGood
    <2>5. /\ order' \in [Orders -> Status] /\ passes' \in [Orders -> Passes]
          /\ Batches' /\ PaidHasPasses'
      BY <2>1 DEF IInv, TypeOK, Batches, PaidHasPasses, Linked
    <2>6. QED BY <2>1, <2>2, <2>3, <2>4, <2>5, ProcessedStep
  <1>3. QED BY <1>1, <1>2

-----------------------------------------------------------------------------
(* The steps that confirm an order *)

(* Writing PAID with a whole batch, or nothing when there is one already.  *)
LEMMA ConfirmEffect ==
    ASSUME IInv, NEW h \in Handlers, NEW n \in {0, Quantity},
           request[h].at \in {"verifyRead", "webhookRead"},
           Confirm(request[h], n), Exists(request[h].order),
           n = 0 => request[h].passes # 0
    PROVE  /\ order' \in [Orders -> Status] /\ passes' \in [Orders -> Passes]
           /\ \A o \in Orders : Progress(o)
           /\ \A g \in Handlers : RemovalGoesOn(request[g])
           /\ Batches' /\ PaidHasPasses'
           /\ order'[request[h].order] # "PENDING"
  <1> DEFINE r == request[h]
  <1>0. PICK o \in Orders : o = r.order
    BY RequestFields DEF IInv
  <1>1. /\ r.passes \in Nat /\ r.status \in Status /\ n \in Nat
        /\ StillGood(r)
    BY RequestFields DEF IInv, ReadsStillGood, Idling
  <1>2. /\ r.passes = 0 \/ r.passes >= Quantity
        /\ Linked(o) >= r.passes
        /\ r.status = "PAID" => order[o] # "PENDING"
    BY <1>0, <1>1 DEF StillGood
  <1>3. /\ order' \in [Orders -> Status]
        /\ \A p \in Orders : order'[p] = IF p = o /\ r.status # "PAID" THEN "PAID" ELSE order[p]
    BY <1>0, <1>1 DEF Confirm, IInv, TypeOK, Status
  <1>4. \A p \in Orders : /\ passes[p].live \in Nat /\ passes[p].revoked \in Nat
                          /\ passes[p].orphan \in Nat
    BY PassFields DEF IInv
  <1>5. /\ passes' \in [Orders -> Passes]
        /\ \A p \in Orders : /\ passes'[p].live = passes[p].live + (IF p = o THEN n ELSE 0)
                             /\ passes'[p].revoked = passes[p].revoked
    BY <1>0, <1>1, <1>4 DEF Confirm, IInv, TypeOK, Passes
  <1>6. \A p \in Orders : /\ Linked(p) \in Nat
                          /\ Linked(p)' = Linked(p) + (IF p = o THEN n ELSE 0)
    BY <1>4, <1>5, <1>1 DEF Linked
  <1>7. \A p \in Orders : Progress(p)
    BY <1>0, <1>1, <1>3, <1>6 DEF Progress, Exists
  <1>8. \A g \in Handlers : RemovalGoesOn(request[g])
    BY <1>0, <1>1, <1>4, <1>5, RequestFields DEF RemovalGoesOn, IInv
  <1>9. Batches'
    BY <1>1, <1>6, QuantityAssumption DEF IInv, Batches
  <1>10. Linked(o)' >= Quantity
    <2>1. CASE n = 0
      BY <2>1, <1>1, <1>2, <1>6, QuantityAssumption
    <2>2. CASE n = Quantity
      BY <2>2, <1>1, <1>6, QuantityAssumption
    <2>3. QED BY <2>1, <2>2
  <1>11. PaidHasPasses'
    BY <1>1, <1>3, <1>6, <1>10, QuantityAssumption DEF IInv, PaidHasPasses
  <1>12. QED BY <1>1, <1>2, <1>3, <1>5, <1>7, <1>8, <1>9, <1>11, <1>0

(* Steps that write orders and passes, but no receipt. *)
LEMMA OrdersWritten ==
    ASSUME IInv, NEW h \in Handlers, Finish(h), UNCHANGED <<captured, delivery, crashes>>,
           eventRow' \in [Events -> {"none", "recorded", "processed"}],
           \A e \in Events : eventRow'[e] \in {"none", eventRow[e]},
           order' \in [Orders -> Status], passes' \in [Orders -> Passes],
           \A o \in Orders : Progress(o), Batches', PaidHasPasses',
           \A g \in Handlers \ {h} : RemovalGoesOn(request[g])
    PROVE  IInv'
  <1>1. TypeOK'
    BY IdleOK DEF IInv, TypeOK, Finish, Go
  <1>2. ReadsStillGood'
    BY <1>1, IdleOK, ReadsFramed DEF Finish, Idle
  <1>3. EventsHaveOrders'
    BY EventFields DEF IInv, EventsHaveOrders, Progress
  <1>4. ProcessedMeansConfirmed'
    <2> SUFFICES ASSUME NEW f \in Events, eventRow'[f] = "processed", f.kind \in CaptureKinds
                 PROVE  order'[f.order] # "PENDING"
      BY DEF ProcessedMeansConfirmed
    <2>1. order[f.order] \notin {"none", "PENDING"}
      BY DEF IInv, EventsHaveOrders, ProcessedMeansConfirmed
    <2>2. QED BY <2>1, EventFields DEF Progress
  <1>5. QED BY <1>1, <1>2, <1>3, <1>4 DEF IInv

LEMMA CommitVerifyStep ==
    ASSUME IInv, NEW h \in Handlers, CommitVerify(h)
    PROVE  IInv'
  <1> DEFINE r == request[h]
  <1>1. CASE Raise(h)
    BY <1>1, Raised DEF CommitVerify, IInv, TypeOK
  <1>2. CASE ~Raise(h)
    <2>1. /\ r.at = "verifyRead" /\ Exists(r.order) /\ Confirm(r, Missing(r)) /\ Finish(h)
          /\ UNCHANGED <<delivery, eventRow, captured, crashes>>
      BY <1>2 DEF CommitVerify
    <2>2. r.passes \in Nat /\ (r.passes = 0 \/ r.passes >= Quantity)
      BY <2>1, RequestFields DEF IInv, ReadsStillGood, Idling, StillGood
    <2>3. Missing(r) \in {0, Quantity} /\ (Missing(r) = 0 => r.passes # 0)
      BY <2>2, QuantityAssumption DEF Missing
    <2>4. QED BY <2>1, <2>3, ConfirmEffect, OrdersWritten DEF IInv, TypeOK
  <1>3. QED BY <1>1, <1>2

LEMMA CommitWebhookStep ==
    ASSUME IInv, NEW h \in Handlers, CommitWebhook(h)
    PROVE  IInv'
  <1> DEFINE r == request[h]
             e == EventOf(r)
  <1>1. r.at = "webhookRead" /\ UNCHANGED <<captured, crashes>>
    BY DEF CommitWebhook
  <1>2. /\ e \in Events /\ e.order = r.order /\ e.kind = r.kind /\ StillGood(r)
        /\ order[r.order] # "none" /\ r.passes \in Nat /\ r.order \in Orders
    BY <1>1, EventOfOK, RequestFields DEF IInv, ReadsStillGood, Idling, StillGood
  <1> HIDE DEF e
  <1>3. CASE Raise(h)
    BY <1>1, <1>3, Raised DEF IInv, TypeOK
  <1>4. CASE Processed(h, e) /\ Exists(r.order) /\ Confirm(r, WebhookIssues(r))
    <2>1. WebhookIssues(r) \in {0, Quantity} /\ (WebhookIssues(r) = 0 => r.passes # 0)
      BY <1>2, QuantityAssumption DEF WebhookIssues
    <2>2. QED BY <1>1, <1>2, <1>4, <2>1, ConfirmEffect, ProcessedStep
  <1>5. CASE Processed(h, e) /\ r.status = "PAID" /\ UNCHANGED <<order, passes>>
    <2>1. /\ \A o \in Orders : Progress(o)
          /\ \A g \in Handlers : RemovalGoesOn(request[g])
      BY <1>5, PassFields, RequestFields DEF Progress, RemovalGoesOn, Linked, IInv
    <2>2. order'[e.order] # "PENDING"
      BY <1>1, <1>2, <1>5 DEF StillGood
    <2>3. /\ order' \in [Orders -> Status] /\ passes' \in [Orders -> Passes]
          /\ Batches' /\ PaidHasPasses'
      BY <1>5 DEF IInv, TypeOK, Batches, PaidHasPasses, Linked
    <2>4. QED BY <1>1, <1>2, <1>5, <2>1, <2>2, <2>3, ProcessedStep
  <1>6. QED BY <1>3, <1>4, <1>5 DEF CommitWebhook, e

-----------------------------------------------------------------------------
(* The steps that cancel or delete an order *)

(* Passes of a removal that counted some are locked. *)
LEMMA OthersHoldNone ==
    ASSUME IInv, NEW o \in Orders, ~PassesLocked(o), NEW g \in Handlers,
           request[g].at = "removeOrder", request[g].order = o
    PROVE  request[g].passes = 0
  BY RequestFields DEF PassesLocked, IInv

LEMMA CancelOrderStep ==
    ASSUME IInv, NEW h \in Handlers, CancelOrder(h)
    PROVE  IInv'
  <1>1. CASE Raise(h)
    BY <1>1, Raised DEF CancelOrder, IInv, TypeOK
  <1>2. CASE ~Raise(h)
    <2>1. PICK o \in Orders : o = request[h].order
      BY RequestFields DEF IInv
    <2>2. /\ ~PassesLocked(o) /\ Exists(o)
          /\ order' = [order EXCEPT ![o] = "CANCELLED"]
          /\ passes' = [passes EXCEPT ![o] = [live |-> 0, revoked |-> Linked(o), orphan |-> @.orphan]]
          /\ Finish(h) /\ UNCHANGED <<delivery, eventRow, captured, crashes>>
      BY <1>2, <2>1 DEF CancelOrder
    <2>3. /\ order' \in [Orders -> Status]
          /\ \A p \in Orders : order'[p] = IF p = o THEN "CANCELLED" ELSE order[p]
      BY <2>2 DEF IInv, TypeOK, Status
    <2>4. /\ passes' \in [Orders -> Passes]
          /\ \A p \in Orders \ {o} : passes'[p] = passes[p]
          /\ passes'[o].live = 0 /\ passes'[o].revoked = Linked(o)
      BY <2>2, PassFields DEF IInv, TypeOK, Passes
    <2>5. \A p \in Orders : Linked(p) \in Nat /\ Linked(p)' = Linked(p)
      BY <2>4, PassFields DEF Linked, IInv
    <2>6. \A p \in Orders : Progress(p)
      BY <2>2, <2>3, <2>5 DEF Progress, Exists
    <2>7. \A g \in Handlers : RemovalGoesOn(request[g])
      BY <2>2, <2>4, OthersHoldNone, RequestFields, PassFields DEF RemovalGoesOn, IInv
    <2>8. Batches' /\ PaidHasPasses'
      BY <2>3, <2>5 DEF IInv, Batches, PaidHasPasses
    <2>9. QED BY <2>2, <2>3, <2>4, <2>6, <2>7, <2>8, OrdersWritten DEF IInv, TypeOK
  <1>3. QED BY <1>1, <1>2

(* A deletion that takes no more passes than there are. *)
LEMMA DeleteRowEffect ==
    ASSUME IInv, NEW o \in Orders, NEW gone \in Nat, gone <= passes[o].live,
           Exists(o), DeleteRow(o, gone)
    PROVE  /\ order' \in [Orders -> Status] /\ passes' \in [Orders -> Passes]
           /\ \A p \in Orders : Progress(p)
           /\ \A g \in Handlers : RemovalGoesOn(request[g])
           /\ Batches' /\ PaidHasPasses'
  <1>1. /\ order' \in [Orders -> Status]
        /\ \A p \in Orders : order'[p] = IF p = o THEN "deleted" ELSE order[p]
    BY DEF DeleteRow, IInv, TypeOK, Status
  <1>2. passes[o].orphan + passes[o].live - gone \in Nat
    BY PassFields DEF IInv
  <1>3. /\ passes' \in [Orders -> Passes]
        /\ \A p \in Orders \ {o} : passes'[p] = passes[p]
        /\ passes'[o].live = 0 /\ passes'[o].revoked = 0
    BY <1>2 DEF DeleteRow, IInv, TypeOK, Passes
  <1>4. \A p \in Orders : /\ Linked(p) \in Nat
                          /\ Linked(p)' = IF p = o THEN 0 ELSE Linked(p)
    BY <1>3, PassFields DEF Linked, IInv
  <1>5. \A p \in Orders : Progress(p)
    BY <1>1, <1>4 DEF Progress, Exists
  <1>6. \A g \in Handlers : RemovalGoesOn(request[g])
    BY <1>1, <1>3, RequestFields, PassFields DEF RemovalGoesOn, IInv
  <1>7. Batches' /\ PaidHasPasses'
    BY <1>1, <1>4 DEF IInv, Batches, PaidHasPasses
  <1>8. QED BY <1>1, <1>3, <1>5, <1>6, <1>7

LEMMA PurgeOrderStep ==
    ASSUME IInv, NEW h \in Handlers, PurgeOrder(h)
    PROVE  IInv'
  <1>1. CASE Raise(h)
    BY <1>1, Raised DEF PurgeOrder, IInv, TypeOK
  <1>2. CASE ~Raise(h)
    <2>1. PICK o \in Orders : o = request[h].order
      BY RequestFields DEF IInv
    <2>2. PICK gone \in {0, passes[o].live} : DeleteRow(o, gone)
      BY <1>2, <2>1 DEF PurgeOrder
    <2>3. /\ Exists(o) /\ Finish(h) /\ UNCHANGED <<delivery, captured, crashes>>
          /\ eventRow' = [e \in Events |-> IF e.order = o THEN "none" ELSE eventRow[e]]
      BY <1>2, <2>1 DEF PurgeOrder
    <2>4. gone \in Nat /\ gone <= passes[o].live
      BY <2>2, PassFields DEF IInv
    <2>5. /\ eventRow' \in [Events -> {"none", "recorded", "processed"}]
          /\ \A e \in Events : eventRow'[e] \in {"none", eventRow[e]}
      BY <2>3 DEF IInv, TypeOK
    <2>6. QED BY <2>2, <2>3, <2>4, <2>5, DeleteRowEffect, OrdersWritten
  <1>3. QED BY <1>1, <1>2

LEMMA RemoveOrderStep ==
    ASSUME IInv, NEW h \in Handlers, RemoveOrder(h)
    PROVE  IInv'
  <1>1. CASE Raise(h)
    BY <1>1, Raised DEF RemoveOrder, IInv, TypeOK
  <1>2. CASE ~Raise(h)
    <2>1. PICK o \in Orders : o = request[h].order
      BY RequestFields DEF IInv
    <2>2. PICK gone \in Nat : gone = request[h].passes
      BY RequestFields DEF IInv
    <2>3. /\ request[h].at = "removeOrder" /\ Exists(o) /\ DeleteRow(o, gone)
          /\ Finish(h) /\ UNCHANGED <<delivery, eventRow, captured, crashes>>
      BY <1>2, <2>1, <2>2 DEF RemoveOrder
    <2>4. gone <= passes[o].live
      BY <2>1, <2>2, <2>3 DEF IInv, ReadsStillGood, Idling, StillGood
    <2>5. eventRow' \in [Events -> {"none", "recorded", "processed"}]
      BY <2>3 DEF IInv, TypeOK
    <2>6. QED BY <2>3, <2>4, <2>5, DeleteRowEffect, OrdersWritten
  <1>3. QED BY <1>1, <1>2

LEMMA CrashStep ==
    ASSUME IInv, NEW h \in Handlers, Crash(h)
    PROVE  IInv'
  <1>1. crashes' \in 0..MaxCrashes
    BY SwitchAssumption DEF Crash, IInv, TypeOK
  <1>2. QED BY <1>1, Raised DEF Crash

-----------------------------------------------------------------------------
(* The invariant *)

LEMMA InitIInv == Init => IInv
  <1> SUFFICES ASSUME Init PROVE IInv
    OBVIOUS
  <1>1. TypeOK
    BY IdleOK DEF Init, TypeOK, Status, Passes, NoPasses
  <1>2. Batches /\ EventsHaveOrders /\ PaidHasPasses /\ ProcessedMeansConfirmed
    BY DEF Init, Batches, EventsHaveOrders, PaidHasPasses, ProcessedMeansConfirmed,
           Linked, NoPasses
  <1>3. ReadsStillGood
    BY DEF Init, ReadsStillGood, Idling, Idle
  <1>4. QED BY <1>1, <1>2, <1>3 DEF IInv

LEMMA StepIInv ==
    ASSUME IInv, NEW h \in Handlers, Step(h)
    PROVE  IInv'
  BY ReadVerifyStep, CommitVerifyStep, RecordEventStep, ReadWebhookStep, CommitWebhookStep,
     CloseEventStep, CancelOrderStep, PurgeOrderStep, RemovePassesStep, RemoveOrderStep DEF Step

LEMMA NextIInv == IInv /\ [Next]_vars => IInv'
  <1> SUFFICES ASSUME IInv, [Next]_vars PROVE IInv'
    OBVIOUS
  <1>1. ASSUME NEW o \in Orders, CreateOrder(o) \/ Pay(o)
        PROVE  IInv'
    BY <1>1, CreateOrderStep, PayStep
  <1>2. ASSUME NEW e \in Events, Decline(e) \/ SkipProcessed(e)
        PROVE  IInv'
    BY <1>2, DeclineStep
  <1>3. ASSUME NEW h \in Handlers, NEW o \in Orders,
               BeginVerify(h, o) \/ \E super, power \in BOOLEAN : BeginDelete(h, o, super, power)
        PROVE  IInv'
    BY <1>3, BeginVerifyStep, BeginDeleteStep
  <1>4. ASSUME NEW h \in Handlers, (\E e \in Events : BeginWebhook(h, e)) \/ Step(h) \/ Crash(h)
        PROVE  IInv'
    BY <1>4, BeginWebhookStep, StepIInv, CrashStep
  <1>5. CASE UNCHANGED vars
    <2>1. UNCHANGED <<order, passes, captured, delivery, eventRow, request, crashes>>
      BY <1>5 DEF vars
    <2>2. QED
      BY <2>1 DEF IInv, TypeOK, Batches, EventsHaveOrders, ReadsStillGood, StillGood,
            Idling, Exists, Linked, PaidHasPasses, ProcessedMeansConfirmed
  <1>6. QED BY <1>1, <1>2, <1>3, <1>4, <1>5 DEF Next

(* The inductive invariant holds in every reachable state. *)
THEOREM Invariant == Spec => []IInv
  BY InitIInv, NextIInv, PTL DEF Spec

(* Rows, receipts and handlers keep their shape; in particular no deletion *)
(* ever takes more passes than the order has.                              *)
THEOREM PaymentTypes == Spec => []TypeOK
  <1>1. IInv => TypeOK
    BY DEF IInv
  <1>2. QED BY <1>1, Invariant, PTL

(* A PAID order has all its passes, although verifyPayment and the webhook *)
(* commit on reads that other requests have overtaken.                     *)
THEOREM PaidOrdersHavePasses == Spec => []PaidHasPasses
  <1>1. IInv => PaidHasPasses
    BY DEF IInv
  <1>2. QED BY <1>1, Invariant, PTL

(* A capture receipt is marked processed only when its order is no longer  *)
(* pending: answering already_processed loses no payment.                  *)
THEOREM ProcessedReceiptsConfirmed == Spec => []ProcessedMeansConfirmed
  <1>1. IInv => ProcessedMeansConfirmed
    BY DEF IInv
  <1>2. QED BY <1>1, Invariant, PTL
-----------------------------------------------------------------------------
(* Passes are issued at most once by each request.  What is inductive: the *)
(* passes of an order are covered by the requests that do not issue any    *)
(* more, because a request that will issue read the order without passes.  *)

Issuing(r) == r.at \in {"verifyRead", "webhookRead"} /\ r.passes = 0
Spent(o) == {h \in Handlers : ~(Issuing(request[h]) /\ request[h].order = o)}

Covered(o) ==
  /\ order[o] = "none" => Linked(o) = 0 /\ passes[o].orphan = 0
  /\ Exists(o) => passes[o].orphan = 0 /\ Linked(o) <= Quantity * Cardinality(Spent(o))
  /\ order[o] = "deleted" => Linked(o) = 0 /\ passes[o].orphan <= Quantity * Cardinality(Handlers)

AllCovered == \A o \in Orders : Covered(o)

LEMMA TimesMonotone ==
    ASSUME NEW m \in Nat, NEW n \in Nat, m <= n
    PROVE  Quantity * m \in Nat /\ Quantity * n \in Nat /\ Quantity * m <= Quantity * n
  <1>1. PICK k \in Nat : n = m + k
    <2>1. n - m \in Nat /\ n = m + (n - m)
      OBVIOUS
    <2>2. QED BY <2>1
  <1>2. Quantity * n = Quantity * m + Quantity * k
    BY <1>1, QuantityAssumption
  <1>3. Quantity * m \in Nat /\ Quantity * k \in Nat
    BY <1>1, QuantityAssumption
  <1>4. QED BY <1>2, <1>3

LEMMA SpentFinite ==
    ASSUME NEW o
    PROVE  /\ IsFiniteSet(Spent(o)) /\ Cardinality(Spent(o)) \in Nat
           /\ Cardinality(Spent(o)) <= Cardinality(Handlers)
           /\ IsFiniteSet(Spent(o)') /\ Cardinality(Spent(o)') \in Nat
           /\ Cardinality(Handlers) \in Nat
  <1>1. Spent(o) \in SUBSET Handlers /\ Spent(o)' \in SUBSET Handlers
    BY DEF Spent
  <1>2. IsFiniteSet(Spent(o)) /\ Cardinality(Spent(o)) <= Cardinality(Handlers)
    BY <1>1, FS_Subset, FiniteAssumption
  <1>3. IsFiniteSet(Spent(o)')
    BY <1>1, FS_Subset, FiniteAssumption
  <1>4. QED BY <1>2, <1>3, FS_CardinalityType, FiniteAssumption

(* An order keeps its passes, and no request begins to issue any. *)
LEMMA KeepsCovered ==
    ASSUME IInv, NEW o \in Orders, Covered(o), Spent(o) \subseteq Spent(o)',
           Linked(o)' = Linked(o), passes'[o].orphan = passes[o].orphan,
           order'[o] = order[o] \/ (order[o] # "deleted" /\ Exists(o)')
    PROVE  Covered(o)'
  <1>1. /\ Cardinality(Spent(o)) \in Nat /\ Cardinality(Spent(o)') \in Nat
        /\ Cardinality(Spent(o)) <= Cardinality(Spent(o)')
    BY SpentFinite, FS_Subset
  <1>2. PICK x \in Nat, y \in Nat : /\ x = Quantity * Cardinality(Spent(o))
                                    /\ y = Quantity * Cardinality(Spent(o)') /\ x <= y
    BY <1>1, TimesMonotone
  <1>3. Linked(o) \in Nat
    BY PassFields DEF IInv
  <1>4. CASE order'[o] = order[o]
    BY <1>2, <1>3, <1>4 DEF Covered, Exists
  <1>5. CASE order[o] # "deleted" /\ Exists(o)'
    BY <1>2, <1>3, <1>5 DEF Covered, Exists
  <1>6. QED BY <1>4, <1>5

(* Only a request's memory changes; one that will issue found no passes. *)
LEMMA MemoryCovered ==
    ASSUME IInv, AllCovered, NEW h \in Handlers, NEW r, Go(h, r), UNCHANGED <<order, passes>>,
           Issuing(r) => Linked(r.order) = 0
    PROVE  AllCovered'
  <1> SUFFICES ASSUME NEW o \in Orders PROVE Covered(o)'
    BY DEF AllCovered
  <1>1. Covered(o) /\ Linked(o)' = Linked(o)
    BY DEF AllCovered, Linked
  <1>2. CASE Issuing(r) /\ r.order = o
    <2>1. Linked(o)' = 0
      BY <1>1, <1>2
    <2>2. PICK y \in Nat : y = Quantity * Cardinality(Spent(o)')
      BY SpentFinite, QuantityAssumption
    <2>3. QED BY <1>1, <2>1, <2>2 DEF Covered, Exists
  <1>3. CASE ~(Issuing(r) /\ r.order = o)
    <2>1. Spent(o) \subseteq Spent(o)'
      BY <1>3 DEF Spent, Go, IInv, TypeOK
    <2>2. QED BY <1>1, <2>1, KeepsCovered
  <1>4. QED BY <1>2, <1>3

LEMMA IdleSpent == ~Issuing(Idle)
  BY DEF Issuing, Idle

LEMMA FinishCovered ==
    ASSUME IInv, AllCovered, NEW h \in Handlers, Finish(h), UNCHANGED <<order, passes>>
    PROVE  AllCovered'
  BY IdleSpent, MemoryCovered DEF Finish

LEMMA FinishSpends ==
    ASSUME IInv, NEW h \in Handlers, Finish(h), NEW o
    PROVE  Spent(o) \cup {h} \subseteq Spent(o)'
  BY IdleSpent DEF Spent, Finish, Go, IInv, TypeOK

(* A reading made now. *)
LEMMA ReadingCovered ==
    ASSUME IInv, AllCovered, NEW h \in Handlers, NEW p, NEW o \in Orders, NEW k,
           Go(h, Reading(p, o, k)), UNCHANGED <<order, passes>>
    PROVE  AllCovered'
  <1>1. PICK r : r = Reading(p, o, k)
    OBVIOUS
  <1>2. r.order = o /\ r.passes = Linked(o)
    BY <1>1 DEF Reading
  <1>3. QED BY <1>1, <1>2, MemoryCovered DEF Issuing

(* The batch of a request that read none is covered by the request.        *)
LEMMA ConfirmCovered ==
    ASSUME IInv, AllCovered, NEW h \in Handlers, NEW n, Confirm(request[h], n), Finish(h),
           request[h].at \in {"verifyRead", "webhookRead"}, Exists(request[h].order),
           n = IF request[h].passes = 0 THEN Quantity ELSE 0
    PROVE  AllCovered'
  <1> SUFFICES ASSUME NEW p \in Orders PROVE Covered(p)'
    BY DEF AllCovered
  <1>1. PICK o \in Orders : o = request[h].order
    BY RequestFields DEF IInv
  <1>2. /\ order'[p] = order[p] \/ (p = o /\ order'[p] = "PAID")
        /\ Exists(o)
    BY <1>1 DEF Confirm, IInv, TypeOK
  <1>3. /\ passes[p].live \in Nat /\ passes[p].revoked \in Nat /\ passes[p].orphan \in Nat
        /\ Linked(p) \in Nat /\ n \in Nat
    BY PassFields, QuantityAssumption DEF IInv
  <1>4. /\ passes'[p].live = passes[p].live + (IF p = o THEN n ELSE 0)
        /\ passes'[p].revoked = passes[p].revoked /\ passes'[p].orphan = passes[p].orphan
    BY <1>1, <1>3 DEF Confirm, IInv, TypeOK, Passes
  <1>5. Linked(p)' = Linked(p) + (IF p = o THEN n ELSE 0)
    BY <1>3, <1>4 DEF Linked
  <1>6. Spent(p) \cup {h} \subseteq Spent(p)'
    BY FinishSpends
  <1>7. Covered(p)
    BY DEF AllCovered
  <1>8. CASE p # o \/ n = 0
    <2>1. Linked(p)' = Linked(p)
      BY <1>3, <1>5, <1>8
    <2>2. order'[p] = order[p] \/ (order[p] # "deleted" /\ Exists(p)')
      BY <1>2 DEF Exists
    <2>3. QED BY <1>4, <1>6, <1>7, <2>1, <2>2, KeepsCovered
  <1>9. CASE p = o /\ n # 0
    <2>1. n = Quantity /\ h \notin Spent(o)
      BY <1>1, <1>9 DEF Spent, Issuing
    <2>2. PICK S \in SUBSET Handlers, T \in SUBSET Handlers : S = Spent(o) /\ T = Spent(o)'
      BY DEF Spent
    <2>3. /\ IsFiniteSet(S \cup {h}) /\ Cardinality(S) \in Nat
          /\ Cardinality(S \cup {h}) = Cardinality(S) + 1
      BY <2>1, <2>2, SpentFinite, FS_AddElement
    <2>4. Cardinality(T) \in Nat /\ Cardinality(S) + 1 <= Cardinality(T)
      <3>1. S \cup {h} \in SUBSET T /\ IsFiniteSet(T)
        BY <1>6, <1>9, <2>2, SpentFinite
      <3>2. Cardinality(S \cup {h}) <= Cardinality(T)
        BY <3>1, FS_Subset
      <3>3. QED BY <2>2, <2>3, <3>2, SpentFinite
    <2>5. PICK x \in Nat, y \in Nat : x = Quantity * Cardinality(S) /\ y = Quantity * (Cardinality(S) + 1)
      BY <2>3, QuantityAssumption
    <2>6. y = x + Quantity
      BY <2>3, <2>5, QuantityAssumption
    <2>7. PICK z \in Nat : z = Quantity * Cardinality(T) /\ y <= z
      BY <2>3, <2>4, <2>5, TimesMonotone
    <2>8. Linked(o) <= x /\ passes[o].orphan = 0
      BY <1>2, <1>7, <1>9, <2>2, <2>5 DEF Covered
    <2>9. Linked(o)' <= z /\ passes'[o].orphan = 0
      BY <1>3, <1>4, <1>5, <1>9, <2>1, <2>6, <2>7, <2>8, QuantityAssumption
    <2>10. Exists(o)'
      BY <1>2, <1>9 DEF Exists
    <2>11. QED BY <1>9, <2>2, <2>7, <2>9, <2>10 DEF Covered, Exists
  <1>10. QED BY <1>8, <1>9

(* What a deletion leaves of the passes was covered before.                *)
LEMMA DeleteCovered ==
    ASSUME IInv, AllCovered, NEW h \in Handlers, Finish(h), NEW o \in Orders, Exists(o),
           NEW gone \in Nat, gone <= passes[o].live, DeleteRow(o, gone)
    PROVE  AllCovered'
  <1> SUFFICES ASSUME NEW p \in Orders PROVE Covered(p)'
    BY DEF AllCovered
  <1>1. Covered(p)
    BY DEF AllCovered
  <1>2. CASE p # o
    <2>1. order'[p] = order[p] /\ passes'[p] = passes[p]
      BY <1>2 DEF DeleteRow, IInv, TypeOK
    <2>2. Spent(p) \subseteq Spent(p)'
      BY FinishSpends
    <2>3. QED BY <1>1, <2>1, <2>2, KeepsCovered DEF Linked
  <1>3. CASE p = o
    <2>1. /\ passes[o].live \in Nat /\ passes[o].revoked \in Nat /\ passes[o].orphan = 0
          /\ Linked(o) = passes[o].live + passes[o].revoked
      BY <1>1, <1>3, PassFields DEF Covered, IInv, Linked
    <2>2. /\ order'[o] = "deleted" /\ passes'[o].live = 0 /\ passes'[o].revoked = 0
          /\ passes'[o].orphan = passes[o].orphan + passes[o].live - gone
      BY DEF DeleteRow, IInv, TypeOK
    <2>3. PICK x \in Nat, y \in Nat : /\ x = Quantity * Cardinality(Spent(o))
                                      /\ y = Quantity * Cardinality(Handlers) /\ x <= y
      BY SpentFinite, TimesMonotone
    <2>4. Linked(o) <= x
      BY <1>1, <1>3, <2>3 DEF Covered
    <2>5. passes'[o].orphan <= y
      BY <2>1, <2>2, <2>3, <2>4
    <2>6. Linked(o)' = 0
      BY <2>2 DEF Linked
    <2>7. QED BY <1>3, <2>2, <2>3, <2>5, <2>6 DEF Covered, Exists
  <1>4. QED BY <1>2, <1>3

(* The requests: one that raises or answers, one that reads on. *)
LEMMA HandlerCovered ==
    ASSUME IInv, AllCovered, NEW h \in Handlers,
           \/ ReadVerify(h) \/ RecordEvent(h) \/ ReadWebhook(h) \/ CloseEvent(h)
           \/ RemovePasses(h) \/ Crash(h)
    PROVE  AllCovered'
  <1>0. request[h] \in Request /\ request[h].order \in Orders
    BY RequestFields DEF IInv, TypeOK
  <1>1. CASE ReadVerify(h)
    BY <1>0, <1>1, FinishCovered, ReadingCovered DEF ReadVerify
  <1>2. CASE ReadWebhook(h)
    BY <1>0, <1>2, ReadingCovered DEF ReadWebhook
  <1>3. CASE RecordEvent(h)
    <2>1. PICK r : r = [request[h] EXCEPT !.at = "webhookRecorded"]
      OBVIOUS
    <2>2. r.at = "webhookRecorded"
      BY <1>0, <2>1 DEF Request
    <2>3. Finish(h) \/ Go(h, r)
      BY <1>3, <2>1 DEF RecordEvent, Raise
    <2>4. UNCHANGED <<order, passes>>
      BY <1>3 DEF RecordEvent, Raise
    <2>5. QED BY <2>2, <2>3, <2>4, FinishCovered, MemoryCovered DEF Issuing
  <1>4. CASE CloseEvent(h) \/ Crash(h)
    <2>1. Finish(h) /\ UNCHANGED <<order, passes>>
      BY <1>4 DEF CloseEvent, Crash, Raise, Processed
    <2>2. QED BY <2>1, FinishCovered
  <1>5. CASE RemovePasses(h)
    <2>1. PICK r : r = [request[h] EXCEPT !.at = "removeOrder", !.passes = passes[request[h].order].live]
      OBVIOUS
    <2>2. r.at = "removeOrder"
      BY <1>0, <2>1 DEF Request
    <2>3. Go(h, r) /\ UNCHANGED <<order, passes>>
      BY <1>5, <2>1 DEF RemovePasses
    <2>4. QED BY <2>2, <2>3, MemoryCovered DEF Issuing
  <1>6. QED BY <1>1, <1>2, <1>3, <1>4, <1>5

LEMMA CommitCovered ==
    ASSUME IInv, AllCovered, NEW h \in Handlers, CommitVerify(h) \/ CommitWebhook(h)
    PROVE  AllCovered'
  <1>1. request[h].passes \in Nat /\ (request[h].passes = 0 \/ request[h].passes >= Quantity)
    BY RequestFields DEF CommitVerify, CommitWebhook, IInv, ReadsStillGood, Idling, StillGood
  <1>2. /\ Missing(request[h]) = IF request[h].passes = 0 THEN Quantity ELSE 0
        /\ WebhookIssues(request[h]) = IF request[h].passes = 0 THEN Quantity ELSE 0
    BY <1>1, QuantityAssumption DEF Missing, WebhookIssues
  <1>3. Finish(h)
    BY DEF CommitVerify, CommitWebhook, Raise, Processed
  <1>4. CASE UNCHANGED <<order, passes>>
    BY <1>3, <1>4, FinishCovered
  <1>5. CASE ~UNCHANGED <<order, passes>>
    <2>1. PICK n : /\ Confirm(request[h], n) /\ Exists(request[h].order)
                   /\ n = IF request[h].passes = 0 THEN Quantity ELSE 0
      BY <1>2, <1>5 DEF CommitVerify, CommitWebhook, Raise
    <2>2. request[h].at \in {"verifyRead", "webhookRead"}
      BY DEF CommitVerify, CommitWebhook
    <2>3. QED BY <1>3, <2>1, <2>2, ConfirmCovered
  <1>6. QED BY <1>4, <1>5

LEMMA CancelCovered ==
    ASSUME IInv, AllCovered, NEW h \in Handlers, CancelOrder(h)
    PROVE  AllCovered'
  <1>1. Finish(h)
    BY DEF CancelOrder, Raise
  <1>2. CASE UNCHANGED <<order, passes>>
    BY <1>1, <1>2, FinishCovered
  <1>3. CASE ~UNCHANGED <<order, passes>>
    <2> SUFFICES ASSUME NEW p \in Orders PROVE Covered(p)'
      BY DEF AllCovered
    <2>1. PICK o \in Orders : o = request[h].order
      BY RequestFields DEF IInv
    <2>2. /\ Exists(o) /\ order' = [order EXCEPT ![o] = "CANCELLED"]
          /\ passes' = [passes EXCEPT ![o] = [live |-> 0, revoked |-> Linked(o), orphan |-> @.orphan]]
      BY <1>3, <2>1 DEF CancelOrder, Raise
    <2>3. /\ order'[p] = order[p] \/ (order[p] # "deleted" /\ Exists(p)')
          /\ passes'[p].orphan = passes[p].orphan
      BY <2>2 DEF IInv, TypeOK, Exists
    <2>4. Linked(p)' = Linked(p)
      BY <2>2, PassFields DEF Linked, IInv, TypeOK
    <2>5. Spent(p) \subseteq Spent(p)' /\ Covered(p)
      BY <1>1, FinishSpends DEF AllCovered
    <2>6. QED BY <2>3, <2>4, <2>5, KeepsCovered
  <1>4. QED BY <1>2, <1>3

LEMMA DeletionCovered ==
    ASSUME IInv, AllCovered, NEW h \in Handlers, PurgeOrder(h) \/ RemoveOrder(h)
    PROVE  AllCovered'
  <1>1. Finish(h)
    BY DEF PurgeOrder, RemoveOrder, Raise
  <1>2. CASE UNCHANGED <<order, passes>>
    BY <1>1, <1>2, FinishCovered
  <1>3. CASE ~UNCHANGED <<order, passes>>
    <2>1. PICK o \in Orders : o = request[h].order
      BY RequestFields DEF IInv
    <2>2. Exists(o)
      BY <1>3, <2>1 DEF PurgeOrder, RemoveOrder, Raise
    <2>3. PICK gone \in Nat : DeleteRow(o, gone) /\ gone <= passes[o].live
      <3>1. CASE PurgeOrder(h)
        <4>1. PICK gone \in {0, passes[o].live} : DeleteRow(o, gone)
          BY <1>3, <2>1, <3>1 DEF PurgeOrder, Raise
        <4>2. QED BY <4>1, PassFields DEF IInv
      <3>2. CASE RemoveOrder(h)
        <4>1. DeleteRow(o, request[h].passes) /\ request[h].passes \in Nat
          BY <1>3, <2>1, <3>2, RequestFields DEF RemoveOrder, Raise, IInv
        <4>2. request[h].passes <= passes[o].live
          BY <2>1, <2>2, <3>2 DEF RemoveOrder, IInv, ReadsStillGood, Idling, StillGood
        <4>3. QED BY <4>1, <4>2
      <3>3. QED BY <3>1, <3>2
    <2>4. QED BY <1>1, <2>2, <2>3, DeleteCovered
  <1>4. QED BY <1>2, <1>3

LEMMA BeginCovered ==
    ASSUME IInv, AllCovered, NEW h \in Handlers,
           \/ \E o \in Orders : \/ BeginVerify(h, o)
                                \/ \E super, power \in BOOLEAN : BeginDelete(h, o, super, power)
           \/ \E e \in Events : BeginWebhook(h, e)
    PROVE  AllCovered'
  <1>1. ASSUME NEW o \in Orders, BeginVerify(h, o) PROVE AllCovered'
    <2>1. PICK r : r = [Idle EXCEPT !.at = "verify", !.order = o]
      OBVIOUS
    <2>2. r.at = "verify"
      BY <2>1 DEF Idle
    <2>3. Go(h, r) /\ UNCHANGED <<order, passes>>
      BY <1>1, <2>1 DEF BeginVerify
    <2>4. QED BY <2>2, <2>3, MemoryCovered DEF Issuing
  <1>2. ASSUME NEW o \in Orders, NEW super \in BOOLEAN, NEW power \in BOOLEAN,
               BeginDelete(h, o, super, power)
        PROVE  AllCovered'
    BY <1>2, ReadingCovered DEF BeginDelete
  <1>3. ASSUME NEW e \in Events, BeginWebhook(h, e) PROVE AllCovered'
    BY <1>3, ReadingCovered, EventFields DEF BeginWebhook
  <1>4. QED BY <1>1, <1>2, <1>3

LEMMA OutsideCovered ==
    ASSUME IInv, AllCovered, UNCHANGED <<passes, request>>,
           order' = order \/ \E o \in Orders : CreateOrder(o)
    PROVE  AllCovered'
  <1> SUFFICES ASSUME NEW p \in Orders PROVE Covered(p)'
    BY DEF AllCovered
  <1>1. order'[p] = order[p] \/ (order[p] # "deleted" /\ Exists(p)')
    BY DEF CreateOrder, Exists, IInv, TypeOK
  <1>2. Spent(p) \subseteq Spent(p)' /\ Linked(p)' = Linked(p) /\ Covered(p)
    BY DEF Spent, Linked, AllCovered
  <1>3. QED BY <1>1, <1>2, KeepsCovered

LEMMA InitCovered == Init => AllCovered
  <1>1. ASSUME Init, NEW o \in Orders PROVE Covered(o)
    BY <1>1 DEF Init, Covered, Exists, Linked, NoPasses
  <1>2. QED BY <1>1 DEF AllCovered

LEMMA NextCovered == IInv /\ AllCovered /\ [Next]_vars => AllCovered'
  <1> SUFFICES ASSUME IInv, AllCovered, [Next]_vars PROVE AllCovered'
    OBVIOUS
  <1>1. CASE \/ UNCHANGED vars
             \/ \E o \in Orders : CreateOrder(o) \/ Pay(o)
             \/ \E e \in Events : Decline(e) \/ SkipProcessed(e)
    <2>1. /\ UNCHANGED <<passes, request>>
          /\ order' = order \/ \E o \in Orders : CreateOrder(o)
      BY <1>1 DEF vars, CreateOrder, Pay, Decline, SkipProcessed
    <2>2. QED BY <2>1, OutsideCovered
  <1>2. ASSUME NEW h \in Handlers,
               \/ \E o \in Orders : \/ BeginVerify(h, o)
                                    \/ \E super, power \in BOOLEAN : BeginDelete(h, o, super, power)
               \/ \E e \in Events : BeginWebhook(h, e)
        PROVE  AllCovered'
    BY <1>2, BeginCovered
  <1>3. ASSUME NEW h \in Handlers, Step(h) \/ Crash(h) PROVE AllCovered'
    BY <1>3, HandlerCovered, CommitCovered, CancelCovered, DeletionCovered DEF Step
  <1>4. QED BY <1>1, <1>2, <1>3 DEF Next

(* An order's passes, orphans included, are no more than one batch for     *)
(* each request in flight, whatever is retried, redelivered or restarted.  *)
THEOREM AtMostOneBatchPerRequest == Spec => []OneBatchPerOverlap
  <1>1. Init => IInv /\ AllCovered
    BY InitIInv, InitCovered
  <1>2. (IInv /\ AllCovered) /\ [Next]_vars => (IInv /\ AllCovered)'
    BY NextIInv, NextCovered
  <1>3. IInv /\ AllCovered => OneBatchPerOverlap
    <2> SUFFICES ASSUME IInv, AllCovered, NEW o \in Orders
                 PROVE  Linked(o) + passes[o].orphan <= Quantity * Cardinality(Handlers)
      BY DEF OneBatchPerOverlap
    <2>1. PICK x \in Nat, y \in Nat : /\ x = Quantity * Cardinality(Spent(o))
                                      /\ y = Quantity * Cardinality(Handlers) /\ x <= y
      BY SpentFinite, TimesMonotone
    <2>2. Linked(o) \in Nat /\ passes[o].orphan \in Nat /\ Covered(o)
      BY PassFields DEF IInv, AllCovered
    <2>3. QED BY <2>1, <2>2 DEF Covered, Exists
  <1>4. QED BY <1>1, <1>2, <1>3, PTL DEF Spec

(* One request at a time never issues an order's passes twice, however     *)
(* often it is retried, redelivered or cut off: the double issue that two  *)
(* confirmations can cause takes their overlapping, and nothing less.      *)
THEOREM SequentialIssuesOnce ==
    ASSUME Cardinality(Handlers) = 1
    PROVE  Spec => []IssuedOnce
  <1>1. OneBatchPerOverlap => IssuedOnce
    BY QuantityAssumption DEF OneBatchPerOverlap, IssuedOnce
  <1>2. QED BY <1>1, AtMostOneBatchPerRequest, PTL

-----------------------------------------------------------------------------
(* Every step lets every order only make progress. *)

Onward == \A o \in Orders : Progress(o)

LEMMA Untouched ==
    ASSUME TypeOK, UNCHANGED <<order, passes>>
    PROVE  Onward
  BY PassFields DEF Onward, Progress, Linked

LEMMA StepOnward ==
    ASSUME IInv, NEW h \in Handlers, Step(h)
    PROVE  Onward
  <1>1. CASE UNCHANGED <<order, passes>>
    BY <1>1, Untouched DEF IInv
  <1>2. CASE ~UNCHANGED <<order, passes>>
    <2>1. PICK o \in Orders : o = request[h].order
      BY RequestFields DEF IInv
    <2>2. CASE CommitVerify(h) \/ CommitWebhook(h)
      <3>1. PICK n \in {Missing(request[h]), WebhookIssues(request[h])} :
              /\ request[h].at \in {"verifyRead", "webhookRead"}
              /\ Confirm(request[h], n) /\ Exists(request[h].order)
        BY <1>2, <2>2 DEF CommitVerify, CommitWebhook, Raise
      <3>2. request[h].passes \in Nat /\ (request[h].passes = 0 \/ request[h].passes >= Quantity)
        BY <3>1, RequestFields DEF IInv, ReadsStillGood, Idling, StillGood
      <3>3. n \in {0, Quantity} /\ (n = 0 => request[h].passes # 0)
        BY <3>1, <3>2, QuantityAssumption DEF Missing, WebhookIssues
      <3>4. QED BY <3>1, <3>3, ConfirmEffect DEF Onward
    <2>3. CASE CancelOrder(h)
      <3>1. /\ Exists(o) /\ order' = [order EXCEPT ![o] = "CANCELLED"]
            /\ passes' = [passes EXCEPT ![o] = [live |-> 0, revoked |-> Linked(o),
                                                orphan |-> @.orphan]]
        BY <1>2, <2>1, <2>3 DEF CancelOrder, Raise
      <3>2. \A p \in Orders : Linked(p) \in Nat /\ Linked(p)' = Linked(p)
        BY <3>1, PassFields DEF Linked, IInv, TypeOK, Passes
      <3>3. QED BY <3>1, <3>2 DEF Onward, Progress, Exists, IInv, TypeOK
    <2>4. CASE PurgeOrder(h) \/ RemoveOrder(h)
      <3>1. PICK gone \in {0, passes[o].live, request[h].passes} :
              /\ Exists(o) /\ DeleteRow(o, gone)
              /\ gone = request[h].passes => gone = 0 \/ request[h].at = "removeOrder"
                                                       \/ gone = passes[o].live
        BY <1>2, <2>1, <2>4 DEF PurgeOrder, RemoveOrder, Raise
      <3>2. gone \in Nat /\ gone <= passes[o].live
        BY <2>1, <3>1, RequestFields, PassFields DEF IInv, ReadsStillGood, Idling, StillGood
      <3>3. QED BY <3>1, <3>2, DeleteRowEffect DEF Onward
    <2>5. QED
      BY <1>2, <2>2, <2>3, <2>4 DEF Step, ReadVerify, RecordEvent, ReadWebhook, CloseEvent,
                                    RemovePasses, Raise
  <1>3. QED BY <1>1, <1>2

LEMMA NextOnward == IInv /\ [Next]_vars => Onward
  <1> SUFFICES ASSUME IInv, [Next]_vars PROVE Onward
    OBVIOUS
  <1>1. CASE UNCHANGED <<order, passes>>
    BY <1>1, Untouched DEF IInv
  <1>2. ASSUME NEW o \in Orders, CreateOrder(o) PROVE Onward
    BY <1>2, PassFields DEF CreateOrder, Onward, Progress, Linked, IInv, TypeOK
  <1>3. ASSUME NEW h \in Handlers, Step(h) PROVE Onward
    BY <1>3, StepOnward
  <1>4. QED
    BY <1>1, <1>2, <1>3 DEF Next, vars, Pay, Decline, SkipProcessed, BeginVerify, BeginDelete,
                            BeginWebhook, Crash, Raise

(* An order never becomes pending again, never comes back from deletion,   *)
(* and never loses a pass before it is deleted: this is why a handler may  *)
(* commit what it decided from an earlier read.                            *)
THEOREM OrdersOnlyProgress == Spec => [][\A o \in Orders : Progress(o)]_vars
  <1>1. IInv /\ [Next]_vars => \A o \in Orders : Progress(o)
    BY NextOnward DEF Onward
  <1>2. QED BY <1>1, Invariant, PTL DEF Spec

-----------------------------------------------------------------------------
(* The payments implement PublicOrder.  A handler that confirms carries no *)
(* proof of the payment with it, only the way it came: what is inductive   *)
(* is that every request on a confirming path, and every capture event the *)
(* gateway has sent, has money behind it.                                  *)

Confirming(r) == \/ r.at \in {"verify", "verifyRead", "webhookRead"}
                 \/ r.at \in {"webhookNew", "webhookRecorded"} /\ r.kind \in CaptureKinds

Backed(r) == Confirming(r) => captured[r.order]

EventsBacked == \A e \in Events : e.kind \in CaptureKinds /\ delivery[e] # "unsent"
                                    => captured[e.order]

MoneyInv == (\A h \in Handlers : Backed(request[h])) /\ EventsBacked

PublicStep == UNCHANGED <<order, captured>> \/ Public!Next

LEMMA IdleBacked == Backed(Idle)
  BY DEF Backed, Confirming, Idle

(* One handler moves; the money stays. *)
LEMMA BackedStep ==
    ASSUME IInv, MoneyInv, NEW h \in Handlers, NEW r, Go(h, r), Backed(r),
           UNCHANGED captured, EventsBacked'
    PROVE  MoneyInv'
  <1>1. ASSUME NEW g \in Handlers PROVE Backed(request[g])'
    <2>1. request'[g] = IF g = h THEN r ELSE request[g]
      BY DEF Go, IInv, TypeOK
    <2>2. Backed(request'[g])
      BY <2>1 DEF MoneyInv
    <2>3. QED BY <2>2 DEF Backed, Confirming
  <1>2. QED BY <1>1 DEF MoneyInv

LEMMA FinishBacked ==
    ASSUME IInv, MoneyInv, NEW h \in Handlers, Finish(h), UNCHANGED captured, EventsBacked'
    PROVE  MoneyInv'
  BY IdleBacked, BackedStep DEF Finish

LEMMA SameEvents ==
    ASSUME MoneyInv, UNCHANGED <<captured, delivery>>
    PROVE  EventsBacked'
  BY DEF MoneyInv, EventsBacked

LEMMA RaiseBacked ==
    ASSUME IInv, MoneyInv, NEW h \in Handlers, Raise(h), UNCHANGED captured
    PROVE  MoneyInv' /\ PublicStep
  BY SameEvents, FinishBacked DEF Raise, PublicStep

(* No handler moves. *)
LEMMA GatewayBacked ==
    ASSUME IInv, MoneyInv, NEW o \in Orders, NEW e \in Events,
           CreateOrder(o) \/ Pay(o) \/ Decline(e) \/ SkipProcessed(e)
    PROVE  MoneyInv' /\ PublicStep
  <1>a. /\ order \in [Orders -> Status] /\ captured \in [Orders -> BOOLEAN]
        /\ delivery \in [Events -> {"unsent", "sent", "acked"}]
        /\ UNCHANGED request /\ e.order \in Orders
    BY EventFields DEF IInv, TypeOK, CreateOrder, Pay, Decline, SkipProcessed
  <1>1. CASE CreateOrder(o)
    <2>1. Public!Place(o)
      BY <1>1 DEF CreateOrder, Public!Place, Public!Move
    <2>2. MoneyInv'
      BY <1>a, <1>1 DEF CreateOrder, MoneyInv, Backed, Confirming, EventsBacked
    <2>3. QED BY <2>1, <2>2 DEF PublicStep, Public!Next
  <1>2. CASE Pay(o)
    <2>1. Public!Capture(o)
      BY <1>2 DEF Pay, Public!Capture
    <2>2. \A p \in Orders : captured'[p] = (captured[p] \/ p = o)
      BY <1>a, <1>2 DEF Pay
    <2>3. \A h \in Handlers : Backed(request[h])'
      BY <1>a, <2>2, RequestFields DEF MoneyInv, Backed, Confirming, IInv
    <2>4. EventsBacked'
      BY <1>2, <2>2, EventFields DEF Pay, MoneyInv, EventsBacked
    <2>5. QED BY <2>1, <2>3, <2>4 DEF PublicStep, Public!Next, MoneyInv
  <1>3. CASE Decline(e) \/ SkipProcessed(e)
    <2>1. UNCHANGED <<order, captured>>
      BY <1>3 DEF Decline, SkipProcessed
    <2>2. \A f \in Events : f.kind \in CaptureKinds /\ delivery'[f] # "unsent"
                              => delivery[f] # "unsent"
      BY <1>a, <1>3 DEF Decline, SkipProcessed, CaptureKinds
    <2>3. MoneyInv'
      BY <1>a, <2>1, <2>2 DEF MoneyInv, Backed, Confirming, EventsBacked
    <2>4. QED BY <2>1, <2>3 DEF PublicStep
  <1>4. QED BY <1>1, <1>2, <1>3

(* The steps that only read. *)
LEMMA ReadBacked ==
    ASSUME IInv, MoneyInv, NEW h \in Handlers, NEW o \in Orders, NEW e \in Events,
           \/ BeginVerify(h, o) \/ \E super, power \in BOOLEAN : BeginDelete(h, o, super, power)
           \/ BeginWebhook(h, e) \/ ReadVerify(h) \/ RecordEvent(h) \/ ReadWebhook(h)
           \/ RemovePasses(h)
    PROVE  MoneyInv' /\ PublicStep
  <1> DEFINE s == request[h]
  <1>a. /\ s \in Request /\ Backed(s)
    BY DEF IInv, TypeOK, MoneyInv
  <1>1. UNCHANGED <<order, captured, delivery>>
    BY DEF BeginVerify, BeginDelete, BeginWebhook, ReadVerify, RecordEvent, ReadWebhook,
           RemovePasses, Raise
  <1>2. PublicStep
    BY <1>1 DEF PublicStep
  <1>3. ASSUME NEW r, Go(h, r), Backed(r) PROVE MoneyInv'
    BY <1>1, <1>3, SameEvents, BackedStep
  <1>4. ASSUME Finish(h) PROVE MoneyInv'
    BY <1>1, <1>4, SameEvents, FinishBacked
  <1>5. CASE BeginVerify(h, o)
    <2>1. PICK r : r = [Idle EXCEPT !.at = "verify", !.order = o] /\ Go(h, r)
      BY <1>5 DEF BeginVerify
    <2>2. r.order = o /\ captured[o]
      BY <1>5, <2>1 DEF BeginVerify, Idle
    <2>3. QED BY <1>2, <1>3, <2>1, <2>2 DEF Backed
  <1>6. CASE \E super, power \in BOOLEAN : BeginDelete(h, o, super, power)
    <2>1. PICK p \in {"purge", "cancel", "remove"} : Go(h, Reading(p, o, Idle.kind))
      BY <1>6 DEF BeginDelete
    <2>2. Backed(Reading(p, o, Idle.kind))
      BY DEF Backed, Confirming, Reading
    <2>3. QED BY <1>2, <1>3, <2>1, <2>2
  <1>7. CASE BeginWebhook(h, e)
    <2>1. PICK p \in {"webhookNew", "webhookRecorded"} : Go(h, Reading(p, e.order, e.kind))
      BY <1>7 DEF BeginWebhook
    <2>2. Backed(Reading(p, e.order, e.kind))
      BY <1>7 DEF Backed, Confirming, Reading, BeginWebhook, MoneyInv, EventsBacked
    <2>3. QED BY <1>2, <1>3, <2>1, <2>2
  <1>8. CASE ReadVerify(h) \/ ReadWebhook(h)
    <2>1. captured[s.order]
      BY <1>a, <1>8 DEF ReadVerify, ReadWebhook, Backed, Confirming
    <2>2. \A p : Backed(Reading(p, s.order, s.kind))
      BY <2>1 DEF Backed, Reading
    <2>3. QED BY <1>2, <1>3, <1>4, <1>8, <2>2 DEF ReadVerify, ReadWebhook
  <1>9. CASE RecordEvent(h)
    <2>1. CASE Finish(h)
      BY <1>2, <1>4, <2>1
    <2>2. CASE Go(h, [s EXCEPT !.at = "webhookRecorded"])
      <3>1. PICK r : r = [s EXCEPT !.at = "webhookRecorded"] /\ Go(h, r)
        BY <2>2
      <3>2. Backed(r)
        BY <1>a, <1>9, <3>1 DEF RecordEvent, Backed, Confirming, Request
      <3>3. QED BY <1>2, <1>3, <3>1, <3>2
    <2>3. QED BY <1>9, <2>1, <2>2 DEF RecordEvent, Raise
  <1>10. CASE RemovePasses(h)
    <2>1. PICK r : /\ r = [s EXCEPT !.at = "removeOrder", !.passes = passes[s.order].live]
                   /\ Go(h, r)
      BY <1>10 DEF RemovePasses
    <2>2. Backed(r)
      BY <1>a, <2>1 DEF Backed, Confirming, Request
    <2>3. QED BY <1>2, <1>3, <2>1, <2>2
  <1>11. QED BY <1>5, <1>6, <1>7, <1>8, <1>9, <1>10

(* Writing PAID confirms the abstract order, or changes nothing of it. *)
LEMMA ConfirmPublic ==
    ASSUME IInv, NEW r \in Request, NEW n, Confirm(r, n), Exists(r.order),
           captured[r.order], UNCHANGED captured
    PROVE  PublicStep
  <1>1. order \in [Orders -> Status] /\ r.order \in Orders
    BY DEF IInv, TypeOK, Request
  <1>2. CASE r.status = "PAID" \/ order[r.order] = "PAID"
    BY <1>1, <1>2 DEF Confirm, PublicStep
  <1>3. CASE r.status # "PAID" /\ order[r.order] # "PAID"
    <2>1. order[r.order] \in {"PENDING", "CANCELLED"}
      BY <1>1, <1>3 DEF Exists, Status
    <2>2. Public!Confirm(r.order)
      BY <1>3, <2>1 DEF Confirm, Public!Confirm, Public!Move
    <2>3. QED BY <1>1, <2>2 DEF PublicStep, Public!Next
  <1>4. QED BY <1>2, <1>3

LEMMA CommitBacked ==
    ASSUME IInv, MoneyInv, NEW h \in Handlers,
           CommitVerify(h) \/ CommitWebhook(h) \/ CloseEvent(h)
    PROVE  MoneyInv' /\ PublicStep
  <1> DEFINE r == request[h]
  <1>a. r \in Request /\ Backed(r) /\ EventOf(r) \in Events /\ UNCHANGED captured
    BY EventOfOK DEF IInv, TypeOK, MoneyInv, CommitVerify, CommitWebhook, CloseEvent
  <1>b. ASSUME Processed(h, EventOf(r)), r.at \in {"webhookRead", "webhookRecorded"}
        PROVE  MoneyInv'
    <2>1. PICK e \in Events : e = EventOf(r) /\ e.order = r.order /\ e.kind = r.kind
      BY <1>a, EventOfOK DEF IInv
    <2>2. \A f \in Events : delivery'[f] = delivery[f] \/ f = e
      BY <1>b, <2>1 DEF Processed, IInv, TypeOK
    <2>3. e.kind \in CaptureKinds => captured[e.order]
      BY <1>a, <1>b, <2>1 DEF Backed, Confirming
    <2>4. EventsBacked'
      BY <1>a, <2>2, <2>3 DEF MoneyInv, EventsBacked
    <2>5. QED BY <1>a, <1>b, <2>4, FinishBacked DEF Processed
  <1>1. CASE Raise(h)
    BY <1>a, <1>1, RaiseBacked
  <1>2. CASE CommitVerify(h) /\ ~Raise(h)
    <2>1. Finish(h) /\ UNCHANGED delivery /\ Exists(r.order) /\ Confirm(r, Missing(r))
      BY <1>2 DEF CommitVerify
    <2>2. captured[r.order]
      BY <1>a, <1>2 DEF CommitVerify, Backed, Confirming
    <2>3. QED BY <1>a, <2>1, <2>2, SameEvents, FinishBacked, ConfirmPublic
  <1>3. CASE CommitWebhook(h) /\ ~Raise(h)
    <2>1. Processed(h, EventOf(r)) /\ r.at = "webhookRead"
      BY <1>3 DEF CommitWebhook
    <2>2. \/ UNCHANGED order
          \/ Exists(r.order) /\ Confirm(r, WebhookIssues(r))
      BY <1>3 DEF CommitWebhook
    <2>3. captured[r.order]
      BY <1>a, <2>1 DEF Backed, Confirming
    <2>4. PublicStep
      BY <1>a, <2>2, <2>3, ConfirmPublic DEF PublicStep
    <2>5. QED BY <1>b, <2>1, <2>4
  <1>4. CASE CloseEvent(h) /\ ~Raise(h)
    <2>1. Processed(h, EventOf(r)) /\ r.at = "webhookRecorded" /\ UNCHANGED order
      BY <1>4 DEF CloseEvent
    <2>2. QED BY <1>a, <1>b, <2>1 DEF PublicStep
  <1>5. QED BY <1>1, <1>2, <1>3, <1>4

(* Cancelling a cancelled order once more changes nothing. *)
LEMMA DeletionBacked ==
    ASSUME IInv, MoneyInv, NEW h \in Handlers,
           CancelOrder(h) \/ PurgeOrder(h) \/ RemoveOrder(h) \/ Crash(h)
    PROVE  MoneyInv' /\ PublicStep
  <1>a. /\ UNCHANGED captured /\ order \in [Orders -> Status]
    BY DEF IInv, TypeOK, CancelOrder, PurgeOrder, RemoveOrder, Crash
  <1>1. CASE Raise(h)
    BY <1>a, <1>1, RaiseBacked
  <1>2. CASE ~Raise(h)
    <2>1. PICK o \in Orders : o = request[h].order
      BY RequestFields DEF IInv
    <2>2. /\ Exists(o) /\ Finish(h) /\ UNCHANGED delivery
          /\ \/ order' = [order EXCEPT ![o] = "CANCELLED"]
             \/ order' = [order EXCEPT ![o] = "deleted"]
      BY <1>2, <2>1 DEF CancelOrder, PurgeOrder, RemoveOrder, DeleteRow, Crash
    <2>3. order[o] \in {"PENDING", "PAID", "CANCELLED"}
      BY <1>a, <2>2 DEF Exists, Status
    <2>4. UNCHANGED order \/ Public!Cancel(o) \/ Public!Delete(o)
      BY <1>a, <2>2, <2>3 DEF Public!Cancel, Public!Delete, Public!Move
    <2>5. PublicStep
      BY <1>a, <2>4 DEF PublicStep, Public!Next
    <2>6. QED BY <1>a, <2>2, <2>5, SameEvents, FinishBacked
  <1>3. QED BY <1>1, <1>2

LEMMA NextBacked == IInv /\ MoneyInv /\ [Next]_vars => MoneyInv' /\ PublicStep
  <1> SUFFICES ASSUME IInv, MoneyInv, [Next]_vars PROVE MoneyInv' /\ PublicStep
    OBVIOUS
  <1>a. Orders # {} /\ \E e \in Events : TRUE
    <2>1. PICK o \in Orders, k \in Kinds : TRUE
      BY NonEmptyAssumption DEF NonEmptyAssumption
    <2>2. [order |-> o, kind |-> k] \in Events
      BY <2>1 DEF Events
    <2>3. QED BY <2>1, <2>2
  <1>1. ASSUME NEW o \in Orders, CreateOrder(o) \/ Pay(o) PROVE MoneyInv' /\ PublicStep
    BY <1>a, <1>1, GatewayBacked
  <1>2. ASSUME NEW e \in Events, Decline(e) \/ SkipProcessed(e) PROVE MoneyInv' /\ PublicStep
    BY <1>a, <1>2, GatewayBacked
  <1>3. ASSUME NEW h \in Handlers, NEW o \in Orders,
               BeginVerify(h, o) \/ \E super, power \in BOOLEAN : BeginDelete(h, o, super, power)
        PROVE  MoneyInv' /\ PublicStep
    BY <1>a, <1>3, ReadBacked
  <1>4. ASSUME NEW h \in Handlers, NEW e \in Events, BeginWebhook(h, e)
        PROVE  MoneyInv' /\ PublicStep
    BY <1>a, <1>4, ReadBacked
  <1>5. ASSUME NEW h \in Handlers, Step(h) \/ Crash(h) PROVE MoneyInv' /\ PublicStep
    BY <1>a, <1>5, ReadBacked, CommitBacked, DeletionBacked DEF Step
  <1>6. CASE UNCHANGED vars
    BY <1>6 DEF vars, MoneyInv, Backed, Confirming, EventsBacked, PublicStep
  <1>7. QED BY <1>1, <1>2, <1>3, <1>4, <1>5, <1>6 DEF Next

(* Whatever verifications, webhooks, deletions and restarts overlap, and   *)
(* whatever they decided from earlier reads, no order becomes PAID before  *)
(* its money was taken, none is placed twice and none comes back from      *)
(* deletion, for any number of orders and requests.                        *)
THEOREM PaymentsImplementPublicOrder == Spec => ImplementsPublicOrder
  <1>1. Init => MoneyInv /\ Public!Init
    BY IdleBacked DEF Init, MoneyInv, EventsBacked, Public!Init
  <1>2. PublicStep => [Public!Next]_(Public!vars)
    BY DEF PublicStep, Public!vars
  <1>3. QED
    BY <1>1, <1>2, Invariant, NextBacked, PTL DEF Spec, ImplementsPublicOrder, Public!Spec
=============================================================================

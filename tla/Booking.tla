------------------------------ MODULE Booking ------------------------------
(***************************************************************************)
(* How a customer books on the public page: the page's own modes           *)
(* (apps/web/src/app/bookpass/page.tsx), createOrder of                    *)
(* apps/api/src/commercial/commercial.service.ts with its lock on the      *)
(* mobile number, and the gateway that takes the money.                    *)
(*                                                                         *)
(* A request's round trips are separate steps.  Its locked section begins  *)
(* with acquireLock and ends with the release in finally; the call of the  *)
(* gateway in between has no timeout, so the lock's ten seconds may run    *)
(* out under its holder.  A token of a lock is the request that took it.   *)
(* Every call of Redis may fail; it then answers null or false.            *)
(* Confirmation is one step here: PaymentConfirmation has its round trips. *)
(* All customers share one address, the case in which the limit on         *)
(* attempts bites.                                                         *)
(***************************************************************************)
EXTENDS Integers, FiniteSets

CONSTANTS Pages,      \* open booking pages
          Mobiles,    \* mobile numbers
          Mobile,     \* the number typed on a page
          Handlers,   \* requests in flight
          Orders,     \* order numbers generateOrderNumber may return
          RateLimit,  \* attempts after which one more is refused; 15 in the code
          TestModes,  \* staging test payments without a gateway: off, on or both
          MaxToggles, \* bound: changes of a setting
          MaxCrashes, \* bound: requests lost to a restart
          Nobody      \* no page, no order, no holder of a lock

ASSUME MobileAssumption == Mobile \in [Pages -> Mobiles] /\ Mobiles # {}
ASSUME NobodyAssumption == Nobody \notin Pages \cup Handlers \cup Orders
ASSUME NumbersAssumption == RateLimit \in Nat /\ MaxToggles \in Nat /\ MaxCrashes \in Nat
ASSUME TestModesAssumption == TestModes \subseteq BOOLEAN

VARIABLES on,       \* settings that allow booking
          testMode, \* isTestPaymentMode and no live gateway; fixed at start
          attempts, \* rl:comm-order, zero when it has expired
          lock,     \* order_create:<mobile>
          request,  \* createOrder between two round trips
          row,      \* commercial_orders.order_status
          gateway,  \* the gateway's side of each order
          page,     \* the booking pages
          toggles, crashes

vars == <<on, testMode, attempts, lock, request, row, gateway, page, toggles, crashes>>
store == <<on, testMode, attempts, toggles>>

Settings == {"bookPass", "registration", "payments"}
Checks == Settings \cup {"rate", "count", "lock"}
Section == {"gateway", "insert", "release"}
(* shut: settings that have been off ever since the request came in;       *)
(* late: its lock ran out under it.                                        *)
Request == [at : Checks \cup Section \cup {"idle"}, page : Pages \cup {Nobody},
            mobile : Mobiles, seen : 0..RateLimit,
            order : Orders \cup {Nobody}, ok : BOOLEAN,
            shut : SUBSET Settings, late : BOOLEAN]
(* notice "notLoaded" tells the customer that no payment has been made.    *)
Page == [at : {"loading", "form", "submitting", "opening", "checkout",
               "verifying", "confirmed"},
         canPay : BOOLEAN, notice : {"none", "error", "notLoaded"},
         order : Orders \cup {Nobody}]

Idle == [at |-> "idle", page |-> Nobody, mobile |-> CHOOSE m \in Mobiles : TRUE,
         seen |-> 0, order |-> Nobody, ok |-> FALSE,
         shut |-> {}, late |-> FALSE]
Fresh == [at |-> "loading", canPay |-> FALSE, notice |-> "none", order |-> Nobody]

(* Every request, page and row has its shape, and the counter of attempts  *)
(* never passes the limit by more than one.                                *)
TypeOK == /\ on \in SUBSET Settings
          /\ testMode \in BOOLEAN
          /\ attempts \in 0..RateLimit + 1
          /\ lock \in [Mobiles -> Handlers \cup {Nobody}]
          /\ request \in [Handlers -> Request]
          /\ row \in [Orders -> {"none", "PENDING", "PAID"}]
          /\ gateway \in [Orders -> {"none", "created", "attempted", "captured"}]
          /\ page \in [Pages -> Page]
          /\ toggles \in 0..MaxToggles
          /\ crashes \in 0..MaxCrashes

Init == /\ on \in {Settings, Settings \ {"payments"}}
        /\ testMode \in TestModes
        /\ attempts = 0
        /\ lock = [m \in Mobiles |-> Nobody]
        /\ request = [h \in Handlers |-> Idle]
        /\ row = [o \in Orders |-> "none"]
        /\ gateway = [o \in Orders |-> "none"]
        /\ page = [p \in Pages |-> Fresh]
        /\ toggles = 0
        /\ crashes = 0

-----------------------------------------------------------------------------
(* Helpers *)

Idling(h) == request[h].at = "idle"
Go(h, r) == request' = [request EXCEPT ![h] = r]
Finish(h) == Go(h, Idle)
InSection(h) == request[h].at \in Section
Stay(p) == [page[p] EXCEPT !.at = "form", !.notice = "error"]
(* Mutant: the error is shown but submitting stays true. *)
TellWaiting(q) == page' = [p \in Pages |-> IF p = q THEN [page[p] EXCEPT !.notice = "error"]
                                                   ELSE page[p]]

(* The page a request answers to shows an error; a request whose page has  *)
(* gone answers nobody.                                                    *)
Tell(q) == page' = [p \in Pages |-> IF p = q THEN Stay(p) ELSE page[p]]
(* Whatever request the page has in flight goes on without it. *)
Leave(p) == request' = [h \in Handlers |->
                          IF request[h].page = p THEN [request[h] EXCEPT !.page = Nobody]
                                                 ELSE request[h]]

-----------------------------------------------------------------------------
(* The administrator's settings *)

Toggle(s) ==
  /\ toggles < MaxToggles /\ toggles' = toggles + 1
  /\ on' = IF s \in on THEN on \ {s} ELSE on \cup {s}
  /\ request' = [h \in Handlers |-> [request[h] EXCEPT !.shut = @ \ on']]
  /\ UNCHANGED <<testMode, attempts, lock, row, gateway, page, crashes>>

-----------------------------------------------------------------------------
(* The page *)

(* getConfig: what the page shows of the settings. *)
Offered == {"bookPass", "payments"} \subseteq on

(* The page asks for the configuration; without an answer payments are off *)
LoadConfig(p) ==
  /\ page[p].at = "loading"
  /\ \E allowed \in {FALSE, Offered} :
       page' = [page EXCEPT ![p].at = "form", ![p].canPay = allowed]
  /\ UNCHANGED <<store, lock, request, row, gateway, crashes>>

(* The form's own guard: payments on, and not while submitting. *)
MaySubmit(p) == page[p].at = "form" /\ page[p].canPay

Submit(p, h) ==
  /\ MaySubmit(p) /\ Idling(h)
  /\ page' = [page EXCEPT ![p].at = "submitting", ![p].notice = "none"]
  /\ Go(h, [Idle EXCEPT !.at = "bookPass", !.page = p, !.mobile = Mobile[p],
                        !.shut = Settings \ on])
  /\ UNCHANGED <<store, lock, row, gateway, crashes>>

(* The connection breaks: the page shows an error, the request goes on. *)
LoseAnswer(p) ==
  /\ page[p].at = "submitting"
  /\ page' = [page EXCEPT ![p] = Stay(p)]
  /\ Leave(p)
  /\ UNCHANGED <<store, lock, row, gateway, crashes>>

Reload(p) ==
  /\ page[p].at # "loading"
  /\ page' = [page EXCEPT ![p] = Fresh]
  /\ Leave(p)
  /\ UNCHANGED <<store, lock, row, gateway, crashes>>

(* The order is there: the gateway's script opens its checkout, or could   *)
(* not be loaded.                                                          *)
OpenCheckout(p) ==
  /\ page[p].at = "opening"
  /\ \/ page' = [page EXCEPT ![p].at = "checkout"]
     \/ page' = [page EXCEPT ![p].at = "form", ![p].notice = "notLoaded"]
  /\ UNCHANGED <<store, lock, request, row, gateway, crashes>>

(* ondismiss: the customer closes the checkout, a payment may be underway. *)
Dismiss(p) ==
  /\ page[p].at = "checkout"
  /\ page' = [page EXCEPT ![p] = Stay(p)]
  /\ UNCHANGED <<store, lock, request, row, gateway, crashes>>

(* handler: the gateway reports the payment, with or without a signature. *)
PaymentReturned(p) ==
  /\ page[p].at = "checkout" /\ gateway[page[p].order] = "captured"
  /\ \/ page' = [page EXCEPT ![p].at = "verifying", ![p].notice = "none"]
     \/ page' = [page EXCEPT ![p] = Stay(p)]
  /\ UNCHANGED <<store, lock, request, row, gateway, crashes>>

(* Mutant: any answer counts as a confirmation. *)
VerifyAnsweredAnyhow(p) ==
  /\ page[p].at = "verifying"
  /\ page' = [page EXCEPT ![p].at = "confirmed"]
  /\ UNCHANGED <<store, lock, request, row, gateway, crashes>>

(* The verification answers; it may fail or its answer may be lost. *)
VerifyAnswered(p) ==
  /\ page[p].at = "verifying"
  /\ \/ row[page[p].order] = "PAID" /\ page' = [page EXCEPT ![p].at = "confirmed"]
     \/ page' = [page EXCEPT ![p] = Stay(p)]
  /\ UNCHANGED <<store, lock, request, row, gateway, crashes>>

-----------------------------------------------------------------------------
(* createOrder: the checks *)

(* A refusal before the lock is taken. *)
Refuse(h) == Finish(h) /\ Tell(request[h].page)

Following == [bookPass |-> "registration", registration |-> "payments", payments |-> "rate"]

(* Mutant: the server trusts the page's own copy of the settings. *)
TrustPage(h) ==
  LET r == request[h] IN
  /\ r.at \in Settings
  /\ Go(h, [r EXCEPT !.at = Following[r.at]]) /\ UNCHANGED page
  /\ UNCHANGED <<store, lock, row, gateway, crashes>>

(* The settings are read one after the other. *)
CheckSetting(h) ==
  LET r == request[h] IN
  /\ r.at \in Settings
  /\ IF r.at \in on THEN Go(h, [r EXCEPT !.at = Following[r.at]]) /\ UNCHANGED page
                    ELSE Refuse(h)
  /\ UNCHANGED <<store, lock, row, gateway, crashes>>

(* Mutant: the limit is tested after one more attempt. *)
CheckRateLate(h) ==
  LET r == request[h] IN
  /\ r.at = "rate"
  /\ \E seen \in {0, attempts} :
       IF seen > RateLimit + 1 THEN Refuse(h)
         ELSE Go(h, [r EXCEPT !.at = "count", !.seen = seen]) /\ UNCHANGED page
  /\ UNCHANGED <<store, lock, row, gateway, crashes>>

(* The counter is read; Redis may not answer. *)
CheckRate(h) ==
  LET r == request[h] IN
  /\ r.at = "rate"
  /\ \E seen \in {0, attempts} :
       IF seen > RateLimit THEN Refuse(h)
         ELSE Go(h, [r EXCEPT !.at = "count", !.seen = seen]) /\ UNCHANGED page
  /\ UNCHANGED <<store, lock, row, gateway, crashes>>

(* The counter is written from what was read: an overlapping attempt may   *)
(* be forgotten.                                                           *)
CountAttempt(h) ==
  LET r == request[h] IN
  /\ r.at = "count"
  /\ attempts' \in {attempts, r.seen + 1}
  /\ Go(h, [r EXCEPT !.at = "lock", !.seen = 0])
  /\ UNCHANGED <<on, testMode, toggles, lock, row, gateway, page, crashes>>

ExpireAttempts ==
  /\ attempts # 0 /\ attempts' = 0
  /\ UNCHANGED <<on, testMode, toggles, lock, request, row, gateway, page, crashes>>

(* No lock, no order: also when Redis does not answer.  The terms, tested  *)
(* next, are always accepted: the validation of the body requires it.      *)
AcquireLock(h) ==
  LET r == request[h] IN
  /\ r.at = "lock"
  /\ \/ /\ lock[r.mobile] = Nobody
        /\ lock' = [lock EXCEPT ![r.mobile] = h]
        /\ Go(h, [r EXCEPT !.at = "gateway"]) /\ UNCHANGED page
     \/ Refuse(h) /\ UNCHANGED lock
  /\ UNCHANGED <<store, row, gateway, crashes>>

(* The ten seconds of a lock run out, also under a request at work. *)
Expire(m) ==
  /\ lock[m] # Nobody
  /\ lock' = [lock EXCEPT ![m] = Nobody]
  /\ request' = [h \in Handlers |->
                   IF h = lock[m] /\ InSection(h) /\ request[h].mobile = m
                     THEN [request[h] EXCEPT !.late = TRUE] ELSE request[h]]
  /\ UNCHANGED <<store, row, gateway, page, crashes>>

-----------------------------------------------------------------------------
(* createOrder: the locked section *)

Unused(o) == row[o] = "none" /\ gateway[o] = "none"

(* To finally, with an order or without. *)
Leaving(r, ok) == [r EXCEPT !.at = "release", !.ok = ok]

(* Price or ticket type is refused, or the gateway or the database fails. *)
GiveUp(h) ==
  /\ request[h].at \in {"gateway", "insert"}
  /\ Go(h, Leaving(request[h], FALSE))
  /\ UNCHANGED <<store, lock, row, gateway, page, crashes>>

(* Staging test payments: the order is written PAID with its passes. *)
CreateTestOrder(h, o) ==
  LET r == request[h] IN
  /\ r.at = "gateway" /\ testMode /\ Unused(o)
  /\ row' = [row EXCEPT ![o] = "PAID"]
  /\ Go(h, Leaving([r EXCEPT !.order = o], TRUE))
  /\ UNCHANGED <<store, lock, gateway, page, crashes>>

(* createRazorpayOrder: the gateway has the order, its answer may be lost *)
CreateGatewayOrder(h, o) ==
  LET r == request[h] IN
  /\ r.at = "gateway" /\ ~testMode /\ Unused(o)
  /\ gateway' = [gateway EXCEPT ![o] = "created"]
  /\ \/ Go(h, [r EXCEPT !.at = "insert", !.order = o])
     \/ Go(h, Leaving(r, FALSE))
  /\ UNCHANGED <<store, lock, row, page, crashes>>

(* Mutant: the customer gets the order before it is written. *)
AnswerBeforeInsert(h) ==
  LET r == request[h] IN
  /\ r.at = "insert"
  /\ row' \in {row, [row EXCEPT ![r.order] = "PENDING"]}
  /\ Go(h, Leaving(r, TRUE))
  /\ UNCHANGED <<store, lock, gateway, page, crashes>>

InsertOrder(h) ==
  LET r == request[h] IN
  /\ r.at = "insert"
  /\ row' = [row EXCEPT ![r.order] = "PENDING"]
  /\ Go(h, Leaving(r, TRUE))
  /\ UNCHANGED <<store, lock, gateway, page, crashes>>

(* Mutant: the lock is deleted whoever holds it. *)
ReleaseAnyLock(h) ==
  lock' \in {lock, [lock EXCEPT ![request[h].mobile] = Nobody]}

(* Compare and delete: another request's lock stays; Redis may fail. *)
ReleaseLock(h) ==
  lock' \in {lock, [lock EXCEPT ![request[h].mobile] = IF @ = h THEN Nobody ELSE @]}

(* A test order is confirmed on the page, any other goes to the checkout. *)
Received(r) ==
  IF r.ok THEN [page[r.page] EXCEPT !.order = r.order,
                                    !.at = IF testMode THEN "confirmed" ELSE "opening"]
          ELSE Stay(r.page)

Answer(h) ==
  LET r == request[h] IN
  /\ r.at = "release"
  /\ ReleaseLock(h)
  /\ page' = [p \in Pages |-> IF p = r.page THEN Received(r) ELSE page[p]]
  /\ Finish(h)
  /\ UNCHANGED <<store, row, gateway, crashes>>

(* A restart: the request is gone, its lock and its orders stay. *)
Crash(h) ==
  /\ ~Idling(h) /\ crashes < MaxCrashes
  /\ crashes' = crashes + 1
  /\ Refuse(h)
  /\ UNCHANGED <<store, lock, row, gateway>>

-----------------------------------------------------------------------------
(* The gateway *)

Attempt(p) ==
  /\ page[p].at = "checkout" /\ gateway[page[p].order] = "created"
  /\ gateway' = [gateway EXCEPT ![page[p].order] = "attempted"]
  /\ UNCHANGED <<store, lock, request, row, page, crashes>>

(* payment.failed: the checkout stays open and the page says so. *)
Decline(o) ==
  /\ gateway[o] = "attempted"
  /\ gateway' = [gateway EXCEPT ![o] = "created"]
  /\ page' = [p \in Pages |-> IF page[p].at = "checkout" /\ page[p].order = o
                                THEN [page[p] EXCEPT !.notice = "error"] ELSE page[p]]
  /\ UNCHANGED <<store, lock, request, row, crashes>>

(* The money is taken, maybe after the customer has left. *)
Capture(o) ==
  /\ gateway[o] = "attempted"
  /\ gateway' = [gateway EXCEPT ![o] = "captured"]
  /\ UNCHANGED <<store, lock, request, row, page, crashes>>

(* Mutant: an attempt reported by the page is taken for a payment. *)
ConfirmAttempt(o) ==
  /\ gateway[o] \in {"attempted", "captured"} /\ row[o] = "PENDING"
  /\ row' = [row EXCEPT ![o] = "PAID"]
  /\ UNCHANGED <<store, lock, request, gateway, page, crashes>>

(* verifyPayment or the webhook, repeated until it succeeds. *)
Confirm(o) ==
  /\ gateway[o] = "captured" /\ row[o] = "PENDING"
  /\ row' = [row EXCEPT ![o] = "PAID"]
  /\ UNCHANGED <<store, lock, request, gateway, page, crashes>>

-----------------------------------------------------------------------------
PageStep(p) == \/ LoadConfig(p) \/ OpenCheckout(p) \/ VerifyAnswered(p)
               \/ LoseAnswer(p) \/ Reload(p) \/ Dismiss(p) \/ PaymentReturned(p)
               \/ Attempt(p) \/ \E h \in Handlers : Submit(p, h)

Create(h) == \E o \in Orders : CreateTestOrder(h, o) \/ CreateGatewayOrder(h, o)

(* What a request does by itself once it is in. *)
Work(h) == \/ CheckSetting(h) \/ CheckRate(h) \/ CountAttempt(h) \/ AcquireLock(h)
           \/ Create(h) \/ GiveUp(h) \/ InsertOrder(h) \/ Answer(h)

Next == \/ \E s \in Settings : Toggle(s)
        \/ \E p \in Pages : PageStep(p)
        \/ \E h \in Handlers : Work(h) \/ Crash(h)
        \/ \E m \in Mobiles : Expire(m)
        \/ \E o \in Orders : Decline(o) \/ Capture(o) \/ Confirm(o)
        \/ ExpireAttempts

Spec == Init /\ [][Next]_vars

(* Every promise settles, so a request goes on. *)
Fairness == \A h \in Handlers : WF_vars(Work(h))

FairSpec == Spec /\ Fairness

-----------------------------------------------------------------------------
(* Properties *)

(* Money is only ever attempted or taken for an order the database knows:  *)
(* a restart between the gateway's order and the INSERT costs nobody       *)
(* (commercial.service.ts:449-488).                                        *)
MoneyHasOrder == \A o \in Orders : gateway[o] \in {"attempted", "captured"} => row[o] # "none"

(* Two requests for one mobile number are in the locked section together   *)
(* only if the lock ran out under one of them: an overdue request that     *)
(* ends does not free its successor's lock (commercial.service.ts:307, 511). *)
OneCreationPerMobile ==
  \A g, h \in Handlers : g # h /\ InSection(g) /\ InSection(h)
                                /\ request[g].mobile = request[h].mobile
                           => request[g].late \/ request[h].late

(* No order is begun by a request that came in after booking was closed    *)
(* and while it stayed closed, whatever the page believes                  *)
(* (commercial.service.ts:261-286, page.tsx:341).                          *)
ClosedMeansClosed == \A h \in Handlers : InSection(h) => request[h].shut = {}

(* A page that shows a confirmation has a paid order, and one that says no *)
(* payment has been made speaks of an order nobody has tried to pay        *)
(* (page.tsx:481, 524).                                                    *)
PageTellsTruth ==
  \A p \in Pages :
    /\ page[p].at = "confirmed" => row[page[p].order] = "PAID"
    /\ page[p].at = "form" /\ page[p].notice = "notLoaded" => gateway[page[p].order] = "created"

Public == INSTANCE PublicOrder WITH
            order <- row,
            captured <- [o \in Orders |-> gateway[o] = "captured"],
            TestOrders <- TRUE \in TestModes

(* Each number is placed once, no request writes over the order of         *)
(* another, and money is taken for placed orders only: what                *)
(* PaymentConfirmation takes for granted when it places an order in one    *)
(* step (commercial.service.ts:342, 460).                                  *)
ImplementsPublicOrder == Public!Spec

(* A page that waits for its order does not wait for ever. *)
PageAnswered == \A p \in Pages : page[p].at = "submitting" ~> page[p].at # "submitting"
=============================================================================

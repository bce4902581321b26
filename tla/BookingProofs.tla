--------------------------- MODULE BookingProofs ----------------------------
(***************************************************************************)
(* Proofs about Booking for every number of pages, mobile numbers,         *)
(* requests and orders.                                                    *)
(***************************************************************************)
EXTENDS Booking, TLAPS

(* The settings a request has found on by the time it is at place at. *)
Passed(at) == IF at \in {"idle", "bookPass"} THEN {}
              ELSE IF at = "registration" THEN {"bookPass"}
              ELSE IF at = "payments" THEN {"bookPass", "registration"}
              ELSE Settings

ShutOK == \A h \in Handlers : /\ request[h].shut \subseteq Settings \ on
                              /\ request[h].shut \cap Passed(request[h].at) = {}

(* A request in the locked section holds its lock unless it ran out. *)
LockOK == \A h \in Handlers : InSection(h) /\ ~request[h].late
                                => lock[request[h].mobile] = h

(* What a request or a page knows of its order. *)
RequestOK(r) ==
  /\ r.at = "insert" => r.order # Nobody /\ ~testMode
  /\ r.ok => r.at = "release"
  /\ r.ok => r.order # Nobody /\ row[r.order] = (IF testMode THEN "PAID" ELSE "PENDING")
  /\ r.order # Nobody => /\ gateway[r.order] \in {"none", "created"}
                         /\ gateway[r.order] = "created" \/ row[r.order] # "none"
                         /\ ~testMode => gateway[r.order] = "created"
PageOK(g) ==
  /\ g.at \in {"opening", "checkout", "verifying", "confirmed"} => g.order # Nobody
  /\ g.notice = "notLoaded" => g.at = "form" /\ g.order # Nobody
  /\ g.order # Nobody => row[g.order] # "none"
  /\ g.at = "opening" \/ g.notice = "notLoaded" => gateway[g.order] = "created"
  /\ g.at = "confirmed" => row[g.order] = "PAID"

(* No order is on two pages, in two requests, or in both. *)
Apart(a, b) == a.order = Nobody \/ a.order # b.order
ApartOK == /\ \A g, h \in Handlers : g # h => Apart(request[g], request[h])
           /\ \A p, q \in Pages : p # q => Apart(page[p], page[q])
           /\ \A h \in Handlers, p \in Pages : Apart(request[h], page[p])

KnownOK == /\ \A h \in Handlers : RequestOK(request[h])
           /\ \A p \in Pages : PageOK(page[p])

(* A request answers one page, and that page waits for it alone. *)
ReplyOK ==
  /\ \A h \in Handlers : request[h].page # Nobody
                           => page[request[h].page].at = "submitting"
  /\ \A g, h \in Handlers : g # h => \/ request[g].page = Nobody
                                      \/ request[g].page # request[h].page

IInv == TypeOK /\ ShutOK /\ LockOK /\ ApartOK /\ KnownOK /\ ReplyOK /\ MoneyHasOrder

USE NobodyAssumption, MobileAssumption, NumbersAssumption, TestModesAssumption

-----------------------------------------------------------------------------
(* Shapes *)

LEMMA IdleShape == /\ Idle \in Request
                   /\ Idle.at = "idle" /\ Idle.order = Nobody /\ ~Idle.ok
                   /\ Idle.shut = {} /\ ~Idle.late /\ Idle.page = Nobody
  <1>1. (CHOOSE m \in Mobiles : TRUE) \in Mobiles
    OBVIOUS
  <1>2. QED BY <1>1 DEF Idle, Request, Checks, Section, Settings

LEMMA FreshShape == /\ Fresh \in Page /\ Fresh.at = "loading"
                    /\ Fresh.order = Nobody /\ Fresh.notice = "none"
  BY DEF Fresh, Page

(* An error on a page in the form: same order, nothing to say of it. *)
LEMMA StayShape ==
  ASSUME NEW p \in Pages, page \in [Pages -> Page]
  PROVE  /\ Stay(p) \in Page /\ Stay(p).at = "form" /\ Stay(p).notice = "error"
         /\ Stay(p).order = page[p].order
  BY DEF Stay, Page

LEMMA LeavingShape ==
  ASSUME NEW r \in Request, NEW ok \in BOOLEAN
  PROVE  /\ Leaving(r, ok) \in Request /\ Leaving(r, ok).at = "release"
         /\ Leaving(r, ok).ok = ok /\ Leaving(r, ok).order = r.order
         /\ Leaving(r, ok).mobile = r.mobile /\ Leaving(r, ok).shut = r.shut
         /\ Leaving(r, ok).late = r.late /\ Leaving(r, ok).page = r.page
  BY DEF Leaving, Request, Checks, Section, Settings

-----------------------------------------------------------------------------
(* Types *)

LEMMA LeaveType ==
  ASSUME TypeOK, NEW p \in Pages, Leave(p)
  PROVE  request' \in [Handlers -> Request]
  <1>1. \A h \in Handlers : [request[h] EXCEPT !.page = Nobody] \in Request
    BY DEF TypeOK, Request
  <1>2. QED BY <1>1 DEF TypeOK, Leave

LEMMA GoType ==
  ASSUME TypeOK, NEW h \in Handlers, NEW r \in Request, Go(h, r)
  PROVE  request' \in [Handlers -> Request]
  BY DEF TypeOK, Go

LEMMA StayType ==
  ASSUME TypeOK, NEW p \in Pages, page' = [page EXCEPT ![p] = Stay(p)]
  PROVE  page' \in [Pages -> Page]
  BY StayShape DEF TypeOK

LEMMA RefuseType ==
  ASSUME TypeOK, NEW h \in Handlers, Refuse(h)
  PROVE  request' \in [Handlers -> Request] /\ page' \in [Pages -> Page]
  <1>1. request' \in [Handlers -> Request]
    BY GoType, IdleShape DEF Refuse, Finish
  <1>2. \A p \in Pages : Stay(p) \in Page /\ page[p] \in Page
    BY StayShape DEF TypeOK
  <1>3. QED BY <1>1, <1>2 DEF Refuse, Tell

LEMMA PageTypes ==
  ASSUME TypeOK, NEW p \in Pages, PageStep(p), ~Attempt(p)
  PROVE  request' \in [Handlers -> Request] /\ page' \in [Pages -> Page]
  <1>a. /\ page \in [Pages -> Page] /\ request \in [Handlers -> Request]
        /\ page[p] \in Page
    BY DEF TypeOK
  <1>1. CASE LoadConfig(p)
    <2>1. PICK may \in BOOLEAN : page' = [page EXCEPT ![p].at = "form", ![p].canPay = may]
      BY <1>1 DEF LoadConfig, Offered
    <2>2. [page[p] EXCEPT !.at = "form", !.canPay = may] \in Page
      BY <1>a DEF Page
    <2>3. PICK g : g = [page[p] EXCEPT !.at = "form", !.canPay = may]
      OBVIOUS
    <2>4. page' = [page EXCEPT ![p] = g]
      BY <2>1, <2>3, <1>a
    <2>5. QED BY <1>1, <1>a, <2>2, <2>3, <2>4 DEF LoadConfig
  <1>2. CASE OpenCheckout(p)
    <2>1. /\ [page[p] EXCEPT !.at = "checkout"] \in Page
          /\ [page[p] EXCEPT !.at = "form", !.notice = "notLoaded"] \in Page
      BY <1>a DEF Page
    <2>2. PICK g : g = [page[p] EXCEPT !.at = "form", !.notice = "notLoaded"]
      OBVIOUS
    <2>3. \/ page' = [page EXCEPT ![p] = [page[p] EXCEPT !.at = "checkout"]]
          \/ page' = [page EXCEPT ![p] = g]
      BY <1>2, <1>a, <2>2 DEF OpenCheckout
    <2>4. QED BY <1>2, <1>a, <2>1, <2>2, <2>3 DEF OpenCheckout
  <1>3. CASE VerifyAnswered(p)
    <2>1. [page[p] EXCEPT !.at = "confirmed"] \in Page
      BY <1>a DEF Page
    <2>2. QED BY <1>3, <1>a, <2>1, StayType DEF VerifyAnswered
  <1>4. CASE LoseAnswer(p)
    BY <1>4, StayType, LeaveType DEF LoseAnswer
  <1>5. CASE Reload(p)
    BY <1>5, <1>a, FreshShape, LeaveType DEF Reload
  <1>6. CASE Dismiss(p)
    BY <1>6, <1>a, StayType DEF Dismiss
  <1>7. CASE PaymentReturned(p)
    <2>1. [page[p] EXCEPT !.at = "verifying", !.notice = "none"] \in Page
      BY <1>a DEF Page
    <2>2. PICK g : g = [page[p] EXCEPT !.at = "verifying", !.notice = "none"]
      OBVIOUS
    <2>3. \/ page' = [page EXCEPT ![p] = g]
          \/ page' = [page EXCEPT ![p] = Stay(p)]
      BY <1>7, <1>a, <2>2 DEF PaymentReturned
    <2>4. QED BY <1>7, <1>a, <2>1, <2>2, <2>3, StayType DEF PaymentReturned
  <1>8. ASSUME NEW h \in Handlers, Submit(p, h)
        PROVE  request' \in [Handlers -> Request] /\ page' \in [Pages -> Page]
    <2>1. [page[p] EXCEPT !.at = "submitting", !.notice = "none"] \in Page
      BY <1>a DEF Page
    <2>2. PICK g : g = [page[p] EXCEPT !.at = "submitting", !.notice = "none"]
      OBVIOUS
    <2>3. page' = [page EXCEPT ![p] = g]
      BY <1>8, <1>a, <2>2 DEF Submit
    <2>4. PICK r : r = [Idle EXCEPT !.at = "bookPass", !.page = p, !.mobile = Mobile[p],
                                    !.shut = Settings \ on]
      OBVIOUS
    <2>5. r \in Request
      BY <2>4, IdleShape DEF Request, Checks, Settings
    <2>6. Go(h, r)
      BY <1>8, <2>4 DEF Submit
    <2>7. QED BY <1>a, <2>1, <2>2, <2>3, <2>5, <2>6, GoType
  <1>9. QED BY <1>1, <1>2, <1>3, <1>4, <1>5, <1>6, <1>7, <1>8 DEF PageStep

LEMMA WorkTypes ==
  ASSUME TypeOK, NEW h \in Handlers, Work(h)
  PROVE  TypeOK'
  <1> DEFINE r == request[h]
  <1>a. /\ page \in [Pages -> Page] /\ request \in [Handlers -> Request] /\ r \in Request
        /\ lock \in [Mobiles -> Handlers \cup {Nobody}] /\ r.mobile \in Mobiles
        /\ attempts \in 0..RateLimit + 1
    BY DEF TypeOK, Request
  <1>b. ASSUME Refuse(h), UNCHANGED <<store, lock, row, gateway, crashes>> PROVE TypeOK'
    BY <1>b, RefuseType DEF TypeOK, store
  <1>1. CASE CheckSetting(h)
    <2>1. CASE Refuse(h)
      BY <1>1, <1>b, <2>1 DEF CheckSetting
    <2>2. CASE Go(h, [r EXCEPT !.at = Following[r.at]]) /\ UNCHANGED page
      <3>1. Following[r.at] \in Checks
        BY <1>1 DEF CheckSetting, Following, Settings, Checks
      <3>2. [r EXCEPT !.at = Following[r.at]] \in Request
        BY <3>1, <1>a DEF Request
      <3>3. QED BY <1>1, <2>2, <3>2, GoType DEF CheckSetting, TypeOK, store
    <2>3. QED BY <1>1, <2>1, <2>2 DEF CheckSetting
  <1>2. CASE CheckRate(h)
    <2>1. PICK seen \in {0, attempts} :
            IF seen > RateLimit THEN Refuse(h)
              ELSE Go(h, [r EXCEPT !.at = "count", !.seen = seen]) /\ UNCHANGED page
      BY <1>2 DEF CheckRate
    <2>2. CASE Refuse(h)
      BY <1>2, <1>b, <2>2 DEF CheckRate
    <2>3. CASE ~(seen > RateLimit)
      <3>1. seen \in 0..RateLimit
        BY <1>a, <2>3
      <3>2. PICK q : q = [r EXCEPT !.at = "count", !.seen = seen]
        OBVIOUS
      <3>3. q \in Request
        BY <3>1, <3>2, <1>a DEF Request, Checks
      <3>4. Go(h, q) /\ UNCHANGED page
        BY <2>1, <2>3, <3>2
      <3>5. QED BY <1>2, <3>3, <3>4, GoType DEF CheckRate, TypeOK, store
    <2>4. QED BY <2>1, <2>2, <2>3
  <1>3. CASE CountAttempt(h)
    <2>1. PICK q : q = [r EXCEPT !.at = "lock", !.seen = 0]
      OBVIOUS
    <2>a. 0 \in 0..RateLimit
      OBVIOUS
    <2>2. q \in Request
      BY <2>1, <2>a, <1>a DEF Request, Checks
    <2>3. r.seen \in 0..RateLimit
      BY <1>a DEF Request
    <2>4. attempts' \in 0..RateLimit + 1
      BY <1>3, <1>a, <2>3 DEF CountAttempt
    <2>5. Go(h, q)
      BY <1>3, <2>1 DEF CountAttempt
    <2>6. QED BY <1>3, <2>2, <2>4, <2>5, GoType DEF CountAttempt, TypeOK
  <1>4. CASE AcquireLock(h)
    <2>1. CASE Refuse(h) /\ UNCHANGED lock
      BY <1>4, <1>b, <2>1 DEF AcquireLock
    <2>2. CASE /\ lock' = [lock EXCEPT ![r.mobile] = h]
               /\ Go(h, [r EXCEPT !.at = "gateway"]) /\ UNCHANGED page
      <3>1. [r EXCEPT !.at = "gateway"] \in Request
        BY <1>a DEF Request, Section
      <3>2. lock' \in [Mobiles -> Handlers \cup {Nobody}]
        BY <1>a, <2>2
      <3>3. QED BY <1>4, <2>2, <3>1, <3>2, GoType DEF AcquireLock, TypeOK, store
    <2>3. QED BY <1>4, <2>1, <2>2 DEF AcquireLock
  <1>5. CASE GiveUp(h)
    <2>1. Leaving(r, FALSE) \in Request
      BY <1>a, LeavingShape
    <2>2. QED BY <1>5, <2>1, GoType DEF GiveUp, TypeOK, store
  <1>6. ASSUME NEW o \in Orders, CreateTestOrder(h, o) PROVE TypeOK'
    <2>1. [r EXCEPT !.order = o] \in Request
      BY <1>a DEF Request
    <2>2. Leaving([r EXCEPT !.order = o], TRUE) \in Request
      BY <2>1, LeavingShape
    <2>3. QED BY <1>6, <2>2, GoType DEF CreateTestOrder, TypeOK, store
  <1>7. ASSUME NEW o \in Orders, CreateGatewayOrder(h, o) PROVE TypeOK'
    <2>1. PICK q : q = [r EXCEPT !.at = "insert", !.order = o]
      OBVIOUS
    <2>2. q \in Request /\ Leaving(r, FALSE) \in Request
      BY <2>1, <1>a, LeavingShape DEF Request, Section
    <2>3. Go(h, q) \/ Go(h, Leaving(r, FALSE))
      BY <1>7, <2>1 DEF CreateGatewayOrder
    <2>4. request' \in [Handlers -> Request]
      BY <2>2, <2>3, GoType
    <2>5. QED BY <1>7, <2>4 DEF CreateGatewayOrder, TypeOK, store
  <1>8. CASE InsertOrder(h)
    <2>1. Leaving(r, TRUE) \in Request
      BY <1>a, LeavingShape
    <2>2. QED BY <1>8, <2>1, GoType DEF InsertOrder, TypeOK, store
  <1>9. CASE Answer(h)
    <2>1. request' \in [Handlers -> Request]
      BY <1>9, GoType, IdleShape DEF Answer, Finish
    <2>2. lock' \in [Mobiles -> Handlers \cup {Nobody}]
      BY <1>9, <1>a DEF Answer, ReleaseLock
    <2>3. ASSUME NEW p \in Pages, p = r.page PROVE Received(r) \in Page
      <3>1. r.order \in Orders \cup {Nobody} /\ page[p] \in Page
        BY <1>a DEF Request
      <3>2. PICK at : at = IF testMode THEN "confirmed" ELSE "opening"
        OBVIOUS
      <3>3. PICK g : g = [page[p] EXCEPT !.order = r.order, !.at = at]
        OBVIOUS
      <3>4. g \in Page
        BY <3>1, <3>2, <3>3 DEF Page
      <3>5. Stay(p) \in Page
        BY <1>a, StayShape
      <3>6. Received(r) = g \/ Received(r) = Stay(p)
        BY <2>3, <3>2, <3>3 DEF Received
      <3>7. QED BY <3>4, <3>5, <3>6
    <2>4. page' \in [Pages -> Page]
      BY <1>9, <1>a, <2>3 DEF Answer
    <2>5. QED BY <1>9, <2>1, <2>2, <2>4 DEF Answer, TypeOK, store
  <1>10. QED BY <1>1, <1>2, <1>3, <1>4, <1>5, <1>6, <1>7, <1>8, <1>9 DEF Work, Create

LEMMA TypeStep == TypeOK /\ [Next]_vars => TypeOK'
  <1> SUFFICES ASSUME TypeOK, [Next]_vars PROVE TypeOK'
    OBVIOUS
  <1>1. ASSUME NEW s \in Settings, Toggle(s) PROVE TypeOK'
    <2>1. \A h \in Handlers : request[h] \in Request
      BY DEF TypeOK
    <2>2. \A h \in Handlers : request[h].shut \ on' \in SUBSET Settings
      BY <2>1 DEF Request
    <2>3. \A h \in Handlers : [request[h] EXCEPT !.shut = @ \ on'] \in Request
      BY <2>1, <2>2 DEF Request
    <2>4. request' \in [Handlers -> Request]
      BY <1>1, <2>3 DEF Toggle
    <2>5. QED BY <1>1, <2>4 DEF Toggle, TypeOK
  <1>2. ASSUME NEW p \in Pages, PageStep(p) PROVE TypeOK'
    <2>1. CASE Attempt(p)
      BY <2>1 DEF Attempt, TypeOK, store
    <2>2. CASE ~Attempt(p)
      <3>1. request' \in [Handlers -> Request] /\ page' \in [Pages -> Page]
        BY <1>2, <2>2, PageTypes
      <3>2. UNCHANGED <<store, lock, row, gateway, crashes>>
        BY <1>2, <2>2 DEF PageStep, LoadConfig, OpenCheckout, VerifyAnswered, LoseAnswer,
                          Reload, Dismiss, PaymentReturned, Submit
      <3>3. QED BY <3>1, <3>2 DEF TypeOK, store
    <2>3. QED BY <2>1, <2>2
  <1>3. ASSUME NEW h \in Handlers, Work(h) PROVE TypeOK'
    BY <1>3, WorkTypes
  <1>4. ASSUME NEW h \in Handlers, Crash(h) PROVE TypeOK'
    <2>1. request' \in [Handlers -> Request] /\ page' \in [Pages -> Page]
      BY <1>4, RefuseType DEF Crash
    <2>2. QED BY <1>4, <2>1 DEF Crash, TypeOK, store
  <1>5. ASSUME NEW m \in Mobiles, Expire(m) PROVE TypeOK'
    <2>1. ASSUME NEW h \in Handlers PROVE [request[h] EXCEPT !.late = TRUE] \in Request
      <3>1. request[h] \in Request
        BY DEF TypeOK
      <3>2. QED BY <3>1 DEF Request
    <2>2. request' \in [Handlers -> Request]
      BY <1>5, <2>1 DEF Expire, TypeOK
    <2>3. QED BY <1>5, <2>2 DEF Expire, TypeOK, store
  <1>6. ASSUME NEW o \in Orders, Decline(o) \/ Capture(o) \/ Confirm(o) PROVE TypeOK'
    <2>1. \A p \in Pages : [page[p] EXCEPT !.notice = "error"] \in Page /\ page[p] \in Page
      BY DEF TypeOK, Page
    <2>2. CASE Decline(o)
      <3>1. page' \in [Pages -> Page]
        BY <2>1, <2>2 DEF Decline
      <3>2. QED BY <2>2, <3>1 DEF Decline, TypeOK, store
    <2>3. CASE Capture(o)
      BY <2>3 DEF Capture, TypeOK, store
    <2>4. CASE Confirm(o)
      BY <2>4 DEF Confirm, TypeOK, store
    <2>5. QED BY <1>6, <2>2, <2>3, <2>4
  <1>7. CASE ExpireAttempts
    BY <1>7 DEF ExpireAttempts, TypeOK
  <1>8. CASE UNCHANGED vars
    BY <1>8 DEF vars, TypeOK
  <1>9. QED BY <1>1, <1>2, <1>3, <1>4, <1>5, <1>6, <1>7, <1>8 DEF Next

-----------------------------------------------------------------------------
(* Most steps change neither a row nor a lock, and a request only goes on  *)
(* with what it has, or ends.                                              *)

Tame(h) ==
  \/ request'[h] = Idle
  \/ /\ request'[h].mobile = request[h].mobile /\ request'[h].shut = request[h].shut
     /\ request'[h].late = request[h].late /\ request'[h].order = request[h].order
     /\ request'[h].ok => request[h].ok
     /\ \/ request'[h].at = request[h].at
        \/ request[h].at = "rate" /\ request'[h].at = "count"
        \/ request[h].at = "count" /\ request'[h].at = "lock"
        \/ request[h].at \in {"gateway", "insert"} /\ request'[h].at = "release"

(* A page keeps its order or forgets it, and claims nothing new of it. *)
Mild(p) ==
  /\ page'[p].order \in {Nobody, page[p].order}
  /\ PageOK(page'[p])

Rows == <<row, gateway, testMode>>

LEMMA TameShut ==
  ASSUME TypeOK, ShutOK, UNCHANGED on, NEW h \in Handlers, Tame(h)
  PROVE  /\ request'[h].shut \subseteq Settings \ on'
         /\ request'[h].shut \cap Passed(request'[h].at) = {}
  BY IdleShape DEF ShutOK, Tame, Passed

LEMMA TameLock ==
  ASSUME TypeOK, LockOK, UNCHANGED lock, NEW h \in Handlers, Tame(h),
         request'[h].at \in Section, ~request'[h].late
  PROVE  lock'[request'[h].mobile] = h
  BY IdleShape DEF LockOK, InSection, Tame, Section

LEMMA TameRequest ==
  ASSUME KnownOK, UNCHANGED Rows, NEW h \in Handlers, Tame(h)
  PROVE  RequestOK(request[h])' /\ request'[h].order \in {Nobody, request[h].order}
  BY IdleShape DEF KnownOK, RequestOK, Tame, Rows

LEMMA TameStep ==
  ASSUME IInv, UNCHANGED <<on, lock, Rows>>,
         \A h \in Handlers : Tame(h), \A p \in Pages : Mild(p)
  PROVE  ShutOK' /\ LockOK' /\ ApartOK' /\ KnownOK' /\ MoneyHasOrder'
  <1>1. ShutOK'
    BY TameShut DEF IInv, ShutOK
  <1>2. LockOK'
    BY TameLock DEF IInv, LockOK, InSection
  <1>3. \A h \in Handlers : /\ RequestOK(request[h])'
                            /\ request'[h].order \in {Nobody, request[h].order}
    BY TameRequest DEF IInv
  <1>4. \A p \in Pages : PageOK(page[p])' /\ page'[p].order \in {Nobody, page[p].order}
    BY DEF Mild, PageOK, Rows
  <1>5. ApartOK'
    BY <1>3, <1>4 DEF IInv, ApartOK, Apart
  <1>6. KnownOK'
    BY <1>3, <1>4 DEF KnownOK
  <1>7. MoneyHasOrder'
    BY DEF IInv, MoneyHasOrder, Rows
  <1>8. QED BY <1>1, <1>2, <1>5, <1>6, <1>7

LEMMA SameRequests ==
  ASSUME UNCHANGED request
  PROVE  \A h \in Handlers : Tame(h)
  BY DEF Tame

LEMMA SamePages ==
  ASSUME KnownOK, UNCHANGED page
  PROVE  \A p \in Pages : Mild(p)
  BY DEF KnownOK, Mild

LEMMA LeaveTame ==
  ASSUME TypeOK, NEW q \in Pages, Leave(q)
  PROVE  \A h \in Handlers : Tame(h)
  BY DEF TypeOK, Leave, Tame, Request

(* Only page p changes, to g. *)
LEMMA OnePage ==
  ASSUME TypeOK, KnownOK, NEW p \in Pages, NEW g, page' = [page EXCEPT ![p] = g],
         g.order \in {Nobody, page[p].order}, PageOK(g)
  PROVE  \A q \in Pages : Mild(q)
  BY DEF TypeOK, KnownOK, Mild

LEMMA OneRequest ==
  ASSUME TypeOK, NEW h \in Handlers, NEW r, Go(h, r),
         \/ r = Idle
         \/ /\ r.mobile = request[h].mobile /\ r.shut = request[h].shut
            /\ r.late = request[h].late /\ r.order = request[h].order
            /\ r.ok => request[h].ok
            /\ \/ request[h].at = "rate" /\ r.at = "count"
               \/ request[h].at = "count" /\ r.at = "lock"
               \/ request[h].at \in {"gateway", "insert"} /\ r.at = "release"
  PROVE  \A g \in Handlers : Tame(g)
  BY DEF TypeOK, Go, Tame

(* A page in the form with an error claims nothing. *)
LEMMA StayOK ==
  ASSUME TypeOK, KnownOK, NEW p \in Pages
  PROVE  PageOK(Stay(p))
  <1>1. PageOK(page[p])
    BY DEF KnownOK
  <1>2. QED BY <1>1, StayShape DEF TypeOK, PageOK

LEMMA StayMild ==
  ASSUME TypeOK, KnownOK, NEW p \in Pages, page' = [page EXCEPT ![p] = Stay(p)]
  PROVE  \A q \in Pages : Mild(q)
  BY OnePage, StayOK, StayShape DEF TypeOK

LEMMA RefuseTame ==
  ASSUME TypeOK, KnownOK, NEW h \in Handlers, Refuse(h)
  PROVE  (\A g \in Handlers : Tame(g)) /\ (\A p \in Pages : Mild(p))
  <1>1. \A g \in Handlers : Tame(g)
    BY OneRequest DEF Refuse, Finish
  <1>2. ASSUME NEW p \in Pages PROVE Mild(p)
    <2>1. page'[p] = Stay(p) \/ page'[p] = page[p]
      BY DEF Refuse, Tell
    <2>2. Stay(p).order = page[p].order
      BY StayShape DEF TypeOK
    <2>3. QED BY <2>1, <2>2, StayOK DEF KnownOK, Mild
  <1>3. QED BY <1>1, <1>2

-----------------------------------------------------------------------------
(* The steps *)

Rest == ShutOK /\ LockOK /\ ApartOK /\ KnownOK /\ MoneyHasOrder

(* Nothing a page does but start a payment concerns a row. *)
LEMMA PageRest ==
  ASSUME IInv, NEW p \in Pages, PageStep(p), ~Attempt(p),
         \A h \in Handlers : ~Submit(p, h)
  PROVE  Rest'
  <1>a. /\ UNCHANGED <<on, lock, Rows>>
        /\ page \in [Pages -> Page] /\ page[p] \in Page /\ PageOK(page[p])
    BY DEF PageStep, LoadConfig, OpenCheckout, VerifyAnswered, LoseAnswer, Reload, Dismiss,
           PaymentReturned, store, Rows, IInv, TypeOK, KnownOK
  <1>b. (\A h \in Handlers : Tame(h)) /\ (\A q \in Pages : Mild(q)) => Rest'
    BY <1>a, TameStep DEF Rest
  <1>c. TypeOK /\ KnownOK
    BY DEF IInv
  <1>1. CASE LoadConfig(p)
    <2>1. PICK may \in BOOLEAN : page' = [page EXCEPT ![p].at = "form", ![p].canPay = may]
      BY <1>1 DEF LoadConfig, Offered
    <2>2. PICK g : g = [page[p] EXCEPT !.at = "form", !.canPay = may]
      OBVIOUS
    <2>3. page' = [page EXCEPT ![p] = g]
      BY <2>1, <2>2, <1>a
    <2>4. PageOK(g) /\ g.order = page[p].order
      BY <2>2, <1>1, <1>a DEF PageOK, Page, LoadConfig
    <2>5. QED BY <1>1, <1>b, <1>c, <2>3, <2>4, OnePage, SameRequests DEF LoadConfig
  <1>2. CASE OpenCheckout(p)
    <2>1. PICK f : f = [page[p] EXCEPT !.at = "checkout"]
      OBVIOUS
    <2>2. PICK g : g = [page[p] EXCEPT !.at = "form", !.notice = "notLoaded"]
      OBVIOUS
    <2>3. page' = [page EXCEPT ![p] = f] \/ page' = [page EXCEPT ![p] = g]
      BY <1>2, <1>a, <2>1, <2>2 DEF OpenCheckout
    <2>4. /\ PageOK(f) /\ f.order = page[p].order
          /\ PageOK(g) /\ g.order = page[p].order
      BY <2>1, <2>2, <1>2, <1>a DEF PageOK, Page, OpenCheckout
    <2>5. QED BY <1>2, <1>b, <1>c, <2>3, <2>4, OnePage, SameRequests DEF OpenCheckout
  <1>3. CASE VerifyAnswered(p)
    <2>1. PICK f : f = [page[p] EXCEPT !.at = "confirmed"]
      OBVIOUS
    <2>2. \/ row[page[p].order] = "PAID" /\ page' = [page EXCEPT ![p] = f]
          \/ page' = [page EXCEPT ![p] = Stay(p)]
      BY <1>3, <1>a, <2>1 DEF VerifyAnswered
    <2>3. row[page[p].order] = "PAID" => PageOK(f) /\ f.order = page[p].order
      BY <2>1, <1>3, <1>a DEF PageOK, Page, VerifyAnswered
    <2>4. \A q \in Pages : Mild(q)
      BY <1>c, <2>2, <2>3, OnePage, StayMild
    <2>5. QED BY <1>3, <1>b, <2>4, SameRequests DEF VerifyAnswered
  <1>4. CASE LoseAnswer(p)
    BY <1>4, <1>b, <1>c, StayMild, LeaveTame DEF LoseAnswer
  <1>5. CASE Reload(p)
    <2>1. PageOK(Fresh) /\ page' = [page EXCEPT ![p] = Fresh]
      BY <1>5, FreshShape DEF PageOK, Reload
    <2>2. QED BY <1>5, <1>b, <1>c, <2>1, FreshShape, OnePage, LeaveTame DEF Reload
  <1>6. CASE Dismiss(p)
    BY <1>6, <1>b, <1>c, StayMild, SameRequests DEF Dismiss
  <1>7. CASE PaymentReturned(p)
    <2>1. PICK g : g = [page[p] EXCEPT !.at = "verifying", !.notice = "none"]
      OBVIOUS
    <2>2. page' = [page EXCEPT ![p] = g] \/ page' = [page EXCEPT ![p] = Stay(p)]
      BY <1>7, <1>a, <2>1 DEF PaymentReturned
    <2>3. PageOK(g) /\ g.order = page[p].order
      BY <2>1, <1>7, <1>a DEF PageOK, Page, PaymentReturned
    <2>4. \A q \in Pages : Mild(q)
      BY <1>c, <2>2, <2>3, OnePage, StayMild
    <2>5. QED BY <1>7, <1>b, <2>4, SameRequests DEF PaymentReturned
  <1>8. QED BY <1>1, <1>2, <1>3, <1>4, <1>5, <1>6, <1>7 DEF PageStep

(* A new request starts with no order, no lock and the settings off now. *)
LEMMA SubmitRest ==
  ASSUME IInv, NEW p \in Pages, NEW h \in Handlers, Submit(p, h)
  PROVE  Rest'
  <1>a. /\ page \in [Pages -> Page] /\ request \in [Handlers -> Request]
        /\ PageOK(page[p]) /\ page[p] \in Page
    BY DEF IInv, TypeOK, KnownOK
  <1>1. PICK g : g = [page[p] EXCEPT !.at = "submitting", !.notice = "none"]
    OBVIOUS
  <1>2. page' = [page EXCEPT ![p] = g]
    BY <1>1, <1>a DEF Submit
  <1>3. PageOK(g) /\ g.order = page[p].order
    BY <1>1, <1>a DEF PageOK, Page
  <1>4. \A q \in Pages : Mild(q)
    BY <1>2, <1>3, OnePage DEF IInv
  <1>5. PICK r : r = [Idle EXCEPT !.at = "bookPass", !.page = p, !.mobile = Mobile[p],
                                  !.shut = Settings \ on]
    OBVIOUS
  <1>6. /\ r.at = "bookPass" /\ r.order = Nobody /\ ~r.ok /\ r.shut = Settings \ on
    BY <1>5, IdleShape DEF Request
  <1>7. request' = [request EXCEPT ![h] = r]
    BY <1>5 DEF Submit, Go
  <1>8. ShutOK'
    BY <1>a, <1>6, <1>7 DEF IInv, ShutOK, Submit, store, Passed
  <1>9. LockOK'
    BY <1>a, <1>6, <1>7 DEF IInv, LockOK, InSection, Section, Submit
  <1>10. /\ \A k \in Handlers : RequestOK(request[k])'
         /\ \A k \in Handlers : request'[k].order \in {Nobody, request[k].order}
    BY <1>a, <1>6, <1>7 DEF IInv, KnownOK, RequestOK, Submit, store
  <1>11. \A q \in Pages : PageOK(page[q])' /\ page'[q].order \in {Nobody, page[q].order}
    BY <1>4 DEF Mild, PageOK, Submit
  <1>12. ApartOK'
    BY <1>10, <1>11 DEF IInv, ApartOK, Apart
  <1>13. KnownOK' /\ MoneyHasOrder'
    BY <1>10, <1>11 DEF IInv, KnownOK, MoneyHasOrder, Submit
  <1>14. QED BY <1>8, <1>9, <1>12, <1>13 DEF Rest

LEMMA AttemptRest ==
  ASSUME IInv, NEW p \in Pages, Attempt(p)
  PROVE  Rest'
  <1>a. /\ gateway \in [Orders -> {"none", "created", "attempted", "captured"}]
        /\ PageOK(page[p]) /\ page[p].order \in Orders
        /\ page[p].at = "checkout"
    BY DEF IInv, TypeOK, KnownOK, PageOK, Attempt, Page
  <1>1. ShutOK' /\ LockOK' /\ ApartOK'
    BY DEF IInv, Attempt, store, ShutOK, LockOK, InSection, ApartOK, Apart
  <1>2. ASSUME NEW h \in Handlers PROVE RequestOK(request[h])'
    BY <1>a DEF IInv, Attempt, store, ApartOK, Apart, KnownOK, RequestOK
  <1>3. ASSUME NEW q \in Pages PROVE PageOK(page[q])'
    BY <1>a DEF IInv, Attempt, ApartOK, Apart, KnownOK, PageOK, TypeOK, Page
  <1>4. MoneyHasOrder'
    BY <1>a DEF IInv, Attempt, MoneyHasOrder, PageOK
  <1>5. QED BY <1>1, <1>2, <1>3, <1>4 DEF Rest, KnownOK

(* The checks of a request, and its giving up. *)
LEMMA CheckRest ==
  ASSUME IInv, NEW h \in Handlers,
         CheckSetting(h) \/ CheckRate(h) \/ CountAttempt(h) \/ AcquireLock(h) \/ GiveUp(h)
  PROVE  Rest'
  <1> DEFINE r == request[h]
  <1>a. /\ UNCHANGED <<on, Rows>> /\ TypeOK /\ KnownOK /\ r \in Request
        /\ request \in [Handlers -> Request]
    BY DEF CheckSetting, CheckRate, CountAttempt, AcquireLock, GiveUp, store, Rows, IInv, TypeOK
  <1>b. UNCHANGED lock /\ (\A g \in Handlers : Tame(g)) /\ (\A q \in Pages : Mild(q)) => Rest'
    BY <1>a, TameStep DEF Rest
  <1>c. ASSUME Refuse(h), UNCHANGED lock PROVE Rest'
    BY <1>a, <1>b, <1>c, RefuseTame
  <1>1. CASE CheckSetting(h)
    <2>1. CASE Refuse(h)
      BY <1>1, <1>c, <2>1 DEF CheckSetting
    <2>2. CASE r.at \in on /\ Go(h, [r EXCEPT !.at = Following[r.at]]) /\ UNCHANGED page
      <3>1. PICK q : q = [r EXCEPT !.at = Following[r.at]]
        OBVIOUS
      <3>2. /\ q.shut = r.shut /\ q.late = r.late /\ q.order = r.order
            /\ q.ok = r.ok /\ q.mobile = r.mobile /\ q.at = Following[r.at]
        BY <3>1, <1>a DEF Request
      <3>3. /\ q.at \notin Section
            /\ Passed(q.at) \subseteq Passed(r.at) \cup {r.at}
        BY <1>1, <3>2 DEF CheckSetting, Following, Settings, Section, Passed
      <3>4. request' = [request EXCEPT ![h] = q]
        BY <2>2, <3>1 DEF Go
      <3>5. ShutOK'
        BY <1>a, <2>2, <3>2, <3>3, <3>4 DEF IInv, ShutOK
      <3>6. LockOK'
        BY <1>1, <1>a, <3>2, <3>3, <3>4 DEF IInv, LockOK, InSection, CheckSetting
      <3>7. /\ \A k \in Handlers : RequestOK(request[k])'
            /\ \A k \in Handlers : request'[k].order = request[k].order
        <4>1. r.at # "release"
          BY <1>1 DEF CheckSetting, Settings
        <4>2. QED BY <1>a, <3>2, <3>3, <3>4, <4>1 DEF KnownOK, RequestOK, Rows, Section
      <3>8. ApartOK'
        BY <2>2, <3>7 DEF IInv, ApartOK, Apart
      <3>9. KnownOK' /\ MoneyHasOrder'
        BY <1>a, <2>2, <3>7 DEF IInv, KnownOK, PageOK, MoneyHasOrder, Rows
      <3>10. QED BY <3>5, <3>6, <3>8, <3>9 DEF Rest
    <2>3. QED BY <1>1, <2>1, <2>2 DEF CheckSetting
  <1>2. CASE CheckRate(h)
    <2>1. PICK seen \in {0, attempts} :
            IF seen > RateLimit THEN Refuse(h)
              ELSE Go(h, [r EXCEPT !.at = "count", !.seen = seen]) /\ UNCHANGED page
      BY <1>2 DEF CheckRate
    <2>2. PICK q : q = [r EXCEPT !.at = "count", !.seen = seen]
      OBVIOUS
    <2>3. /\ q.shut = r.shut /\ q.late = r.late /\ q.order = r.order
          /\ q.ok = r.ok /\ q.mobile = r.mobile /\ q.at = "count"
      BY <2>2, <1>a DEF Request
    <2>4. Refuse(h) \/ (Go(h, q) /\ UNCHANGED page)
      BY <2>1, <2>2
    <2>5. QED BY <1>2, <1>a, <1>b, <1>c, <2>3, <2>4, OneRequest, SamePages DEF CheckRate
  <1>3. CASE CountAttempt(h)
    <2>2. PICK q : q = [r EXCEPT !.at = "lock", !.seen = 0]
      OBVIOUS
    <2>3. /\ q.shut = r.shut /\ q.late = r.late /\ q.order = r.order
          /\ q.ok = r.ok /\ q.mobile = r.mobile /\ q.at = "lock"
      BY <2>2, <1>a DEF Request
    <2>4. Go(h, q)
      BY <1>3, <2>2 DEF CountAttempt
    <2>5. QED BY <1>3, <1>a, <1>b, <2>3, <2>4, OneRequest, SamePages DEF CountAttempt
  <1>4. CASE AcquireLock(h)
    <2>1. CASE Refuse(h) /\ UNCHANGED lock
      BY <1>c, <2>1
    <2>2. CASE /\ lock[r.mobile] = Nobody
               /\ lock' = [lock EXCEPT ![r.mobile] = h]
               /\ Go(h, [r EXCEPT !.at = "gateway"]) /\ UNCHANGED page
      <3>1. PICK q : q = [r EXCEPT !.at = "gateway"]
        OBVIOUS
      <3>2. /\ q.shut = r.shut /\ q.late = r.late /\ q.order = r.order
            /\ q.ok = r.ok /\ q.mobile = r.mobile /\ q.at = "gateway"
        BY <3>1, <1>a DEF Request
      <3>3. request' = [request EXCEPT ![h] = q]
        BY <2>2, <3>1 DEF Go
      <3>4. r.at = "lock" /\ Passed(r.at) = Settings
        BY <1>4 DEF AcquireLock, Passed
      <3>5. ShutOK'
        BY <1>a, <3>2, <3>3, <3>4 DEF IInv, ShutOK, Passed
      <3>6. LockOK'
        <4>1. r.mobile \in Mobiles /\ lock \in [Mobiles -> Handlers \cup {Nobody}]
          BY <1>a DEF Request, TypeOK
        <4>2. QED BY <1>a, <2>2, <3>2, <3>3, <4>1 DEF IInv, LockOK, InSection, TypeOK, Request
      <3>7. /\ \A k \in Handlers : RequestOK(request[k])'
            /\ \A k \in Handlers : request'[k].order = request[k].order
        BY <1>a, <3>2, <3>3, <3>4 DEF KnownOK, RequestOK, Rows
      <3>8. ApartOK'
        BY <2>2, <3>7 DEF IInv, ApartOK, Apart
      <3>9. KnownOK' /\ MoneyHasOrder'
        BY <1>a, <2>2, <3>7 DEF IInv, KnownOK, PageOK, MoneyHasOrder, Rows
      <3>10. QED BY <3>5, <3>6, <3>8, <3>9 DEF Rest
    <2>3. QED BY <1>4, <2>1, <2>2 DEF AcquireLock
  <1>5. CASE GiveUp(h)
    <2>1. Go(h, Leaving(r, FALSE))
      BY <1>5 DEF GiveUp
    <2>2. \A g \in Handlers : Tame(g)
      BY <1>5, <1>a, <2>1, LeavingShape, OneRequest DEF GiveUp
    <2>3. QED BY <1>5, <1>a, <1>b, <2>2, SamePages DEF GiveUp
  <1>6. QED BY <1>1, <1>2, <1>3, <1>4, <1>5

(* A fresh order is nobody else's. *)
LEMMA FreshOrder ==
  ASSUME IInv, NEW o \in Orders, Unused(o)
  PROVE  /\ \A h \in Handlers : request[h].order # o
         /\ \A p \in Pages : page[p].order # o
  BY DEF IInv, KnownOK, RequestOK, PageOK, Unused

(* Request h goes on to q inside the section, with its lock. *)
LEMMA InsideLock ==
  ASSUME IInv, NEW h \in Handlers, NEW q, Go(h, q), UNCHANGED <<on, lock>>,
         request[h].at \in {"gateway", "insert"},
         q.at \in Section, q.late = request[h].late, q.mobile = request[h].mobile,
         q.shut = request[h].shut
  PROVE  ShutOK' /\ LockOK'
  <1>1. request' = [request EXCEPT ![h] = q] /\ request \in [Handlers -> Request]
    BY DEF Go, IInv, TypeOK
  <1>2. InSection(h) /\ Passed(request[h].at) = Settings /\ Passed(q.at) = Settings
    BY DEF InSection, Section, Passed
  <1>3. QED BY <1>1, <1>2 DEF IInv, ShutOK, LockOK, InSection

LEMMA CreateRest ==
  ASSUME IInv, NEW h \in Handlers, NEW o \in Orders,
         CreateTestOrder(h, o) \/ CreateGatewayOrder(h, o)
  PROVE  Rest'
  <1> DEFINE r == request[h]
  <1>a. /\ TypeOK /\ r \in Request /\ r.at = "gateway" /\ Unused(o)
        /\ UNCHANGED <<on, lock, testMode, page>>
        /\ request \in [Handlers -> Request]
        /\ row \in [Orders -> {"none", "PENDING", "PAID"}]
        /\ gateway \in [Orders -> {"none", "created", "attempted", "captured"}]
    BY DEF CreateTestOrder, CreateGatewayOrder, store, IInv, TypeOK
  <1>b. /\ \A k \in Handlers : request[k].order # o
        /\ \A p \in Pages : page[p].order # o
    BY <1>a, FreshOrder
  <1>1. CASE CreateTestOrder(h, o)
    <2>1. PICK q : q = Leaving([r EXCEPT !.order = o], TRUE)
      OBVIOUS
    <2>2. /\ q.at = "release" /\ q.ok /\ q.order = o /\ q.mobile = r.mobile
          /\ q.late = r.late /\ q.shut = r.shut
      BY <1>a, <2>1 DEF Leaving, Request
    <2>3. Go(h, q) /\ request' = [request EXCEPT ![h] = q]
      BY <1>1, <2>1 DEF CreateTestOrder, Go
    <2>4. ShutOK' /\ LockOK'
      BY <1>a, <2>2, <2>3, InsideLock DEF Section
    <2>5. ApartOK'
      BY <1>a, <1>b, <2>2, <2>3 DEF IInv, ApartOK, Apart
    <2>6. /\ row' = [row EXCEPT ![o] = "PAID"] /\ UNCHANGED gateway /\ testMode
      BY <1>1 DEF CreateTestOrder
    <2>7. ASSUME NEW k \in Handlers PROVE RequestOK(request[k])'
      <3>1. CASE k = h
        BY <1>a, <2>2, <2>3, <2>6, <3>1 DEF RequestOK, Unused
      <3>2. CASE k # h
        BY <1>a, <1>b, <2>3, <2>6, <3>2 DEF IInv, KnownOK, RequestOK
      <3>3. QED BY <3>1, <3>2
    <2>8. ASSUME NEW p \in Pages PROVE PageOK(page[p])'
      BY <1>a, <1>b, <2>6 DEF IInv, KnownOK, PageOK
    <2>9. MoneyHasOrder'
      BY <1>a, <2>6 DEF IInv, MoneyHasOrder
    <2>10. QED BY <2>4, <2>5, <2>7, <2>8, <2>9 DEF Rest, KnownOK
  <1>2. CASE CreateGatewayOrder(h, o)
    <2>1. PICK f : f = [r EXCEPT !.at = "insert", !.order = o]
      OBVIOUS
    <2>2. PICK q : (q = f \/ q = Leaving(r, FALSE)) /\ Go(h, q)
      BY <1>2, <2>1 DEF CreateGatewayOrder
    <2>3. /\ q.at \in {"insert", "release"} /\ q.mobile = r.mobile /\ q.late = r.late
          /\ q.shut = r.shut /\ q.order \in {o, r.order}
          /\ q.at = "insert" => q.order = o
          /\ ~q.ok
      <3>1. ~r.ok
        BY <1>a DEF IInv, KnownOK, RequestOK
      <3>2. CASE q = f
        BY <1>a, <2>1, <3>1, <3>2 DEF Request
      <3>3. CASE q = Leaving(r, FALSE)
        BY <1>a, <3>3, LeavingShape
      <3>4. QED BY <2>2, <3>2, <3>3
    <2>4. request' = [request EXCEPT ![h] = q]
      BY <2>2 DEF Go
    <2>5. ShutOK' /\ LockOK'
      BY <1>a, <2>2, <2>3, InsideLock DEF Section
    <2>6. ApartOK'
      BY <1>a, <1>b, <2>3, <2>4 DEF IInv, ApartOK, Apart
    <2>7. /\ gateway' = [gateway EXCEPT ![o] = "created"] /\ UNCHANGED row /\ ~testMode
      BY <1>2 DEF CreateGatewayOrder
    <2>8. ASSUME NEW k \in Handlers PROVE RequestOK(request[k])'
      <3>1. CASE k # h
        BY <1>a, <1>b, <2>4, <2>7, <3>1 DEF IInv, KnownOK, RequestOK
      <3>2. CASE k = h
        BY <1>a, <1>b, <2>3, <2>4, <2>7, <3>2 DEF IInv, KnownOK, RequestOK
      <3>3. QED BY <3>1, <3>2
    <2>9. ASSUME NEW p \in Pages PROVE PageOK(page[p])'
      BY <1>a, <1>b, <2>7 DEF IInv, KnownOK, PageOK
    <2>10. MoneyHasOrder'
      BY <1>a, <2>7 DEF IInv, MoneyHasOrder
    <2>11. QED BY <2>5, <2>6, <2>8, <2>9, <2>10 DEF Rest, KnownOK
  <1>3. QED BY <1>1, <1>2

LEMMA InsertRest ==
  ASSUME IInv, NEW h \in Handlers, InsertOrder(h)
  PROVE  Rest'
  <1> DEFINE r == request[h]
  <1>a. /\ r \in Request /\ r.at = "insert" /\ UNCHANGED <<on, lock, testMode, page, gateway>>
        /\ request \in [Handlers -> Request] /\ RequestOK(r)
        /\ row \in [Orders -> {"none", "PENDING", "PAID"}]
    BY DEF InsertOrder, store, IInv, TypeOK, KnownOK
  <1>b. r.order \in Orders /\ ~testMode /\ r.order # Nobody
    BY <1>a DEF RequestOK, Request
  <1>1. PICK q : q = Leaving(r, TRUE)
    OBVIOUS
  <1>2. /\ q.at = "release" /\ q.ok /\ q.order = r.order /\ q.mobile = r.mobile
        /\ q.late = r.late /\ q.shut = r.shut
    BY <1>a, <1>1, LeavingShape
  <1>3. Go(h, q) /\ request' = [request EXCEPT ![h] = q]
    BY <1>1 DEF InsertOrder, Go
  <1>4. row' = [row EXCEPT ![r.order] = "PENDING"]
    BY DEF InsertOrder
  <1>5. ShutOK' /\ LockOK'
    BY <1>a, <1>2, <1>3, InsideLock DEF Section
  <1>6. ApartOK'
    BY <1>a, <1>2, <1>3 DEF IInv, ApartOK, Apart
  <1>7. ASSUME NEW k \in Handlers PROVE RequestOK(request[k])'
    <2>1. CASE k = h
      BY <1>a, <1>b, <1>2, <1>3, <1>4, <2>1 DEF RequestOK
    <2>2. CASE k # h
      <3>1. request[k].order # r.order
        BY <1>b, <2>2 DEF IInv, ApartOK, Apart
      <3>2. QED BY <1>a, <1>3, <1>4, <2>2, <3>1 DEF IInv, KnownOK, RequestOK
    <2>3. QED BY <2>1, <2>2
  <1>8. ASSUME NEW p \in Pages PROVE PageOK(page[p])'
    <2>1. page[p].order # r.order
      BY <1>b DEF IInv, ApartOK, Apart
    <2>2. QED BY <1>a, <1>4, <2>1 DEF IInv, KnownOK, PageOK
  <1>9. MoneyHasOrder'
    BY <1>a, <1>4 DEF IInv, MoneyHasOrder
  <1>10. QED BY <1>5, <1>6, <1>7, <1>8, <1>9 DEF Rest, KnownOK

(* The release frees nobody else's lock, and the page gets its order. *)
LEMMA AnswerRest ==
  ASSUME IInv, NEW h \in Handlers, Answer(h)
  PROVE  Rest'
  <1> DEFINE r == request[h]
  <1>a. /\ r \in Request /\ r.at = "release" /\ UNCHANGED <<on, Rows>>
        /\ request \in [Handlers -> Request] /\ RequestOK(r)
        /\ page \in [Pages -> Page]
        /\ lock \in [Mobiles -> Handlers \cup {Nobody}]
    BY DEF Answer, store, IInv, TypeOK, KnownOK, Rows
  <1>1. request' = [request EXCEPT ![h] = Idle]
    BY DEF Answer, Finish, Go
  <1>2. \A g \in Handlers : Tame(g)
    BY <1>a, <1>1 DEF Tame
  <1>3. ShutOK'
    BY <1>a, <1>2, TameShut DEF IInv, ShutOK
  <1>4. LockOK'
    <2>1. r.mobile \in Mobiles /\ \A g \in Handlers : request[g].mobile \in Mobiles
      BY <1>a DEF Request
    <2>2. \A m \in Mobiles : lock[m] # h => lock'[m] = lock[m]
      BY <1>a, <2>1 DEF Answer, ReleaseLock
    <2>3. QED BY <1>a, <1>1, <2>1, <2>2, IdleShape DEF IInv, LockOK, InSection, Section
  <1>5. ASSUME NEW p \in Pages
        PROVE  /\ PageOK(page'[p])
               /\ \/ page'[p].order = page[p].order
                  \/ r.page = p /\ page'[p].order = r.order
    <2>1. CASE r.page # p
      BY <2>1, <1>a DEF Answer, IInv, KnownOK
    <2>2. CASE r.page = p /\ ~r.ok
      <3>1. page'[p] = Stay(p)
        BY <2>2 DEF Answer, Received
      <3>2. QED BY <3>1, <1>a, StayOK, StayShape DEF IInv
    <2>3. CASE r.page = p /\ r.ok
      <3>1. PICK at : at = IF testMode THEN "confirmed" ELSE "opening"
        OBVIOUS
      <3>2. PICK g : g = [page[p] EXCEPT !.order = r.order, !.at = at]
        OBVIOUS
      <3>3. page'[p] = g
        BY <2>3, <3>1, <3>2 DEF Answer, Received
      <3>4. /\ g.order = r.order /\ g.at = at /\ g.notice = page[p].notice
        BY <1>a, <3>2 DEF Page
      <3>5. page[p].notice # "notLoaded"
        BY <1>a, <2>3 DEF IInv, ReplyOK, KnownOK, PageOK
      <3>6. PageOK(g)
        BY <1>a, <2>3, <3>1, <3>4, <3>5 DEF RequestOK, PageOK
      <3>7. QED BY <2>3, <3>3, <3>4, <3>6
    <2>4. QED BY <2>1, <2>2, <2>3
  <1>6. ApartOK'
    BY <1>a, <1>1, <1>5, IdleShape DEF IInv, ApartOK, Apart
  <1>7. KnownOK'
    <2>1. \A g \in Handlers : RequestOK(request[g])'
      BY <1>a, <1>2, TameRequest DEF IInv
    <2>2. \A p \in Pages : PageOK(page[p])'
      BY <1>a, <1>5 DEF PageOK, Rows
    <2>3. QED BY <2>1, <2>2 DEF KnownOK
  <1>8. MoneyHasOrder'
    BY <1>a DEF IInv, MoneyHasOrder, Rows
  <1>9. QED BY <1>3, <1>4, <1>6, <1>7, <1>8 DEF Rest

LEMMA OtherRest ==
  ASSUME IInv,
         \/ \E s \in Settings : Toggle(s)
         \/ \E m \in Mobiles : Expire(m)
         \/ \E o \in Orders : Decline(o) \/ Capture(o) \/ Confirm(o)
         \/ \E h \in Handlers : Crash(h)
         \/ ExpireAttempts \/ UNCHANGED vars
  PROVE  Rest'
  <1>a. /\ request \in [Handlers -> Request] /\ page \in [Pages -> Page]
        /\ row \in [Orders -> {"none", "PENDING", "PAID"}]
        /\ gateway \in [Orders -> {"none", "created", "attempted", "captured"}]
    BY DEF IInv, TypeOK
  <1>1. ASSUME NEW s \in Settings, Toggle(s) PROVE Rest'
    <2>1. \A h \in Handlers :
            /\ request'[h].at = request[h].at /\ request'[h].order = request[h].order
            /\ request'[h].ok = request[h].ok /\ request'[h].mobile = request[h].mobile
            /\ request'[h].late = request[h].late
            /\ request'[h].shut = request[h].shut \ on'
      BY <1>a, <1>1 DEF Toggle, Request
    <2>3. ShutOK'
      BY <1>1, <2>1 DEF IInv, ShutOK, Toggle
    <2>4. LockOK' /\ ApartOK' /\ MoneyHasOrder'
      BY <1>1, <2>1 DEF IInv, LockOK, ApartOK, Apart, MoneyHasOrder, InSection, Toggle
    <2>5. KnownOK'
      BY <1>1, <2>1 DEF IInv, KnownOK, RequestOK, PageOK, Toggle
    <2>6. QED BY <2>3, <2>4, <2>5 DEF Rest
  <1>2. ASSUME NEW m \in Mobiles, Expire(m) PROVE Rest'
    <2>1. ASSUME NEW h \in Handlers
          PROVE
            /\ request'[h].at = request[h].at /\ request'[h].order = request[h].order
            /\ request'[h].ok = request[h].ok /\ request'[h].mobile = request[h].mobile
            /\ request'[h].shut = request[h].shut
            /\ request'[h].late = request[h].late
                 \/ (request'[h].late /\ InSection(h))
            /\ InSection(h) /\ h = lock[m] /\ request[h].mobile = m => request'[h].late
      <3>1. request[h] \in Request
        BY <1>a
      <3>2. CASE h = lock[m] /\ InSection(h) /\ request[h].mobile = m
        <4>1. request'[h] = [request[h] EXCEPT !.late = TRUE]
          BY <1>2, <3>2 DEF Expire
        <4>2. QED BY <3>1, <3>2, <4>1 DEF Request
      <3>3. CASE ~(h = lock[m] /\ InSection(h) /\ request[h].mobile = m)
        <4>1. request'[h] = request[h]
          BY <1>2, <3>3 DEF Expire
        <4>2. QED BY <3>3, <4>1
      <3>4. QED BY <3>2, <3>3
    <2>2. ShutOK' /\ ApartOK' /\ MoneyHasOrder'
      BY <1>2, <2>1 DEF IInv, ShutOK, ApartOK, Apart, MoneyHasOrder, Expire, store
    <2>3. LockOK'
      <3>1. ASSUME NEW h \in Handlers, InSection(h)', ~request'[h].late
            PROVE  lock'[request'[h].mobile] = h
        <4>1. InSection(h) /\ ~request[h].late /\ lock[request[h].mobile] = h
          BY <2>1, <3>1 DEF IInv, LockOK, InSection
        <4>2. request[h].mobile # m
          BY <2>1, <3>1, <4>1
        <4>3. lock'[request[h].mobile] = lock[request[h].mobile]
          BY <1>2, <1>a, <4>2 DEF Expire, IInv, TypeOK, Request
        <4>4. QED BY <2>1, <4>1, <4>3
      <3>2. QED BY <3>1 DEF LockOK
    <2>4. KnownOK'
      BY <1>2, <2>1 DEF IInv, KnownOK, RequestOK, PageOK, Expire, store
    <2>5. QED BY <2>2, <2>3, <2>4 DEF Rest
  <1>3. ASSUME NEW o \in Orders, Decline(o) PROVE Rest'
    <2>1. \A p \in Pages : /\ page'[p].at = page[p].at /\ page'[p].order = page[p].order
                           /\ page'[p].notice = "notLoaded" => page[p].notice = "notLoaded"
      BY <1>a, <1>3 DEF Decline, Page
    <2>2. gateway' = [gateway EXCEPT ![o] = "created"] /\ gateway[o] = "attempted"
      BY <1>3 DEF Decline
    <2>3. ShutOK' /\ LockOK' /\ ApartOK'
      BY <1>3, <2>1 DEF IInv, ShutOK, LockOK, ApartOK, Apart, InSection, Decline, store
    <2>4. \A h \in Handlers : RequestOK(request[h])'
      BY <1>3, <1>a, <2>2 DEF IInv, KnownOK, RequestOK, Decline, store
    <2>5. \A p \in Pages : PageOK(page[p])'
      BY <1>3, <1>a, <2>1, <2>2 DEF IInv, KnownOK, PageOK, Decline, Page
    <2>6. MoneyHasOrder'
      BY <1>3, <1>a, <2>2 DEF IInv, MoneyHasOrder, Decline
    <2>7. QED BY <2>3, <2>4, <2>5, <2>6 DEF Rest, KnownOK
  <1>4. ASSUME NEW o \in Orders, Capture(o) PROVE Rest'
    <2>1. gateway' = [gateway EXCEPT ![o] = "captured"] /\ gateway[o] = "attempted"
      BY <1>4 DEF Capture
    <2>2. ShutOK' /\ LockOK' /\ ApartOK'
      BY <1>4 DEF IInv, ShutOK, LockOK, ApartOK, Apart, InSection, Capture, store
    <2>3. \A h \in Handlers : RequestOK(request[h])'
      BY <1>4, <1>a, <2>1 DEF IInv, KnownOK, RequestOK, Capture, store
    <2>4. \A p \in Pages : PageOK(page[p])'
      BY <1>4, <1>a, <2>1 DEF IInv, KnownOK, PageOK, Capture, Page
    <2>5. MoneyHasOrder'
      BY <1>4, <1>a, <2>1 DEF IInv, MoneyHasOrder, Capture
    <2>6. QED BY <2>2, <2>3, <2>4, <2>5 DEF Rest, KnownOK
  <1>5. ASSUME NEW o \in Orders, Confirm(o) PROVE Rest'
    <2>1. row' = [row EXCEPT ![o] = "PAID"] /\ row[o] = "PENDING" /\ gateway[o] = "captured"
      BY <1>5 DEF Confirm
    <2>2. ShutOK' /\ LockOK' /\ ApartOK'
      BY <1>5 DEF IInv, ShutOK, LockOK, ApartOK, Apart, InSection, Confirm, store
    <2>3. \A h \in Handlers : RequestOK(request[h])'
      BY <1>5, <1>a, <2>1 DEF IInv, KnownOK, RequestOK, Confirm, store
    <2>4. \A p \in Pages : PageOK(page[p])'
      BY <1>5, <1>a, <2>1 DEF IInv, KnownOK, PageOK, Confirm, Page
    <2>5. MoneyHasOrder'
      BY <1>5, <1>a, <2>1 DEF IInv, MoneyHasOrder, Confirm
    <2>6. QED BY <2>2, <2>3, <2>4, <2>5 DEF Rest, KnownOK
  <1>6. ASSUME NEW h \in Handlers, Crash(h) PROVE Rest'
    <2>1. UNCHANGED <<on, lock, Rows>>
      BY <1>6 DEF Crash, store, Rows
    <2>2. QED BY <1>6, <2>1, RefuseTame, TameStep DEF Crash, Rest, IInv
  <1>7. CASE ExpireAttempts \/ UNCHANGED vars
    <2>1. UNCHANGED <<on, lock, Rows, request, page>>
      BY <1>7 DEF ExpireAttempts, vars, Rows
    <2>2. QED BY <2>1, SameRequests, SamePages, TameStep DEF Rest, IInv
  <1>8. QED BY <1>1, <1>2, <1>3, <1>4, <1>5, <1>6, <1>7

-----------------------------------------------------------------------------
(* Which request answers which page *)

(* A waiting page stops waiting only when no request answers it any more. *)
LEMMA ReplyKept ==
  ASSUME IInv, request' \in [Handlers -> Request],
         \A h \in Handlers : request'[h].page \in {Nobody, request[h].page},
         \A p \in Pages : \/ page'[p].at = page[p].at \/ page[p].at # "submitting"
                          \/ \A h \in Handlers : request'[h].page # p
  PROVE  ReplyOK'
  <1>1. \A h \in Handlers : request'[h].page \in Pages \cup {Nobody}
    BY DEF Request
  <1>2. QED BY <1>1 DEF IInv, ReplyOK

LEMMA ReplyStep ==
  ASSUME IInv, [Next]_vars, TypeOK'
  PROVE  ReplyOK'
  <1>a. /\ request \in [Handlers -> Request] /\ page \in [Pages -> Page]
        /\ request' \in [Handlers -> Request] /\ page' \in [Pages -> Page]
    BY DEF IInv, TypeOK
  <1>b. ASSUME UNCHANGED request,
               \A p \in Pages : page'[p].at = page[p].at \/ page[p].at # "submitting"
        PROVE  ReplyOK'
    BY <1>a, <1>b, ReplyKept
  <1>c. ASSUME NEW h \in Handlers, request' = [request EXCEPT ![h] = request'[h]],
               request'[h].page \in {Nobody, request[h].page}, UNCHANGED page
        PROVE  ReplyOK'
    BY <1>a, <1>c, ReplyKept
  <1>d. ASSUME NEW h \in Handlers, request' = [request EXCEPT ![h] = Idle],
               \A p \in Pages : p # request[h].page => page'[p] = page[p]
        PROVE  ReplyOK'
    <2>1. \A g \in Handlers : request'[g].page \in {Nobody, request[g].page}
      BY <1>a, <1>d, IdleShape
    <2>2. ASSUME NEW p \in Pages, p = request[h].page, NEW g \in Handlers
          PROVE  request'[g].page # p
      BY <1>a, <1>d, <2>2, IdleShape DEF IInv, ReplyOK
    <2>3. QED BY <1>a, <1>d, <2>1, <2>2, ReplyKept
  <1>e. ASSUME NEW h \in Handlers, Refuse(h) PROVE ReplyOK'
    BY <1>d, <1>e DEF Refuse, Finish, Go, Tell
  <1>f. ASSUME NEW p \in Pages, Leave(p), \A q \in Pages : q # p => page'[q] = page[q]
        PROVE  ReplyOK'
    <2>1. \A h \in Handlers : /\ request'[h].page \in {Nobody, request[h].page}
                              /\ request'[h].page # p
      BY <1>a, <1>f DEF Leave, Request
    <2>2. QED BY <1>a, <1>f, <2>1, ReplyKept
  <1>1. ASSUME NEW s \in Settings, Toggle(s) PROVE ReplyOK'
    <2>1. \A h \in Handlers : request'[h].page = request[h].page
      BY <1>1, <1>a DEF Toggle, Request
    <2>2. QED BY <1>1, <1>a, <2>1, ReplyKept DEF Toggle
  <1>2. ASSUME NEW p \in Pages, PageStep(p) PROVE ReplyOK'
    <2>1. CASE LoadConfig(p)
      BY <2>1, <1>a, <1>b DEF LoadConfig
    <2>2. CASE OpenCheckout(p)
      BY <2>2, <1>a, <1>b DEF OpenCheckout
    <2>3. CASE VerifyAnswered(p)
      BY <2>3, <1>a, <1>b DEF VerifyAnswered
    <2>4. CASE LoseAnswer(p)
      BY <2>4, <1>a, <1>f DEF LoseAnswer
    <2>5. CASE Reload(p)
      BY <2>5, <1>a, <1>f DEF Reload
    <2>6. CASE Dismiss(p)
      BY <2>6, <1>a, <1>b DEF Dismiss
    <2>7. CASE PaymentReturned(p)
      BY <2>7, <1>a, <1>b DEF PaymentReturned
    <2>8. CASE Attempt(p)
      BY <2>8, <1>a, <1>b DEF Attempt
    <2>9. ASSUME NEW h \in Handlers, Submit(p, h) PROVE ReplyOK'
      <3>1. PICK r : r = [Idle EXCEPT !.at = "bookPass", !.page = p, !.mobile = Mobile[p],
                                      !.shut = Settings \ on]
        OBVIOUS
      <3>2. r.page = p /\ request' = [request EXCEPT ![h] = r]
        BY <2>9, <3>1, IdleShape DEF Request, Submit, Go
      <3>3. page[p].at = "form" /\ page'[p].at = "submitting"
        BY <2>9, <1>a DEF Submit, MaySubmit, Page
      <3>4. \A q \in Pages : q # p => page'[q] = page[q]
        BY <2>9, <1>a DEF Submit
      <3>5. \A g \in Handlers : request[g].page # p /\ request[g].page \in Pages \cup {Nobody}
        BY <1>a, <3>3 DEF IInv, ReplyOK, Request
      <3>6. QED BY <1>a, <3>2, <3>3, <3>4, <3>5 DEF IInv, ReplyOK
    <2>10. QED BY <1>2, <2>1, <2>2, <2>3, <2>4, <2>5, <2>6, <2>7, <2>8, <2>9 DEF PageStep
  <1>3. ASSUME NEW h \in Handlers, Work(h) PROVE ReplyOK'
    <2>a. request[h] \in Request
      BY <1>a
    <2>1. CASE Refuse(h)
      BY <2>1, <1>e
    <2>2. CASE Answer(h)
      BY <2>2, <1>d DEF Answer, Finish, Go
    <2>3. CASE ~Refuse(h) /\ ~Answer(h)
      <3>1. UNCHANGED page
        BY <1>3, <2>3 DEF Work, Create, CheckSetting, CheckRate, CountAttempt, AcquireLock,
                          CreateTestOrder, CreateGatewayOrder, GiveUp, InsertOrder
      <3>2. CASE CheckSetting(h)
        BY <2>3, <3>1, <3>2, <2>a, <1>a, <1>c DEF CheckSetting, Go, Request
      <3>3. CASE CheckRate(h)
        <4>1. PICK seen : Go(h, [request[h] EXCEPT !.at = "count", !.seen = seen])
          BY <2>3, <3>3 DEF CheckRate
        <4>2. PICK q : q = [request[h] EXCEPT !.at = "count", !.seen = seen]
          OBVIOUS
        <4>3. q.page = request[h].page /\ request' = [request EXCEPT ![h] = q]
          BY <2>a, <4>1, <4>2 DEF Request, Go
        <4>4. QED BY <3>1, <1>a, <1>c, <4>3
      <3>4. CASE CountAttempt(h)
        BY <3>1, <3>4, <2>a, <1>a, <1>c DEF CountAttempt, Go, Request
      <3>5. CASE AcquireLock(h)
        BY <2>3, <3>1, <3>5, <2>a, <1>a, <1>c DEF AcquireLock, Go, Request
      <3>6. ASSUME NEW o \in Orders, CreateTestOrder(h, o) PROVE ReplyOK'
        BY <3>1, <3>6, <2>a, <1>a, <1>c DEF CreateTestOrder, Go, Leaving, Request
      <3>7. ASSUME NEW o \in Orders, CreateGatewayOrder(h, o) PROVE ReplyOK'
        <4>1. PICK f : f = [request[h] EXCEPT !.at = "insert", !.order = o]
          OBVIOUS
        <4>2. PICK q : (q = f \/ q = Leaving(request[h], FALSE)) /\ Go(h, q)
          BY <3>7, <4>1 DEF CreateGatewayOrder
        <4>3. q.page = request[h].page /\ request' = [request EXCEPT ![h] = q]
          <5>1. f.page = request[h].page
            BY <2>a, <4>1 DEF Request
          <5>2. Leaving(request[h], FALSE).page = request[h].page
            BY <2>a, LeavingShape
          <5>3. QED BY <4>2, <5>1, <5>2 DEF Go
        <4>4. QED BY <3>1, <1>a, <1>c, <4>3
      <3>8. CASE GiveUp(h)
        BY <3>1, <3>8, <2>a, <1>a, <1>c DEF GiveUp, Go, Leaving, Request
      <3>9. CASE InsertOrder(h)
        BY <3>1, <3>9, <2>a, <1>a, <1>c DEF InsertOrder, Go, Leaving, Request
      <3>10. QED BY <1>3, <2>3, <3>2, <3>3, <3>4, <3>5, <3>6, <3>7, <3>8, <3>9 DEF Work, Create
    <2>4. QED BY <2>1, <2>2, <2>3
  <1>4. ASSUME NEW h \in Handlers, Crash(h) PROVE ReplyOK'
    BY <1>4, <1>e DEF Crash
  <1>5. ASSUME NEW m \in Mobiles, Expire(m) PROVE ReplyOK'
    <2>1. \A h \in Handlers : request'[h].page = request[h].page
      BY <1>5, <1>a DEF Expire, Request
    <2>2. QED BY <1>5, <1>a, <2>1, ReplyKept DEF Expire
  <1>6. ASSUME NEW o \in Orders, Decline(o) \/ Capture(o) \/ Confirm(o) PROVE ReplyOK'
    BY <1>6, <1>a, <1>b DEF Decline, Capture, Confirm, Page
  <1>7. CASE ExpireAttempts \/ UNCHANGED vars
    BY <1>7, <1>b DEF ExpireAttempts, vars
  <1>8. QED BY <1>1, <1>2, <1>3, <1>4, <1>5, <1>6, <1>7 DEF Next

-----------------------------------------------------------------------------
(* The theorems *)

LEMMA Start == Init => IInv
  <1> SUFFICES ASSUME Init PROVE IInv
    OBVIOUS
  <1>1. /\ \A h \in Handlers : request[h] = Idle
        /\ \A p \in Pages : page[p] = Fresh
        /\ request \in [Handlers -> Request] /\ page \in [Pages -> Page]
    BY IdleShape, FreshShape DEF Init
  <1>2. TypeOK
    BY <1>1 DEF Init, TypeOK, Settings
  <1>3. ShutOK /\ LockOK /\ ReplyOK
    BY <1>1, IdleShape DEF ShutOK, LockOK, InSection, Section, ReplyOK
  <1>4. ApartOK /\ KnownOK
    BY <1>1, IdleShape, FreshShape DEF ApartOK, Apart, KnownOK, RequestOK, PageOK
  <1>5. MoneyHasOrder
    BY DEF Init, MoneyHasOrder
  <1>6. QED BY <1>2, <1>3, <1>4, <1>5 DEF IInv

LEMMA Step == IInv /\ [Next]_vars => IInv'
  <1> SUFFICES ASSUME IInv, [Next]_vars PROVE IInv'
    OBVIOUS
  <1>1. TypeOK'
    BY TypeStep DEF IInv
  <1>2. ReplyOK'
    BY <1>1, ReplyStep
  <1>3. Rest'
    <2>1. ASSUME NEW p \in Pages, PageStep(p) PROVE Rest'
      BY <2>1, PageRest, SubmitRest, AttemptRest
    <2>2. ASSUME NEW h \in Handlers, Work(h) PROVE Rest'
      BY <2>2, CheckRest, CreateRest, InsertRest, AnswerRest DEF Work, Create
    <2>3. QED BY <2>1, <2>2, OtherRest DEF Next
  <1>4. QED BY <1>1, <1>2, <1>3 DEF IInv, Rest

THEOREM Invariant == Spec => []IInv
  BY Start, Step, PTL DEF Spec

(* The counter of attempts never passes the limit by more than one, and    *)
(* every request, page and row keeps its shape.                            *)
THEOREM TypeCorrect == Spec => []TypeOK
  <1>1. IInv => TypeOK
    BY DEF IInv
  <1>2. QED BY <1>1, Invariant, PTL

(* Money is only attempted or taken for an order in the database.          *)
THEOREM MoneyAlwaysHasOrder == Spec => []MoneyHasOrder
  <1>1. IInv => MoneyHasOrder
    BY DEF IInv
  <1>2. QED BY <1>1, Invariant, PTL

(* Two requests are in one number's section together only if its lock ran  *)
(* out under one of them.                                                  *)
THEOREM AlwaysOneCreationPerMobile == Spec => []OneCreationPerMobile
  <1>1. IInv => OneCreationPerMobile
    BY DEF IInv, LockOK, OneCreationPerMobile
  <1>2. QED BY <1>1, Invariant, PTL

(* A request that came in while booking was closed begins no order.        *)
THEOREM ClosedAlwaysMeansClosed == Spec => []ClosedMeansClosed
  <1>1. ASSUME IInv, NEW h \in Handlers, InSection(h) PROVE request[h].shut = {}
    <2>1. Passed(request[h].at) = Settings
      BY <1>1 DEF InSection, Section, Passed
    <2>2. QED BY <1>1, <2>1 DEF IInv, ShutOK
  <1>2. IInv => ClosedMeansClosed
    BY <1>1 DEF ClosedMeansClosed
  <1>3. QED BY <1>2, Invariant, PTL

(* A page never shows a confirmation of an unpaid order, nor denies a      *)
(* payment that was tried.                                                 *)
THEOREM PageAlwaysTellsTruth == Spec => []PageTellsTruth
  <1>1. IInv => PageTellsTruth
    BY DEF IInv, KnownOK, PageOK, PageTellsTruth
  <1>2. QED BY <1>1, Invariant, PTL

-----------------------------------------------------------------------------
(* Booking implements PublicOrder.  Besides IInv this needs that the order *)
(* a request is about to write is still nobody's row: else its INSERT      *)
(* would place a number twice, or turn a paid order back to PENDING.       *)

Unwritten(h) == request[h].at = "insert" => row[request[h].order] = "none"

PlaceInv == testMode \in TestModes /\ \A h \in Handlers : Unwritten(h)

Money == [o \in Orders |-> gateway[o] = "captured"]

PlaceStep == PlaceInv' /\ (UNCHANGED <<row, Money>> \/ Public!Next)

(* No request comes to the insertion, or changes its order there. *)
Steady(h) == request'[h].at = "insert" => /\ request[h].at = "insert"
                                          /\ request'[h].order = request[h].order

LEMMA SteadyStep ==
  ASSUME PlaceInv, UNCHANGED <<row, testMode>>, \A h \in Handlers : Steady(h),
         \A o \in Orders : gateway'[o] = "captured" <=> gateway[o] = "captured"
  PROVE  PlaceStep
  <1>1. PlaceInv'
    BY DEF PlaceInv, Unwritten, Steady
  <1>2. UNCHANGED Money
    BY DEF Money
  <1>3. QED BY <1>1, <1>2 DEF PlaceStep

(* Only request h moves, and not to the insertion. *)
LEMMA GoSteady ==
  ASSUME TypeOK, NEW h \in Handlers, NEW r, Go(h, r), r.at # "insert"
  PROVE  \A g \in Handlers : Steady(g)
  BY DEF TypeOK, Go, Steady

LEMMA LeaveSteady ==
  ASSUME TypeOK, NEW p \in Pages, Leave(p)
  PROVE  \A g \in Handlers : Steady(g)
  BY DEF TypeOK, Leave, Steady, Request

LEMMA FinishSteady ==
  ASSUME TypeOK, NEW h \in Handlers, Finish(h)
  PROVE  \A g \in Handlers : Steady(g)
  BY IdleShape, GoSteady DEF Finish

LEMMA PagePlace ==
  ASSUME IInv, PlaceInv, NEW p \in Pages, PageStep(p)
  PROVE  PlaceStep
  <1>a. TypeOK /\ gateway \in [Orders -> {"none", "created", "attempted", "captured"}]
    BY DEF IInv, TypeOK
  <1>1. UNCHANGED <<row, testMode>>
    BY DEF PageStep, LoadConfig, OpenCheckout, VerifyAnswered, LoseAnswer, Reload, Dismiss,
           PaymentReturned, Attempt, Submit, store
  <1>2. \A o \in Orders : gateway'[o] = "captured" <=> gateway[o] = "captured"
    <2>1. CASE Attempt(p)
      BY <1>a, <2>1 DEF Attempt
    <2>2. CASE ~Attempt(p)
      BY <2>2 DEF PageStep, LoadConfig, OpenCheckout, VerifyAnswered, LoseAnswer, Reload,
                  Dismiss, PaymentReturned, Submit
    <2>3. QED BY <2>1, <2>2
  <1>3. \A h \in Handlers : Steady(h)
    <2>1. CASE Leave(p)
      BY <1>a, <2>1, LeaveSteady
    <2>2. CASE UNCHANGED request
      BY <2>2 DEF Steady
    <2>3. ASSUME NEW g \in Handlers, Submit(p, g) PROVE \A h \in Handlers : Steady(h)
      <3>1. PICK r : /\ r = [Idle EXCEPT !.at = "bookPass", !.page = p, !.mobile = Mobile[p],
                                         !.shut = Settings \ on]
                     /\ Go(g, r)
        BY <2>3 DEF Submit
      <3>2. r.at = "bookPass"
        BY <3>1, IdleShape DEF Request
      <3>3. QED BY <1>a, <3>1, <3>2, GoSteady
    <2>4. QED BY <2>1, <2>2, <2>3 DEF PageStep, LoadConfig, OpenCheckout, VerifyAnswered,
                                      LoseAnswer, Reload, Dismiss, PaymentReturned, Attempt
  <1>4. QED BY <1>1, <1>2, <1>3, SteadyStep

(* What a request does by itself, but for writing an order. *)
LEMMA CheckPlace ==
  ASSUME IInv, PlaceInv, NEW h \in Handlers,
         \/ CheckSetting(h) \/ CheckRate(h) \/ CountAttempt(h) \/ AcquireLock(h)
         \/ GiveUp(h) \/ Answer(h) \/ Crash(h)
  PROVE  PlaceStep
  <1> DEFINE r == request[h]
  <1>a. TypeOK /\ r \in Request
    BY DEF IInv, TypeOK
  <1>1. UNCHANGED <<row, testMode, gateway>>
    BY DEF CheckSetting, CheckRate, CountAttempt, AcquireLock, GiveUp, Answer, Crash, store
  <1>2. CASE Finish(h)
    BY <1>a, <1>1, <1>2, FinishSteady, SteadyStep
  <1>3. ASSUME NEW q, Go(h, q), q.at # "insert" PROVE PlaceStep
    BY <1>a, <1>1, <1>3, GoSteady, SteadyStep
  <1>4. CASE CheckSetting(h) /\ ~Finish(h)
    <2>1. PICK q : q = [r EXCEPT !.at = Following[r.at]] /\ Go(h, q) /\ r.at \in Settings
      BY <1>4 DEF CheckSetting, Refuse
    <2>2. q.at # "insert"
      BY <1>a, <2>1 DEF Request, Following, Settings
    <2>3. QED BY <1>3, <2>1, <2>2
  <1>5. CASE CheckRate(h) /\ ~Finish(h)
    <2>1. PICK q, seen : q = [r EXCEPT !.at = "count", !.seen = seen] /\ Go(h, q)
      BY <1>5 DEF CheckRate, Refuse
    <2>2. q.at = "count"
      BY <1>a, <2>1 DEF Request
    <2>3. QED BY <1>3, <2>1, <2>2
  <1>6. CASE CountAttempt(h)
    <2>1. PICK q : q = [r EXCEPT !.at = "lock", !.seen = 0] /\ Go(h, q)
      BY <1>6 DEF CountAttempt
    <2>2. q.at = "lock"
      BY <1>a, <2>1 DEF Request
    <2>3. QED BY <1>3, <2>1, <2>2
  <1>7. CASE AcquireLock(h) /\ ~Finish(h)
    <2>1. PICK q : q = [r EXCEPT !.at = "gateway"] /\ Go(h, q)
      BY <1>7 DEF AcquireLock, Refuse
    <2>2. q.at = "gateway"
      BY <1>a, <2>1 DEF Request
    <2>3. QED BY <1>3, <2>1, <2>2
  <1>8. CASE GiveUp(h)
    BY <1>a, <1>3, <1>8, LeavingShape DEF GiveUp
  <1>9. CASE Answer(h) \/ Crash(h)
    BY <1>2, <1>9 DEF Answer, Crash, Refuse
  <1>10. QED BY <1>2, <1>4, <1>5, <1>6, <1>7, <1>8, <1>9

LEMMA CreatePlace ==
  ASSUME IInv, PlaceInv, NEW h \in Handlers, NEW o \in Orders,
         CreateTestOrder(h, o) \/ CreateGatewayOrder(h, o)
  PROVE  PlaceStep
  <1> DEFINE r == request[h]
  <1>a. /\ TypeOK /\ r \in Request /\ Unused(o) /\ UNCHANGED testMode
        /\ request \in [Handlers -> Request]
        /\ row \in [Orders -> {"none", "PENDING", "PAID"}]
        /\ gateway \in [Orders -> {"none", "created", "attempted", "captured"}]
    BY DEF CreateTestOrder, CreateGatewayOrder, store, IInv, TypeOK
  <1>b. \A k \in Handlers : request[k].order # o
    BY <1>a, FreshOrder
  <1>1. CASE CreateTestOrder(h, o)
    <2>1. PICK q : q = Leaving([r EXCEPT !.order = o], TRUE)
      OBVIOUS
    <2>2. q.at = "release"
      BY <1>a, <2>1 DEF Leaving, Request
    <2>3. \A g \in Handlers : Steady(g)
      BY <1>a, <1>1, <2>1, <2>2, GoSteady DEF CreateTestOrder
    <2>4. row' = [row EXCEPT ![o] = "PAID"] /\ UNCHANGED gateway /\ testMode
      BY <1>1 DEF CreateTestOrder
    <2>5. PlaceInv'
      <3>1. \A k \in Handlers : request[k].at = "insert" => request[k].order \in Orders
        BY DEF IInv, KnownOK, RequestOK, TypeOK, Request
      <3>2. QED BY <1>a, <1>b, <2>3, <2>4, <3>1 DEF PlaceInv, Unwritten, Steady
    <2>6. Public!PlaceTest(o)
      BY <1>a, <2>4 DEF Public!PlaceTest, Public!Move, Unused, PlaceInv
    <2>7. QED BY <2>5, <2>6 DEF PlaceStep, Public!Next
  <1>2. CASE CreateGatewayOrder(h, o)
    <2>1. PICK f : f = [r EXCEPT !.at = "insert", !.order = o]
      OBVIOUS
    <2>2. PICK q : (q = f \/ q = Leaving(r, FALSE)) /\ Go(h, q)
      BY <1>2, <2>1 DEF CreateGatewayOrder
    <2>3. q.at = "insert" => q.order = o
      BY <1>a, <2>1, <2>2, LeavingShape DEF Request
    <2>4. request' = [request EXCEPT ![h] = q]
      BY <2>2 DEF Go
    <2>5. gateway' = [gateway EXCEPT ![o] = "created"] /\ UNCHANGED row
      BY <1>2 DEF CreateGatewayOrder
    <2>6. PlaceInv'
      BY <1>a, <2>3, <2>4, <2>5 DEF PlaceInv, Unwritten, Unused
    <2>7. UNCHANGED Money
      BY <1>a, <2>5 DEF Money, Unused
    <2>8. QED BY <2>5, <2>6, <2>7 DEF PlaceStep
  <1>3. QED BY <1>1, <1>2

LEMMA InsertPlace ==
  ASSUME IInv, PlaceInv, NEW h \in Handlers, InsertOrder(h)
  PROVE  PlaceStep
  <1> DEFINE r == request[h]
  <1>a. /\ TypeOK /\ r \in Request /\ r.at = "insert" /\ RequestOK(r)
        /\ request \in [Handlers -> Request]
        /\ row \in [Orders -> {"none", "PENDING", "PAID"}]
        /\ UNCHANGED <<testMode, gateway>>
    BY DEF InsertOrder, IInv, TypeOK, KnownOK, store
  <1>1. PICK o \in Orders : o = r.order /\ row[o] = "none"
    BY <1>a DEF RequestOK, Request, PlaceInv, Unwritten
  <1>2. row' = [row EXCEPT ![o] = "PENDING"]
    BY <1>1 DEF InsertOrder
  <1>3. \A k \in Handlers : Steady(k)
    BY <1>a, LeavingShape, GoSteady DEF InsertOrder
  <1>4. ~Steady(h) \/ request'[h].at # "insert"
    BY <1>a, LeavingShape DEF InsertOrder, Go
  <1>5. \A k \in Handlers \ {h} : request[k].order # o
    BY <1>1 DEF IInv, ApartOK, Apart
  <1>6. PlaceInv'
    BY <1>a, <1>2, <1>3, <1>4, <1>5 DEF PlaceInv, Unwritten, Steady
  <1>7. Public!Place(o)
    BY <1>a, <1>1, <1>2 DEF Public!Place, Public!Move
  <1>8. QED BY <1>6, <1>7 DEF PlaceStep, Public!Next

LEMMA OtherPlace ==
  ASSUME IInv, PlaceInv,
         \/ \E s \in Settings : Toggle(s)
         \/ \E m \in Mobiles : Expire(m)
         \/ \E o \in Orders : Decline(o) \/ Capture(o) \/ Confirm(o)
         \/ ExpireAttempts \/ UNCHANGED vars
  PROVE  PlaceStep
  <1>a. /\ request \in [Handlers -> Request]
        /\ row \in [Orders -> {"none", "PENDING", "PAID"}]
        /\ gateway \in [Orders -> {"none", "created", "attempted", "captured"}]
    BY DEF IInv, TypeOK
  <1>1. ASSUME NEW s \in Settings, Toggle(s) PROVE PlaceStep
    <2>1. \A h \in Handlers : Steady(h)
      BY <1>a, <1>1 DEF Toggle, Request, Steady
    <2>2. QED BY <1>1, <2>1, SteadyStep DEF Toggle
  <1>2. ASSUME NEW m \in Mobiles, Expire(m) PROVE PlaceStep
    <2>1. \A h \in Handlers : Steady(h)
      BY <1>a, <1>2 DEF Expire, Request, Steady
    <2>2. QED BY <1>2, <2>1, SteadyStep DEF Expire, store
  <1>3. ASSUME NEW o \in Orders, Decline(o) PROVE PlaceStep
    <2>1. gateway' = [gateway EXCEPT ![o] = "created"] /\ gateway[o] = "attempted"
      BY <1>3 DEF Decline
    <2>2. \A h \in Handlers : Steady(h)
      BY <1>3 DEF Decline, Steady
    <2>3. QED BY <1>a, <1>3, <2>1, <2>2, SteadyStep DEF Decline, store
  <1>4. ASSUME NEW o \in Orders, Capture(o) PROVE PlaceStep
    <2>1. /\ gateway' = [gateway EXCEPT ![o] = "captured"] /\ gateway[o] = "attempted"
          /\ UNCHANGED <<row, request, testMode>>
      BY <1>4 DEF Capture, store
    <2>2. row[o] # "none"
      BY <2>1 DEF IInv, MoneyHasOrder
    <2>3. Money' = [Money EXCEPT ![o] = TRUE] /\ ~Money[o]
      BY <1>a, <2>1 DEF Money
    <2>4. Public!Capture(o)
      BY <2>1, <2>2, <2>3 DEF Public!Capture, Money
    <2>5. PlaceInv'
      BY <2>1 DEF PlaceInv, Unwritten
    <2>6. QED BY <2>4, <2>5 DEF PlaceStep, Public!Next
  <1>5. ASSUME NEW o \in Orders, Confirm(o) PROVE PlaceStep
    <2>1. /\ row' = [row EXCEPT ![o] = "PAID"] /\ row[o] = "PENDING"
          /\ gateway[o] = "captured" /\ UNCHANGED <<gateway, request, testMode>>
      BY <1>5 DEF Confirm, store
    <2>2. Public!Confirm(o)
      BY <2>1 DEF Public!Confirm, Public!Move
    <2>3. PlaceInv'
      BY <1>a, <2>1 DEF PlaceInv, Unwritten
    <2>4. QED BY <2>2, <2>3 DEF PlaceStep, Public!Next
  <1>6. CASE ExpireAttempts \/ UNCHANGED vars
    BY <1>6, SteadyStep DEF ExpireAttempts, vars, Steady
  <1>7. QED BY <1>1, <1>2, <1>3, <1>4, <1>5, <1>6

(* createOrder and the page place each order once, and the gateway takes   *)
(* money for placed orders only: to the rest of the system booking is the  *)
(* abstract public order, for any number of pages, requests and numbers.   *)
THEOREM BookingImplementsPublicOrder == Spec => ImplementsPublicOrder
  <1>1. Init => PlaceInv /\ Public!Init
    BY IdleShape DEF Init, PlaceInv, Unwritten, Public!Init
  <1>2. IInv /\ PlaceInv /\ [Next]_vars => PlaceInv' /\ [Public!Next]_(Public!vars)
    <2>1. PlaceStep => PlaceInv' /\ [Public!Next]_(Public!vars)
      BY DEF PlaceStep, Public!vars, Money
    <2>2. ASSUME IInv, PlaceInv, NEW h \in Handlers, Work(h) \/ Crash(h) PROVE PlaceStep
      BY <2>2, CheckPlace, CreatePlace, InsertPlace DEF Work, Create
    <2>3. IInv /\ PlaceInv /\ [Next]_vars => PlaceStep
      BY <2>2, PagePlace, OtherPlace DEF Next
    <2>4. QED BY <2>1, <2>3
  <1>3. QED BY <1>1, <1>2, Invariant, PTL DEF Spec, ImplementsPublicOrder, Public!Spec
=============================================================================

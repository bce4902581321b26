---------------------------- MODULE DailyPasses ----------------------------
(***************************************************************************)
(* Employee registrations and the mails of their daily passes for one      *)
(* event date: registration.service.ts (register), employees.service.ts    *)
(* (approve, reject, generateDailyPasses, sendDailyPassEmails) and         *)
(* employee-dispatch-scheduler.service.ts, whose timer runs in every API   *)
(* process.                                                                *)
(*                                                                         *)
(* What a handler reads before its transaction or its next write is a step *)
(* of its own.  A tick before the dispatch time, or within the quarter of  *)
(* an hour after a failed run, does nothing: both only delay BeginDispatch.*)
(* The map of times saved beside the schedules is read by the test         *)
(* laboratory alone and left out.  Whoever registers gives an address, so  *)
(* "No recipient email" does not occur.                                    *)
(***************************************************************************)
EXTENDS Naturals, FiniteSets

CONSTANTS Employees, Attendees,
          EmployeeOf, \* the employee an attendee registered with
          Booked,     \* attendees whose days include the date
          Ticks,      \* the dispatch timers, one in each API process
          Desks,      \* administrators' requests
          MaxMails,   \* bound: mails to an attendee the provider acknowledges
          MaxFaults   \* bound: handlers lost

ASSUME RegistrationAssumption == EmployeeOf \in [Attendees -> Employees] /\ Booked \subseteq Attendees
ASSUME HandlerAssumption == Ticks \cap Desks = {} /\ IsFiniteSet(Ticks \cup Desks)
ASSUME BoundAssumption == MaxMails \in Nat /\ MaxFaults \in Nat

Handlers == Ticks \cup Desks
RegistrationStatus == {"none", "PENDING", "APPROVED", "REJECTED"}
PassStatus == {"none", "PENDING", "ACTIVE", "SUSPENDED", "REVOKED"}
MailStatus == {"none", "PENDING", "SENDING", "SENT", "FAILED"}
Schedule == [enabled : BOOLEAN, last : {"none", "SUCCESS", "PARTIAL_FAILURE"}]
Sending == {"send", "sending", "acked", "refused"}
(* verdict: of a decision; copy: the schedule read; todo, cur: the passes  *)
(* still to do, the one at hand.                                           *)
Job == [at : {"idle", "decide", "save", "generate", "create", "write"} \cup Sending,
        verdict : {"APPROVED", "REJECTED"}, employees : SUBSET Employees,
        copy : Schedule, todo : SUBSET Attendees, cur : SUBSET Attendees, failed : BOOLEAN]

VARIABLES reg,      \* employees.registration_status
          att,      \* attendees.status
          mail,     \* daily_employee_passes.email_status
          schedule, \* settings: employee.dispatch_schedule.<date>
          job,      \* handlers between two of their steps
          acked,    \* history: mails acknowledged for each attendee
          excuse,   \* history: reasons to mail an attendee once more
          lost,     \* history: attendees whose mail a lost handler was sending
          own,      \* history: attendees given a status of their own
          faults

vars == <<reg, att, mail, schedule, job, acked, excuse, lost, own, faults>>

Idle == [at |-> "idle", verdict |-> "APPROVED", employees |-> {},
         copy |-> [enabled |-> FALSE, last |-> "none"],
         todo |-> {}, cur |-> {}, failed |-> FALSE]

(* Rows and handlers are well formed; a handler has at most one pass at    *)
(* hand, exactly while it creates or mails one; ticks only dispatch.       *)
TypeOK ==
  /\ reg \in [Employees -> RegistrationStatus]
  /\ att \in [Attendees -> PassStatus]
  /\ mail \in [Attendees -> MailStatus]
  /\ schedule \in Schedule
  /\ job \in [Handlers -> Job]
  /\ \A h \in Handlers :
       IF job[h].at \in {"create", "sending", "acked", "refused"}
         THEN \E a \in Attendees : job[h].cur = {a}
         ELSE job[h].cur = {}
  /\ \A t \in Ticks : job[t].at \notin {"decide", "save"}
  /\ acked \in [Attendees -> 0..MaxMails]
  /\ excuse \in [Attendees -> 0..MaxMails]
  /\ lost \subseteq Attendees /\ own \subseteq Attendees
  /\ faults \in 0..MaxFaults

Init == /\ reg = [e \in Employees |-> "none"]
        /\ att = [a \in Attendees |-> "none"]
        /\ mail = [a \in Attendees |-> "none"]
        /\ schedule = [enabled |-> FALSE, last |-> "none"]
        /\ job = [h \in Handlers |-> Idle]
        /\ acked = [a \in Attendees |-> 0]
        /\ excuse = [a \in Attendees |-> 0]
        /\ lost = {} /\ own = {} /\ faults = 0

-----------------------------------------------------------------------------
(* Helpers *)

Idling(h) == job[h].at = "idle"
Go(h, j)  == job' = [job EXCEPT ![h] = j]
Finish(h) == Go(h, Idle)
Family(e) == {a \in Attendees : EmployeeOf[a] = e}

(* Active, of an approved registration, and booked for the date. *)
Eligible(a) == a \in Booked /\ att[a] = "ACTIVE" /\ reg[EmployeeOf[a]] = "APPROVED"

(* A handler has the pass in its list of mails to send. *)
Held(a) == \E h \in Handlers : job[h].at \in Sending /\ a \in job[h].todo \cup job[h].cur

Excuse(as) == excuse' = [a \in Attendees |->
                           IF a \in as /\ excuse[a] < MaxMails THEN excuse[a] + 1 ELSE excuse[a]]

(* Mutant: passes left in SENDING are sent again, as if interrupted. *)
DueOrSending(retryFailedOnly) ==
  {a \in Attendees : mail[a] \in IF retryFailedOnly THEN {"FAILED"}
                                 ELSE {"PENDING", "FAILED", "SENDING"}}

(* "Never re-send to passes that are already SENT" *)
Due(retryFailedOnly) ==
  {a \in Attendees : mail[a] \in IF retryFailedOnly THEN {"FAILED"} ELSE {"PENDING", "FAILED"}}

-----------------------------------------------------------------------------
(* Registrations *)

(* The employee, the family and their attendees in one transaction; the    *)
(* unique CPF refuses a second one.                                        *)
Register(e) ==
  /\ reg[e] = "none"
  /\ reg' = [reg EXCEPT ![e] = "PENDING"]
  /\ att' = [a \in Attendees |-> IF a \in Family(e) THEN "PENDING" ELSE att[a]]
  /\ UNCHANGED <<mail, schedule, job, acked, excuse, lost, own, faults>>

(* approveRegistration, rejectRegistration and their bulk forms read which *)
(* of the employees asked for can be decided ...                           *)
BeginDecision(k, es, verdict) ==
  LET able == {e \in es : IF verdict = "APPROVED" THEN reg[e] = "PENDING" ELSE reg[e] # "none"}
  IN
  /\ Idling(k) /\ able # {}
  /\ Go(k, [Idle EXCEPT !.at = "decide", !.verdict = verdict, !.employees = able])
  /\ UNCHANGED <<reg, att, mail, schedule, acked, excuse, lost, own, faults>>

(* Mutant: only passes that were still pending follow the decision. *)
CommitPendingOnly(k) ==
  LET j == job[k] IN
  /\ j.at = "decide"
  /\ reg' = [e \in Employees |-> IF e \in j.employees THEN j.verdict ELSE reg[e]]
  /\ att' = [a \in Attendees |-> IF EmployeeOf[a] \in j.employees /\ att[a] = "PENDING"
                                   THEN IF j.verdict = "APPROVED" THEN "ACTIVE" ELSE "REVOKED"
                                   ELSE att[a]]
  /\ own' = {a \in own : EmployeeOf[a] \notin j.employees}
  /\ Finish(k)
  /\ UNCHANGED <<mail, schedule, acked, excuse, lost, faults>>

(* ... and a transaction writes the registrations and all their attendees, *)
(* without another look.  Two of them exclude each other by the lock on    *)
(* the employee's row, which both write first.                             *)
CommitDecision(k) ==
  LET j == job[k] IN
  /\ j.at = "decide"
  /\ reg' = [e \in Employees |-> IF e \in j.employees THEN j.verdict ELSE reg[e]]
  /\ att' = [a \in Attendees |-> IF EmployeeOf[a] \in j.employees
                                   THEN IF j.verdict = "APPROVED" THEN "ACTIVE" ELSE "REVOKED"
                                   ELSE att[a]]
  /\ own' = {a \in own : EmployeeOf[a] \notin j.employees}
  /\ Finish(k)
  /\ UNCHANGED <<mail, schedule, acked, excuse, lost, faults>>

(* The status of one attendee, as the attendee list sets it. *)
UpdateStatus(a, s) ==
  /\ att[a] \notin {"none", s}
  /\ att' = [att EXCEPT ![a] = s]
  /\ own' = own \cup {a}
  /\ UNCHANGED <<reg, mail, schedule, job, acked, excuse, lost, faults>>

-----------------------------------------------------------------------------
(* generateDailyPasses *)

(* The timer finds the date's schedule enabled and not yet done. *)
BeginDispatch(t) ==
  /\ Idling(t) /\ schedule.enabled /\ schedule.last # "SUCCESS"
  /\ Go(t, [Idle EXCEPT !.at = "generate", !.todo = {a \in Attendees : Eligible(a)}])
  /\ UNCHANGED <<reg, att, mail, schedule, acked, excuse, lost, own, faults>>

BeginGenerate(k) ==
  /\ Idling(k)
  /\ Go(k, [Idle EXCEPT !.at = "generate", !.todo = {a \in Attendees : Eligible(a)}])
  /\ UNCHANGED <<reg, att, mail, schedule, acked, excuse, lost, own, faults>>

(* An attendee with a pass is counted, one without gets one. *)
FindPass(h, a) ==
  LET j == job[h] IN
  /\ j.at = "generate" /\ a \in j.todo
  /\ Go(h, IF mail[a] # "none" THEN [j EXCEPT !.todo = @ \ {a}]
           ELSE [j EXCEPT !.at = "create", !.todo = @ \ {a}, !.cur = {a}])
  /\ UNCHANGED <<reg, att, mail, schedule, acked, excuse, lost, own, faults>>

(* Mutant: the pass stays at hand once it is created. *)
CreatePassKept(h, a) ==
  /\ job[h].at = "create" /\ job[h].cur = {a}
  /\ mail' = [mail EXCEPT ![a] = "PENDING"]
  /\ Go(h, [job[h] EXCEPT !.at = "generate"])
  /\ UNCHANGED <<reg, att, schedule, acked, excuse, lost, own, faults>>

(* The unique index refuses a second pass, and the error ends the run. *)
CreatePass(h, a) ==
  /\ job[h].at = "create" /\ job[h].cur = {a}
  /\ IF mail[a] = "none" THEN /\ mail' = [mail EXCEPT ![a] = "PENDING"]
                              /\ Go(h, [job[h] EXCEPT !.at = "generate", !.cur = {}])
                         ELSE Finish(h) /\ UNCHANGED mail
  /\ UNCHANGED <<reg, att, schedule, acked, excuse, lost, own, faults>>

FinishGenerate(k) ==
  /\ k \in Desks /\ job[k].at = "generate" /\ job[k].todo = {}
  /\ Finish(k)
  /\ UNCHANGED <<reg, att, mail, schedule, acked, excuse, lost, own, faults>>

-----------------------------------------------------------------------------
(* sendDailyPassEmails *)

SelectPasses(h, as, excused) ==
  /\ Go(h, [Idle EXCEPT !.at = "send", !.todo = as])
  /\ Excuse({a \in as : a \in excused \/ Held(a)})
  /\ UNCHANGED <<reg, att, mail, schedule, acked, lost, own, faults>>

(* The second half of executeDispatchForDate. *)
BeginDispatchMails(t) ==
  /\ t \in Ticks /\ job[t].at = "generate" /\ job[t].todo = {}
  /\ SelectPasses(t, Due(FALSE), {})

BeginSend(k, retryFailedOnly) == Idling(k) /\ SelectPasses(k, Due(retryFailedOnly), {})

(* One pass, whatever its status. *)
BeginResend(k, a) == Idling(k) /\ mail[a] # "none" /\ SelectPasses(k, {a}, {a})

MarkSending(h, a) ==
  /\ job[h].at = "send" /\ a \in job[h].todo
  /\ mail' = [mail EXCEPT ![a] = "SENDING"]
  /\ Go(h, [job[h] EXCEPT !.at = "sending", !.todo = @ \ {a}, !.cur = {a}])
  /\ UNCHANGED <<reg, att, schedule, acked, excuse, lost, own, faults>>

Answer(h, a, ok) ==
  /\ job[h].at = "sending" /\ job[h].cur = {a}
  /\ Go(h, [job[h] EXCEPT !.at = IF ok THEN "acked" ELSE "refused"])
  /\ IF ok THEN acked[a] < MaxMails /\ acked' = [acked EXCEPT ![a] = @ + 1] ELSE UNCHANGED acked
  /\ UNCHANGED <<reg, att, mail, schedule, excuse, lost, own, faults>>

(* Mutant: the answer's success flag is not looked at. *)
RecordAnyAnswer(h, a) ==
  LET j == job[h] IN
  /\ j.at \in {"acked", "refused"} /\ j.cur = {a}
  /\ mail' = [mail EXCEPT ![a] = "SENT"]
  /\ Go(h, [j EXCEPT !.at = "send", !.cur = {}])
  /\ UNCHANGED <<reg, att, schedule, acked, excuse, lost, own, faults>>

RecordAnswer(h, a) ==
  LET j == job[h] IN
  /\ j.at \in {"acked", "refused"} /\ j.cur = {a}
  /\ mail' = [mail EXCEPT ![a] = IF j.at = "acked" THEN "SENT" ELSE "FAILED"]
  /\ Go(h, [j EXCEPT !.at = "send", !.cur = {}, !.failed = @ \/ j.at = "refused"])
  /\ UNCHANGED <<reg, att, schedule, acked, excuse, lost, own, faults>>

(* A dispatch reads the schedule once more to write its result into. *)
FinishSend(h) ==
  /\ job[h].at = "send" /\ job[h].todo = {}
  /\ IF h \in Ticks THEN Go(h, [job[h] EXCEPT !.at = "write", !.copy = schedule]) ELSE Finish(h)
  /\ UNCHANGED <<reg, att, mail, schedule, acked, excuse, lost, own, faults>>

(* Mutant: the result is not saved. *)
WriteNoResult(t) ==
  /\ job[t].at = "write"
  /\ Finish(t)
  /\ UNCHANGED <<reg, att, mail, schedule, acked, excuse, lost, own, faults>>

WriteResult(t) ==
  /\ job[t].at = "write"
  /\ schedule' = [job[t].copy EXCEPT !.last = IF job[t].failed THEN "PARTIAL_FAILURE" ELSE "SUCCESS"]
  /\ Finish(t)
  /\ UNCHANGED <<reg, att, mail, acked, excuse, lost, own, faults>>

-----------------------------------------------------------------------------
(* upsertSchedule keeps what it read of the last run. *)

BeginUpsert(k, enabled) ==
  /\ Idling(k)
  /\ Go(k, [Idle EXCEPT !.at = "save", !.copy = [schedule EXCEPT !.enabled = enabled]])
  /\ UNCHANGED <<reg, att, mail, schedule, acked, excuse, lost, own, faults>>

SaveSchedule(k) ==
  /\ job[k].at = "save"
  /\ schedule' = job[k].copy
  /\ Finish(k)
  /\ UNCHANGED <<reg, att, mail, acked, excuse, lost, own, faults>>

-----------------------------------------------------------------------------
(* A restart, or a database call that throws: nothing undoes SENDING, and  *)
(* the timer's flag is free again.                                         *)
Lose(h) ==
  LET sending == IF job[h].at \in Sending THEN job[h].cur ELSE {} IN
  /\ ~Idling(h) /\ faults < MaxFaults
  /\ Finish(h)
  /\ lost' = lost \cup sending
  /\ faults' = faults + 1
  /\ UNCHANGED <<reg, att, mail, schedule, acked, excuse, own>>

-----------------------------------------------------------------------------
Step(h) == \/ CommitDecision(h) \/ SaveSchedule(h)
           \/ FinishGenerate(h) \/ BeginDispatchMails(h)
           \/ \E a \in Attendees : \/ FindPass(h, a) \/ CreatePass(h, a)
                                   \/ MarkSending(h, a) \/ RecordAnswer(h, a)
                                   \/ \E ok \in BOOLEAN : Answer(h, a, ok)
           \/ FinishSend(h) \/ WriteResult(h)

Request(k) == \/ \E es \in SUBSET Employees, v \in {"APPROVED", "REJECTED"} : BeginDecision(k, es, v)
              \/ BeginGenerate(k)
              \/ \E b \in BOOLEAN : BeginSend(k, b) \/ BeginUpsert(k, b)
              \/ \E a \in Attendees : BeginResend(k, a)

Next == \/ \E e \in Employees : Register(e)
        \/ \E a \in Attendees, s \in {"ACTIVE", "SUSPENDED", "REVOKED"} : UpdateStatus(a, s)
        \/ \E t \in Ticks : BeginDispatch(t)
        \/ \E k \in Desks : Request(k)
        \/ \E h \in Handlers : Step(h) \/ Lose(h)

Spec == Init /\ [][Next]_vars

(* Every handler goes on, the provider answers or times out, and the       *)
(* timers keep ticking.                                                    *)
Fairness == /\ \A h \in Handlers : WF_vars(Step(h))
            /\ \A t \in Ticks : WF_vars(BeginDispatch(t))

FairSpec == Spec /\ Fairness

-----------------------------------------------------------------------------
(* "Approve ... and activate passes", "reject ... and revoke passes": a    *)
(* family's passes follow the last decision whatever decisions raced,      *)
(* except those an administrator gave a status of their own since.         *)
PassesFollowDecision ==
  \A a \in Attendees \ own :
    LET r == reg[EmployeeOf[a]] IN
    /\ r = "PENDING" => att[a] = "PENDING"
    /\ r = "APPROVED" => att[a] = "ACTIVE"
    /\ r = "REJECTED" => att[a] = "REVOKED"

(* "sendDailyPassEmails will not resend already SENT passes": a pass is    *)
(* mailed a second time only if it was asked for by itself or if two runs  *)
(* had it in their lists together: runs that follow each other mail it     *)
(* once, whatever answers and restarts lie between.                        *)
MailedForAReason == \A a \in Attendees : acked[a] <= 1 + excuse[a]

(* Nothing but a lost handler leaves a pass in SENDING, where no later run *)
(* finds it; SENT stands for a mail that went out; and a pass exists only  *)
(* for a registration somebody has decided on.                             *)
MailStatusIsTrue ==
  \A a \in Attendees :
    /\ mail[a] = "SENDING" => a \in lost \/ \E h \in Handlers : /\ job[h].at \in Sending
                                                                /\ a \in job[h].cur
    /\ mail[a] = "SENT" => acked[a] > 0
    /\ mail[a] # "none" => reg[EmployeeOf[a]] \notin {"none", "PENDING"}

(* A schedule that stays enabled is run and its run recorded, with         *)
(* requests, losses and other timers in between.                           *)
DispatchHappens == <>[]schedule.enabled => <>(schedule.last # "none")
=============================================================================

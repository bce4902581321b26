------------------------ MODULE EmployeeQrRelease ------------------------
(***************************************************************************)
(* The release of the employees' permanent QR passes by mail:              *)
(* apps/api/src/registration/employee-qr-delivery.service.ts, triggered by *)
(* administrators and by every API process's own dispatch scheduler.       *)
(*                                                                         *)
(* The processes share the database and nothing else: isProcessingRelease  *)
(* is a field of each process's service object.  Round trips are separate  *)
(* steps; the mails of one chunk concern different rows and are sent one   *)
(* after the other here.  A delivery row is never deleted (its attendee is *)
(* an employee record), and a process creates a row for an attendee only   *)
(* if it saw none: a row is known by its attendee and its creator.         *)
(***************************************************************************)
EXTENDS Integers, FiniteSets

CONSTANTS Attendees,     \* approved employees and family members with event dates
          Processes,     \* API processes
          SharedAddress, \* all attendees get their mail at the employee's address
          Kinds,         \* the reports the mail provider makes
          Explicit,      \* administrators also resend single mails
          MaxReleases,   \* bound: releases started
          MaxMails,      \* bound: mails to an attendee the provider acknowledges
          MaxFaults      \* bound: processes lost, database calls that throw

Final == {"DELIVERED", "BOUNCED", "REJECTED", "FAILED"}

ASSUME KindsAssumption == Kinds \subseteq Final \cup {"DEFERRED"}
ASSUME FiniteAssumption == IsFiniteSet(Attendees) /\ IsFiniteSet(Processes)
ASSUME SwitchAssumption == SharedAddress \in BOOLEAN /\ Explicit \in BOOLEAN
ASSUME BoundAssumption == {MaxReleases, MaxMails, MaxFaults} \subseteq Nat

Rows == Attendees \X Processes
Releases == 1..MaxReleases
(* A report is about the n-th mail acknowledged for an attendee. *)
Events == [att : Attendees, n : 1..MaxMails, kind : Kinds]
NoEvent == [att |-> "none", n |-> 0, kind |-> "none"]

VARIABLES row,     \* employee_qr_email_deliveries
          release, \* employee_qr_email_releases.status
          run,     \* each process's executeRelease
          mail,    \* the mail each process sends: of its run, of retrySingleDelivery
          hook,    \* each process's processProviderWebhook
          poll,    \* ... reconcileDeliveryStatusesWithHostinger
          resume,  \* ... reconcileInterruptedReleases: releases still to do
          acked,   \* mails the provider acknowledged, per attendee
          events,  \* reports the provider has made
          grounds, \* reasons to mail an attendee once more
          faults

vars == <<row, release, run, mail, hook, poll, resume, acked, events, grounds, faults>>

DeliveryStatus == Final \cup {"none", "QUEUED", "SENDING", "ACCEPTED", "DEFERRED"}
(* message: which mail's provider_message_id; age: the order of creation.  *)
Row == [status : DeliveryStatus, release : 0..MaxReleases, message : 0..MaxMails,
        event : Events \cup {NoEvent}, age : 0..Cardinality(Rows)]
(* seen: the delivery found or made for an attendee, if any. *)
Run == [at : {"idle", "queue", "send"}, release : 0..MaxReleases,
        seen : [Attendees -> SUBSET Rows], targets : SUBSET Attendees, todo : SUBSET Attendees,
        sent : BOOLEAN, failed : BOOLEAN]
Mail == [at : {"idle", "sending", "acked", "refused"}, on : SUBSET Rows]
Senders == Processes \X {"release", "retry"}

NoRow == [status |-> "none", release |-> 0, message |-> 0, event |-> NoEvent, age |-> 0]
IdleRun == [at |-> "idle", release |-> 0, seen |-> [a \in Attendees |-> {}],
            targets |-> {}, todo |-> {}, sent |-> FALSE, failed |-> FALSE]
IdleMail == [at |-> "idle", on |-> {}]
IdleHook == [on |-> {}, event |-> NoEvent]
IdlePoll == [on |-> {}, status |-> "none"]

(* Every row, release and handler has its shape. *)
TypeOK ==
  /\ row \in [Rows -> Row]
  /\ release \in [Releases -> {"none", "RUNNING", "COMPLETED", "PARTIAL_FAILURE", "FAILED"}]
  /\ run \in [Processes -> Run]
  /\ mail \in [Senders -> Mail]
  /\ hook \in [Processes -> [on : SUBSET Rows, event : Events \cup {NoEvent}]]
  /\ poll \in [Processes -> [on : SUBSET Rows, status : DeliveryStatus]]
  /\ resume \in [Processes -> SUBSET Releases]
  /\ acked \in [Attendees -> 0..MaxMails]
  /\ events \subseteq Events
  /\ grounds \in [Attendees -> 0..MaxMails]
  /\ faults \in 0..MaxFaults

Init == /\ row = [r \in Rows |-> NoRow]
        /\ release = [n \in Releases |-> "none"]
        /\ run = [p \in Processes |-> IdleRun]
        /\ mail = [s \in Senders |-> IdleMail]
        /\ hook = [p \in Processes |-> IdleHook]
        /\ poll = [p \in Processes |-> IdlePoll]
        /\ resume = [p \in Processes |-> {}]
        /\ acked = [a \in Attendees |-> 0]
        /\ events = {}
        /\ grounds = [a \in Attendees |-> 0]
        /\ faults = 0

-----------------------------------------------------------------------------
(* Helpers *)

Exists(r) == row[r].status # "none"
RowsOf(a) == {r \in Rows : r[1] = a /\ Exists(r)}
SameAddress(a, b) == a = b \/ SharedAddress
NewAge == 1 + Cardinality({r \in Rows : Exists(r)})

CanTransition(current, target) ==
  \/ current = target
  \/ /\ current = "ACCEPTED"
     /\ target \in {"DELIVERED", "BOUNCED", "REJECTED", "DEFERRED"}
  \/ /\ current = "SENDING"
     /\ target \in {"ACCEPTED", "DELIVERED", "FAILED", "BOUNCED", "REJECTED"}
  \/ current \notin {"DELIVERED", "ACCEPTED", "SENDING"}

SetStatus(r, st) == row' = [row EXCEPT ![r].status = st]
GoRun(p, r) == run' = [run EXCEPT ![p] = r]
GoMail(s, m) == mail' = [mail EXCEPT ![s] = m]
(* Grounds beyond MaxMails could not be used up: the count stops there.    *)
Ground(as) == grounds' = [a \in Attendees |->
                            IF a \in as /\ grounds[a] < MaxMails THEN grounds[a] + 1 ELSE grounds[a]]

(* Mutant: a second "send now" no longer skips what the provider accepted. *)
DueDeliveredOnly(a, retryOnly, rs) ==
  \A r \in rs : IF retryOnly
                  THEN row[r].status \in {"FAILED", "BOUNCED"}
                  ELSE row[r].status \notin {"DELIVERED", "SENDING", "QUEUED"}

(* Step 5: on a retry only failures, else all but what is sent or on its   *)
(* way.                                                                    *)
Due(a, retryOnly, rs) ==
  \A r \in rs : IF retryOnly
                  THEN row[r].status \in {"FAILED", "BOUNCED"}
                  ELSE row[r].status \notin {"DELIVERED", "ACCEPTED", "SENDING", "QUEUED"}

-----------------------------------------------------------------------------
(* executeRelease *)

(* Steps 1 to 7: the flag, the reads and the RUNNING release.  The map of  *)
(* deliveries keeps one row of each attendee, in no particular order.  An  *)
(* attendee asked for by name ("only") is sent whatever was seen.          *)
BeginRelease(p, retryOnly, only) ==
  /\ run[p].at = "idle"
  /\ \E n \in Releases, seen \in [Attendees -> {{}} \cup {{r} : r \in Rows}] :
       /\ release[n] = "none" /\ \A m \in 1..(n - 1) : release[m] # "none"
       /\ \A a \in Attendees : /\ seen[a] \subseteq RowsOf(a)
                               /\ RowsOf(a) # {} => seen[a] # {}
       /\ LET targets == IF only # {} THEN only
                         ELSE {a \in Attendees : Due(a, retryOnly, seen[a])}
          IN /\ targets # {}
             /\ GoRun(p, [IdleRun EXCEPT !.at = "queue", !.release = n, !.seen = seen,
                                         !.targets = targets, !.todo = targets])
       /\ release' = [release EXCEPT ![n] = "RUNNING"]
  /\ Ground(only)
  /\ UNCHANGED <<row, mail, hook, poll, resume, acked, events, faults>>

(* Step 8: each target's row is queued, or created if none was seen. *)
QueueDelivery(p, a) ==
  LET s == run[p]
      new == s.seen[a] = {}
      r == IF new THEN <<a, p>> ELSE CHOOSE x \in s.seen[a] : TRUE
      last == s.todo = {a}
  IN
  /\ s.at = "queue" /\ a \in s.todo
  /\ row' = [row EXCEPT ![r] =
               [(IF new THEN [NoRow EXCEPT !.age = NewAge] ELSE @) EXCEPT
                  !.status = "QUEUED", !.release = s.release]]
  /\ GoRun(p, [s EXCEPT !.seen[a] = {r}, !.at = IF last THEN "send" ELSE "queue",
                        !.todo = IF last THEN s.targets ELSE @ \ {a}])
  /\ UNCHANGED <<release, mail, hook, poll, resume, acked, events, grounds, faults>>

(* Step 9: the next mail of the batch. *)
SendDelivery(p, a) ==
  LET s == run[p] IN
  /\ s.at = "send" /\ a \in s.todo /\ mail[<<p, "release">>].at = "idle"
  /\ \E r \in s.seen[a] : /\ SetStatus(r, "SENDING")
                          /\ GoMail(<<p, "release">>, [at |-> "sending", on |-> {r}])
  /\ GoRun(p, [s EXCEPT !.todo = @ \ {a}])
  /\ UNCHANGED <<release, hook, poll, resume, acked, events, grounds, faults>>

(* Steps 10 to 12: the release's final status. *)
FinishRelease(p) ==
  LET s == run[p] IN
  /\ s.at = "send" /\ s.todo = {} /\ mail[<<p, "release">>].at = "idle"
  /\ release' = [release EXCEPT ![s.release] = IF ~s.failed THEN "COMPLETED"
                                               ELSE IF s.sent THEN "PARTIAL_FAILURE"
                                               ELSE "FAILED"]
  /\ GoRun(p, IdleRun)
  /\ UNCHANGED <<row, mail, hook, poll, resume, acked, events, grounds, faults>>

(* Mutant: the flag is not cleared in a finally block. *)
ThrowKeepsFlag(p) ==
  /\ run[p].at # "idle" /\ mail[<<p, "release">>].at # "sending" /\ faults < MaxFaults
  /\ GoRun(p, [run[p] EXCEPT !.at = "queue", !.todo = {}])
  /\ GoMail(<<p, "release">>, IdleMail)
  /\ faults' = faults + 1
  /\ UNCHANGED <<row, release, hook, poll, resume, acked, events, grounds>>

(* A database call of the release throws: the rest is left as it is, and   *)
(* the finally block clears the flag.                                      *)
Throw(p) ==
  /\ run[p].at # "idle" /\ mail[<<p, "release">>].at # "sending" /\ faults < MaxFaults
  /\ GoRun(p, IdleRun) /\ GoMail(<<p, "release">>, IdleMail)
  /\ faults' = faults + 1
  /\ UNCHANGED <<row, release, hook, poll, resume, acked, events, grounds>>

-----------------------------------------------------------------------------
(* A mail of a release or of a single retry *)

(* retrySingleDelivery takes a row in any status. *)
BeginRetry(p, r) ==
  /\ Explicit /\ Exists(r) /\ mail[<<p, "retry">>].at = "idle"
  /\ SetStatus(r, "SENDING")
  /\ GoMail(<<p, "retry">>, [at |-> "sending", on |-> {r}])
  /\ Ground({r[1]})
  /\ UNCHANGED <<release, run, hook, poll, resume, acked, events, faults>>

Answer(s, ok) ==
  /\ mail[s].at = "sending"
  /\ GoMail(s, [mail[s] EXCEPT !.at = IF ok THEN "acked" ELSE "refused"])
  /\ IF ok THEN \E r \in mail[s].on : /\ acked[r[1]] < MaxMails
                                      /\ acked' = [acked EXCEPT ![r[1]] = @ + 1]
           ELSE UNCHANGED acked
  /\ UNCHANGED <<row, release, run, hook, poll, resume, events, grounds, faults>>

(* The row is written from the answer; a release counts it. *)
Record(s, ok) ==
  /\ \E r \in mail[s].on :
       row' = [row EXCEPT ![r].status = IF ok THEN "ACCEPTED" ELSE "FAILED",
                          ![r].message = IF ok THEN acked[r[1]] ELSE @]
  /\ GoMail(s, IdleMail)
  /\ run' = IF s[2] = "retry" THEN run
            ELSE [run EXCEPT ![s[1]].sent = @ \/ ok, ![s[1]].failed = @ \/ ~ok]
  /\ UNCHANGED <<release, hook, poll, resume, acked, events>>

(* Mutant: sendResult.success is not looked at. *)
RecordAnyAnswer(s) ==
  /\ mail[s].at \in {"acked", "refused"}
  /\ Record(s, TRUE) /\ UNCHANGED <<grounds, faults>>

RecordAnswer(s) ==
  /\ mail[s].at \in {"acked", "refused"}
  /\ Record(s, mail[s].at = "acked") /\ UNCHANGED <<grounds, faults>>

(* The write of ACCEPTED throws inside the try block: its catch writes     *)
(* FAILED for a mail that is out.                                          *)
LoseAnswer(s) ==
  /\ mail[s].at = "acked" /\ faults < MaxFaults
  /\ Record(s, FALSE)
  /\ \E r \in mail[s].on : Ground({r[1]})
  /\ faults' = faults + 1

-----------------------------------------------------------------------------
(* The provider, its webhook and its logs *)

(* A mail is reported deferred, then once and for all. *)
Report(e) ==
  /\ e.n <= acked[e.att] /\ e \notin events
  /\ \A f \in events : f.att = e.att /\ f.n = e.n => f.kind \notin Final
  /\ events' = events \cup {e}
  /\ UNCHANGED <<row, release, run, mail, hook, poll, resume, acked, grounds, faults>>

(* The row with the message's id, else the newest of the recipient. *)
Target(e) ==
  LET byId == {r \in RowsOf(e.att) : row[r].message = e.n}
      byMail == {r \in Rows : SameAddress(r[1], e.att) /\ Exists(r)}
  IN IF byId # {} THEN byId
     ELSE {r \in byMail : \A q \in byMail : row[q].age <= row[r].age}

(* processProviderWebhook: an event is known by the row it last changed;   *)
(* any event may come late, or again.                                      *)
BeginWebhook(p, e) ==
  /\ e \in events /\ hook[p] = IdleHook
  /\ \A r \in Rows : row[r].event # e
  /\ \E r \in Target(e) : /\ CanTransition(row[r].status, e.kind)
                          /\ hook' = [hook EXCEPT ![p] = [on |-> {r}, event |-> e]]
  /\ UNCHANGED <<row, release, run, mail, poll, resume, acked, events, grounds, faults>>

(* Mutant: the provider's word is written as it came. *)
ApplyWebhookRaw(p) ==
  /\ hook[p] # IdleHook
  /\ \E r \in hook[p].on : row' = [row EXCEPT ![r].status = "bounce", ![r].event = hook[p].event]
  /\ hook' = [hook EXCEPT ![p] = IdleHook]
  /\ UNCHANGED <<release, run, mail, poll, resume, acked, events, grounds, faults>>

(* The write rests on the status read before; the unique provider_event_id *)
(* refuses an event another row has by now.                                *)
ApplyWebhook(p) ==
  LET e == hook[p].event IN
  /\ hook[p] # IdleHook
  /\ \E r \in hook[p].on :
       IF \E q \in Rows \ {r} : row[q].event = e
         THEN UNCHANGED <<row, grounds>>
         ELSE /\ row' = [row EXCEPT ![r].status = e.kind, ![r].event = e]
              /\ Ground(IF e.kind = "DELIVERED" THEN {} ELSE {r[1]})
  /\ hook' = [hook EXCEPT ![p] = IdleHook]
  /\ UNCHANGED <<release, run, mail, poll, resume, acked, events, faults>>

(* reconcileDeliveryStatusesWithHostinger: rows are read, then the logs. *)
BeginPoll(p, r) ==
  /\ poll[p] = IdlePoll /\ row[r].status \in {"ACCEPTED", "SENDING"}
  /\ poll' = [poll EXCEPT ![p] = [on |-> {r}, status |-> row[r].status]]
  /\ UNCHANGED <<row, release, run, mail, hook, resume, acked, events, grounds, faults>>

(* The first log entry for the address decides, whichever mail it is of. *)
ApplyPoll(p) ==
  /\ poll[p] # IdlePoll
  /\ \E r \in poll[p].on :
       \/ UNCHANGED <<row, grounds>>
       \/ \E e \in events : /\ SameAddress(e.att, r[1])
                            /\ e.kind \in {"DELIVERED", "BOUNCED", "FAILED"}
                            /\ CanTransition(poll[p].status, e.kind)
                            /\ SetStatus(r, e.kind)
                            /\ Ground(IF e.kind = "DELIVERED" THEN {} ELSE {r[1]})
  /\ poll' = [poll EXCEPT ![p] = IdlePoll]
  /\ UNCHANGED <<release, run, mail, hook, resume, acked, events, faults>>

-----------------------------------------------------------------------------
(* Restarts *)

(* The process dies and starts again: reconcileInterruptedReleases reads   *)
(* the RUNNING releases, its own and everyone's.                           *)
Restart(p) ==
  /\ faults < MaxFaults
  /\ run' = [run EXCEPT ![p] = IdleRun]
  /\ mail' = [s \in Senders |-> IF s[1] = p THEN IdleMail ELSE mail[s]]
  /\ hook' = [hook EXCEPT ![p] = IdleHook]
  /\ poll' = [poll EXCEPT ![p] = IdlePoll]
  /\ resume' = [resume EXCEPT ![p] = {n \in Releases : release[n] = "RUNNING"}]
  /\ faults' = faults + 1
  /\ UNCHANGED <<row, release, acked, events, grounds>>

(* Mutant: a release with queued mails is closed too. *)
ResumeClosesAll(p, n) ==
  /\ n \in resume[p]
  /\ row' = [r \in Rows |-> IF row[r].release = n /\ row[r].status = "SENDING"
                              THEN [row[r] EXCEPT !.status = "QUEUED"] ELSE row[r]]
  /\ release' = [release EXCEPT ![n] = "COMPLETED"]
  /\ resume' = [resume EXCEPT ![p] = @ \ {n}]
  /\ UNCHANGED <<run, mail, hook, poll, acked, events, grounds, faults>>

(* SENDING rows go back to QUEUED; a release without queued rows is closed.*)
ResumeRelease(p, n) ==
  LET mine == {r \in Rows : Exists(r) /\ row[r].release = n}
      open == \E r \in mine : row[r].status \in {"QUEUED", "SENDING"}
      bad  == \E r \in mine : row[r].status \in {"FAILED", "BOUNCED"}
  IN
  /\ n \in resume[p]
  /\ row' = [r \in Rows |-> IF r \in mine /\ row[r].status = "SENDING"
                              THEN [row[r] EXCEPT !.status = "QUEUED"] ELSE row[r]]
  /\ release' = IF open THEN release
                ELSE [release EXCEPT ![n] = IF bad THEN "PARTIAL_FAILURE" ELSE "COMPLETED"]
  /\ resume' = [resume EXCEPT ![p] = @ \ {n}]
  /\ UNCHANGED <<run, mail, hook, poll, acked, events, grounds, faults>>

-----------------------------------------------------------------------------
FinishMail(s) == RecordAnswer(s) \/ \E ok \in BOOLEAN : Answer(s, ok)

Work(p) == \/ \E a \in Attendees : QueueDelivery(p, a) \/ SendDelivery(p, a)
           \/ FinishMail(<<p, "release">>)
           \/ FinishRelease(p)

(* What administrators and schedulers start. *)
Trigger(p) == \/ \E retryOnly \in BOOLEAN : BeginRelease(p, retryOnly, {})
              \/ Explicit /\ \E a \in Attendees : BeginRelease(p, FALSE, {a})
              \/ \E r \in Rows : BeginRetry(p, r)

Next == \/ \E p \in Processes :
             \/ Work(p) \/ FinishMail(<<p, "retry">>) \/ Trigger(p)
             \/ Throw(p) \/ Restart(p)
             \/ \E k \in {"release", "retry"} : LoseAnswer(<<p, k>>)
             \/ \E e \in events : BeginWebhook(p, e)
             \/ \E r \in Rows : BeginPoll(p, r)
             \/ ApplyWebhook(p) \/ ApplyPoll(p)
             \/ \E n \in Releases : ResumeRelease(p, n)
        \/ \E e \in Events : Report(e)

Spec == Init /\ [][Next]_vars

(* The event loop finishes a release, and the schedulers start one         *)
(* whenever one would send something.                                      *)
Fairness == \A p \in Processes : /\ WF_vars(Work(p))
                                 /\ WF_vars(FinishMail(<<p, "retry">>))
                                 /\ WF_vars(BeginRelease(p, FALSE, {}))
                                 /\ \A n \in Releases : WF_vars(ResumeRelease(p, n))

FairSpec == Spec /\ Fairness

-----------------------------------------------------------------------------
(* executeRelease is "idempotent": an attendee is mailed once, and once    *)
(* more only for a reason: a report that a mail did not arrive, an         *)
(* administrator asking for it, or an acknowledgement lost in the database.*)
MailedForAReason == \A a \in Attendees : acked[a] <= 1 + grounds[a]

(* A delivery shown as accepted or delivered stands for a mail to that     *)
(* attendee the provider acknowledged, or reported delivered ("no false    *)
(* DELIVERED").                                                            *)
NoFalseDelivered ==
  \A r \in Rows :
    /\ row[r].status = "ACCEPTED" => acked[r[1]] > 0
    /\ row[r].status = "DELIVERED" => \E e \in events : e.att = r[1] /\ e.kind = "DELIVERED"

(* A queued mail belongs to a release that is still open: no release is    *)
(* recorded as ended while one of its mails waits.                         *)
QueuedIsOpen == \A r \in Rows : row[r].status = "QUEUED" => release[row[r].release] = "RUNNING"

(* The in-progress flag never stays up: whatever throws, "send now" is     *)
(* possible again.                                                         *)
FlagCleared == \A p \in Processes : run[p].at # "idle" ~> run[p].at = "idle"
=============================================================================

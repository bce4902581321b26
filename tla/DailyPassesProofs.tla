-------------------------- MODULE DailyPassesProofs --------------------------
(***************************************************************************)
(* What DailyPasses keeps for every number of employees, families, timers  *)
(* and requests.                                                           *)
(*                                                                         *)
(* MailedForAReason is not inductive.  What is (Budget): the mails         *)
(* acknowledged, those still in some run's hands and one for a refusal     *)
(* nobody has recorded yet never exceed one more than the reasons; and a   *)
(* pass whose status lets a run select it has one mail of them to spare.   *)
(***************************************************************************)
EXTENDS DailyPasses, FiniteSetTheorems, TLAPS

USE RegistrationAssumption, HandlerAssumption, BoundAssumption

Decisions == {"APPROVED", "REJECTED"}
Decided(a) == reg[EmployeeOf[a]] \in Decisions

Tables ==
  /\ reg \in [Employees -> RegistrationStatus]
  /\ att \in [Attendees -> PassStatus]
  /\ mail \in [Attendees -> MailStatus]
  /\ schedule \in Schedule
  /\ acked \in [Attendees -> 0..MaxMails]
  /\ excuse \in [Attendees -> 0..MaxMails]
  /\ lost \subseteq Attendees /\ own \subseteq Attendees
  /\ faults \in 0..MaxFaults

(* What handler h may remember: the passes of a list are of decided        *)
(* registrations, an acknowledged mail is counted.                         *)
Good(h, j) ==
  /\ j \in Job
  /\ IF j.at \in {"create", "sending", "acked", "refused"}
       THEN \E a \in Attendees : j.cur = {a}
       ELSE j.cur = {}
  /\ h \in Ticks => j.at \notin {"decide", "save"}
  /\ j.cur \cap j.todo = {}
  /\ j.at \in Sending \cup {"generate", "create"} => \A a \in j.todo \cup j.cur : Decided(a)
  /\ j.at = "decide" => \A e \in j.employees : reg[e] # "none"
  /\ j.at = "acked" => \A a \in j.cur : acked[a] > 0

Hold(j) == IF j.at \in Sending THEN j.cur ELSE {}

MailTrue ==
  \A a \in Attendees :
    /\ mail[a] # "none" => Decided(a)
    /\ mail[a] = "SENT" => acked[a] > 0
    /\ mail[a] = "SENDING" => a \in lost \/ \E h \in Handlers : a \in Hold(job[h])

SafeInv == /\ Tables
           /\ job \in [Handlers -> Job]
           /\ \A h \in Handlers : Good(h, job[h])
           /\ PassesFollowDecision
           /\ MailTrue

(* A registration once decided stays so, and no mail is unacknowledged.    *)
Onward == /\ \A e \in Employees : /\ reg[e] \in Decisions => reg'[e] \in Decisions
                                  /\ reg[e] # "none" => reg'[e] # "none"
          /\ \A a \in Attendees : acked[a] <= acked'[a]
          /\ lost \subseteq lost'

-----------------------------------------------------------------------------
(* Facts about handlers *)

LEMMA IdleGood ==
    ASSUME NEW h \in Handlers
    PROVE  Good(h, Idle) /\ Good(h, Idle)' /\ Hold(Idle) = {} /\ Idle.at = "idle" /\ Idle.todo = {}
  BY DEF Good, Idle, Job, Sending, Hold, Schedule

LEMMA GoodOnward ==
    ASSUME SafeInv, Onward, acked' \in [Attendees -> 0..MaxMails], NEW h \in Handlers
    PROVE  Good(h, job[h])' \/ job'[h] # job[h]
  <1>1. Good(h, job[h])
    BY DEF SafeInv
  <1>2. \A a \in job[h].todo \cup job[h].cur : a \in Attendees /\ EmployeeOf[a] \in Employees
    BY <1>1 DEF Good, Job
  <1>3. \A a \in Attendees : acked[a] > 0 => acked'[a] > 0
    BY DEF Onward, SafeInv, Tables
  <1>4. \A a \in job[h].todo \cup job[h].cur : Decided(a) => Decided(a)'
    BY <1>2 DEF Onward, Decided
  <1>5. \A e \in job[h].employees : e \in Employees
    BY <1>1 DEF Good, Job
  <1>6. ASSUME job'[h] = job[h] PROVE Good(h, job[h])'
    BY <1>1, <1>2, <1>3, <1>4, <1>5, <1>6 DEF Good, Onward
  <1>7. QED BY <1>6

(* A step of one handler: what the others remember stays good.             *)
LEMMA SafeFramed ==
    ASSUME SafeInv, Tables', Onward, NEW h \in Handlers, NEW j, Go(h, j), Good(h, j)',
           PassesFollowDecision',
           \A a \in Attendees :
             \/ mail'[a] = mail[a] /\ (a \in Hold(job[h]) => a \in Hold(j) \cup lost')
             \/ /\ Decided(a)' /\ (mail'[a] = "SENT" => acked'[a] > 0)
                /\ (mail'[a] = "SENDING" => a \in Hold(j))
    PROVE  SafeInv'
  <1>1. job' \in [Handlers -> Job]
    BY DEF SafeInv, Go, Good
  <1>2. job'[h] = j /\ \A k \in Handlers \ {h} : job'[k] = job[k]
    BY DEF SafeInv, Go
  <1>3. ASSUME NEW k \in Handlers PROVE Good(k, job[k])'
    <2>1. CASE k = h
      BY <1>2, <2>1 DEF Good
    <2>2. CASE k # h
      BY <1>2, <2>2, GoodOnward DEF Tables
    <2>3. QED BY <2>1, <2>2
  <1>4. ASSUME NEW a \in Attendees
        PROVE  /\ mail'[a] # "none" => Decided(a)'
               /\ mail'[a] = "SENT" => acked'[a] > 0
               /\ mail'[a] = "SENDING" => a \in lost' \/ \E k \in Handlers : a \in Hold(job'[k])
    <2>1. /\ mail[a] # "none" => Decided(a)
          /\ mail[a] = "SENT" => acked[a] > 0
          /\ mail[a] = "SENDING" => a \in lost \/ \E k \in Handlers : a \in Hold(job[k])
          /\ acked[a] \in Nat /\ acked'[a] \in Nat /\ acked[a] <= acked'[a]
          /\ Decided(a) => Decided(a)'
      BY DEF SafeInv, MailTrue, Onward, Tables, Decided
    <2>2. CASE mail'[a] = mail[a] /\ (a \in Hold(job[h]) => a \in Hold(j) \cup lost')
      <3>1. ASSUME mail[a] = "SENDING"
            PROVE  a \in lost' \/ \E k \in Handlers : a \in Hold(job'[k])
        <4>1. CASE a \in lost
          BY <4>1 DEF Onward
        <4>2. CASE \E k \in Handlers : a \in Hold(job[k])
          <5>1. PICK k \in Handlers : a \in Hold(job[k])
            BY <4>2
          <5>2. CASE k = h
            BY <1>2, <2>2, <5>1, <5>2
          <5>3. CASE k # h
            BY <1>2, <5>1, <5>3
          <5>4. QED BY <5>2, <5>3
        <4>3. QED BY <2>1, <3>1, <4>1, <4>2
      <3>2. QED BY <2>1, <2>2, <3>1
    <2>3. CASE /\ Decided(a)' /\ (mail'[a] = "SENT" => acked'[a] > 0)
               /\ (mail'[a] = "SENDING" => a \in Hold(j))
      BY <1>2, <2>3
    <2>4. QED BY <2>2, <2>3
  <1>5. MailTrue'
    BY <1>4 DEF MailTrue, Hold, Decided
  <1>6. QED BY <1>1, <1>3, <1>5 DEF SafeInv

(* A step that leaves registrations, attendees and mails alone.            *)
LEMMA SafeMemory ==
    ASSUME SafeInv, NEW h \in Handlers, NEW j, Go(h, j), Good(h, j),
           UNCHANGED <<reg, att, mail, acked, own>>, schedule' \in Schedule,
           excuse' \in [Attendees -> 0..MaxMails], lost \subseteq lost', lost' \subseteq Attendees,
           faults' \in 0..MaxFaults, Hold(job[h]) \subseteq Hold(j) \cup lost'
    PROVE  SafeInv'
  <1>1. Tables' /\ Onward
    BY DEF SafeInv, Tables, Onward
  <1>2. PassesFollowDecision'
    BY DEF SafeInv, PassesFollowDecision
  <1>3. Good(h, j)'
    BY DEF Good, Decided
  <1>4. QED BY <1>1, <1>2, <1>3, SafeFramed

LEMMA ExcuseType ==
    ASSUME SafeInv, NEW sel, Excuse(sel)
    PROVE  excuse' \in [Attendees -> 0..MaxMails] /\ \A a \in Attendees : excuse[a] <= excuse'[a]
  <1>1. excuse' = [a \in Attendees |->
                     IF a \in sel /\ excuse[a] < MaxMails THEN excuse[a] + 1 ELSE excuse[a]]
    BY DEF Excuse
  <1>2. \A a \in Attendees : excuse[a] \in 0..MaxMails
    BY DEF SafeInv, Tables
  <1>3. ASSUME NEW a \in Attendees PROVE excuse'[a] \in 0..MaxMails /\ excuse[a] <= excuse'[a]
    <2>1. excuse[a] \in Nat /\ excuse[a] <= MaxMails /\ MaxMails \in Nat
      BY <1>2
    <2>2. excuse'[a] = IF a \in sel /\ excuse[a] < MaxMails THEN excuse[a] + 1 ELSE excuse[a]
      BY <1>1
    <2>3. CASE a \in sel /\ excuse[a] < MaxMails
      BY <2>1, <2>2, <2>3
    <2>4. CASE ~(a \in sel /\ excuse[a] < MaxMails)
      <3>1. excuse'[a] = excuse[a]
        BY <2>2, <2>4, Zenon
      <3>2. QED BY <2>1, <3>1
    <2>5. QED BY <2>3, <2>4
  <1>4. QED BY <1>1, <1>3

LEMMA SafeInit == Init => SafeInv
  <1> SUFFICES ASSUME Init PROVE SafeInv
    OBVIOUS
  <1>1. Tables
    BY DEF Init, Tables, RegistrationStatus, PassStatus, MailStatus, Schedule
  <1>2. \A h \in Handlers : job[h] = Idle
    BY DEF Init
  <1>3. job \in [Handlers -> Job] /\ \A h \in Handlers : Good(h, job[h])
    BY <1>2, IdleGood DEF Init, Good
  <1>4. PassesFollowDecision /\ MailTrue
    BY DEF Init, PassesFollowDecision, MailTrue
  <1>5. QED BY <1>1, <1>3, <1>4 DEF SafeInv

-----------------------------------------------------------------------------
(* Registrations and decisions *)

LEMMA SafeStill ==
    ASSUME SafeInv, Tables', Onward, UNCHANGED <<mail, job, acked, lost>>, PassesFollowDecision'
    PROVE  SafeInv'
  <1>1. \A h \in Handlers : Good(h, job[h])'
    BY GoodOnward DEF Tables
  <1>2. MailTrue'
    BY DEF SafeInv, MailTrue, Onward, Decided, Hold
  <1>3. QED BY <1>1, <1>2 DEF SafeInv

LEMMA Registered ==
    ASSUME SafeInv, NEW e \in Employees, Register(e)
    PROVE  SafeInv'
  <1>1. /\ reg' \in [Employees -> RegistrationStatus] /\ att' \in [Attendees -> PassStatus]
        /\ reg[e] = "none" /\ reg'[e] = "PENDING" /\ \A x \in Employees \ {e} : reg'[x] = reg[x]
        /\ \A a \in Attendees : att'[a] = IF EmployeeOf[a] = e THEN "PENDING" ELSE att[a]
    BY DEF Register, Family, SafeInv, Tables, RegistrationStatus, PassStatus
  <1>2. PassesFollowDecision'
    <2> SUFFICES ASSUME NEW a \in Attendees \ own
                 PROVE  /\ reg'[EmployeeOf[a]] = "PENDING" => att'[a] = "PENDING"
                        /\ reg'[EmployeeOf[a]] = "APPROVED" => att'[a] = "ACTIVE"
                        /\ reg'[EmployeeOf[a]] = "REJECTED" => att'[a] = "REVOKED"
      BY DEF PassesFollowDecision, Register
    <2>1. CASE EmployeeOf[a] = e
      BY <1>1, <2>1
    <2>2. CASE EmployeeOf[a] # e
      BY <1>1, <2>2 DEF SafeInv, PassesFollowDecision
    <2>3. QED BY <2>1, <2>2
  <1>3. Tables' /\ Onward
    BY <1>1 DEF Register, SafeInv, Tables, Onward, Decisions
  <1>4. QED BY <1>2, <1>3, SafeStill DEF Register

LEMMA StatusUpdated ==
    ASSUME SafeInv, NEW a \in Attendees, NEW s \in {"ACTIVE", "SUSPENDED", "REVOKED"}, UpdateStatus(a, s)
    PROVE  SafeInv'
  <1>1. Tables' /\ Onward
    BY DEF UpdateStatus, SafeInv, Tables, Onward, PassStatus
  <1>2. PassesFollowDecision'
    BY DEF UpdateStatus, SafeInv, Tables, PassesFollowDecision
  <1>3. QED BY <1>1, <1>2, SafeStill DEF UpdateStatus

(* A decision writes registrations and attendees together. *)
LEMMA DecisionCommitted ==
    ASSUME SafeInv, NEW h \in Handlers, CommitDecision(h)
    PROVE  SafeInv'
  <1> DEFINE es == job[h].employees
             v == job[h].verdict
             s == IF v = "APPROVED" THEN "ACTIVE" ELSE "REVOKED"
  <1>1. /\ es \subseteq Employees /\ v \in Decisions /\ Hold(job[h]) = {}
        /\ reg \in [Employees -> RegistrationStatus] /\ att \in [Attendees -> PassStatus]
        /\ own \subseteq Attendees
    BY DEF CommitDecision, SafeInv, Tables, Good, Job, Decisions, Hold, Sending
  <1>2. /\ reg' = [e \in Employees |-> IF e \in es THEN v ELSE reg[e]]
        /\ att' = [a \in Attendees |-> IF EmployeeOf[a] \in es THEN s ELSE att[a]]
        /\ own' = {a \in own : EmployeeOf[a] \notin es}
        /\ Go(h, Idle) /\ UNCHANGED <<mail, schedule, acked, excuse, lost, faults>>
    BY DEF CommitDecision, Finish
  <1>3. reg' \in [Employees -> RegistrationStatus] /\ att' \in [Attendees -> PassStatus]
    <2>1. \A e \in Employees : (IF e \in es THEN v ELSE reg[e]) \in RegistrationStatus
      BY <1>1 DEF Decisions, RegistrationStatus
    <2>2. \A a \in Attendees : (IF EmployeeOf[a] \in es THEN s ELSE att[a]) \in PassStatus
      BY <1>1 DEF PassStatus
    <2>3. QED BY <1>2, <2>1, <2>2
  <1>4. Tables' /\ Onward
    BY <1>1, <1>2, <1>3 DEF SafeInv, Tables, Onward, Decisions
  <1>5. PassesFollowDecision'
    <2> SUFFICES ASSUME NEW a \in Attendees, a \notin own'
                 PROVE  /\ reg'[EmployeeOf[a]] = "PENDING" => att'[a] = "PENDING"
                        /\ reg'[EmployeeOf[a]] = "APPROVED" => att'[a] = "ACTIVE"
                        /\ reg'[EmployeeOf[a]] = "REJECTED" => att'[a] = "REVOKED"
      BY DEF PassesFollowDecision
    <2>1. EmployeeOf[a] \in Employees
      OBVIOUS
    <2>2. CASE EmployeeOf[a] \in es
      BY <1>1, <1>2, <2>1, <2>2 DEF Decisions
    <2>3. CASE EmployeeOf[a] \notin es
      BY <1>2, <2>1, <2>3 DEF SafeInv, PassesFollowDecision
    <2>4. QED BY <2>2, <2>3
  <1>6. QED BY <1>1, <1>2, <1>4, <1>5, IdleGood, SafeFramed

LEMMA Requested ==
    ASSUME SafeInv, NEW k \in Desks,
           \/ \E es \in SUBSET Employees, v \in {"APPROVED", "REJECTED"} : BeginDecision(k, es, v)
           \/ BeginGenerate(k)
           \/ \E b \in BOOLEAN : BeginUpsert(k, b)
    PROVE  SafeInv'
  <1>1. /\ k \in Handlers /\ k \notin Ticks /\ Hold(job[k]) = {}
        /\ schedule \in Schedule /\ excuse \in [Attendees -> 0..MaxMails]
        /\ lost \subseteq Attendees /\ faults \in 0..MaxFaults
    <2>1. job[k].at = "idle"
      BY DEF BeginDecision, BeginGenerate, BeginUpsert, Idling
    <2>2. QED BY <2>1 DEF SafeInv, Tables, Handlers, Hold, Sending
  <1>2. CASE \E es \in SUBSET Employees, v \in {"APPROVED", "REJECTED"} : BeginDecision(k, es, v)
    <2>1. PICK es \in SUBSET Employees, v \in {"APPROVED", "REJECTED"} : BeginDecision(k, es, v)
      BY <1>2
    <2>2. PICK able : able = {e \in es : IF v = "APPROVED" THEN reg[e] = "PENDING" ELSE reg[e] # "none"}
      OBVIOUS
    <2>3. PICK j : j = [Idle EXCEPT !.at = "decide", !.verdict = v, !.employees = able]
      OBVIOUS
    <2>4. Go(k, j)
      BY <2>1, <2>2, <2>3 DEF BeginDecision
    <2>5. able \subseteq Employees /\ \A e \in able : reg[e] # "none"
      BY <2>2
    <2>6. j \in Job /\ j.at = "decide" /\ j.cur = {} /\ j.employees = able
      BY <2>3, <2>5 DEF Idle, Job, Schedule
    <2>7. Good(k, j)
      BY <1>1, <2>5, <2>6 DEF Good, Sending
    <2>8. QED BY <1>1, <2>1, <2>4, <2>7, SafeMemory DEF BeginDecision
  <1>3. CASE BeginGenerate(k)
    <2>1. PICK todo : todo = {a \in Attendees : Eligible(a)}
      OBVIOUS
    <2>2. PICK j : j = [Idle EXCEPT !.at = "generate", !.todo = todo]
      OBVIOUS
    <2>3. \A a \in todo : Decided(a)
      BY <2>1 DEF Eligible, Decided, Decisions
    <2>4. j \in Job /\ j.at = "generate" /\ j.cur = {} /\ j.todo = todo
      BY <2>1, <2>2 DEF Idle, Job, Schedule
    <2>5. Good(k, j)
      BY <2>3, <2>4 DEF Good, Sending
    <2>6. QED BY <1>1, <1>3, <2>1, <2>2, <2>5, SafeMemory DEF BeginGenerate
  <1>4. CASE \E b \in BOOLEAN : BeginUpsert(k, b)
    <2>1. PICK b \in BOOLEAN : BeginUpsert(k, b)
      BY <1>4
    <2>2. PICK j : j = [Idle EXCEPT !.at = "save", !.copy = [schedule EXCEPT !.enabled = b]]
      OBVIOUS
    <2>3. j \in Job /\ j.at = "save" /\ j.cur = {}
      BY <1>1, <2>2 DEF Idle, Job, Schedule
    <2>4. Good(k, j)
      BY <1>1, <2>3 DEF Good, Sending
    <2>5. QED BY <1>1, <2>1, <2>2, <2>4, SafeMemory DEF BeginUpsert
  <1>5. QED BY <1>2, <1>3, <1>4

-----------------------------------------------------------------------------
(* Passes and their mails *)

LEMMA Dispatched ==
    ASSUME SafeInv, NEW t \in Ticks, BeginDispatch(t)
    PROVE  SafeInv'
  <1>1. /\ t \in Handlers /\ Hold(job[t]) = {}
        /\ schedule \in Schedule /\ excuse \in [Attendees -> 0..MaxMails]
        /\ lost \subseteq Attendees /\ faults \in 0..MaxFaults
    BY DEF SafeInv, Tables, Handlers, Hold, Sending, BeginDispatch, Idling
  <1>2. PICK todo : todo = {a \in Attendees : Eligible(a)}
    OBVIOUS
  <1>3. PICK j : j = [Idle EXCEPT !.at = "generate", !.todo = todo]
    OBVIOUS
  <1>4. \A a \in todo : Decided(a)
    BY <1>2 DEF Eligible, Decided, Decisions
  <1>5. j \in Job /\ j.at = "generate" /\ j.cur = {} /\ j.todo = todo
    BY <1>2, <1>3 DEF Idle, Job, Schedule
  <1>6. Good(t, j)
    BY <1>4, <1>5 DEF Good, Sending
  <1>7. QED BY <1>1, <1>2, <1>3, <1>6, SafeMemory DEF BeginDispatch

(* A selection takes passes of decided registrations.                      *)
LEMMA Selected ==
    ASSUME SafeInv, NEW h \in Handlers, Hold(job[h]) = {}, NEW sel \in SUBSET Attendees, NEW excused,
           SelectPasses(h, sel, excused), \A a \in sel : mail[a] # "none"
    PROVE  SafeInv'
  <1>1. schedule \in Schedule /\ lost \subseteq Attendees /\ faults \in 0..MaxFaults
    BY DEF SafeInv, Tables
  <1>2. excuse' \in [Attendees -> 0..MaxMails]
    BY ExcuseType DEF SelectPasses
  <1>3. PICK j : j = [Idle EXCEPT !.at = "send", !.todo = sel]
    OBVIOUS
  <1>4. j \in Job /\ j.at = "send" /\ j.cur = {} /\ j.todo = sel
    BY <1>3 DEF Idle, Job, Schedule, Sending
  <1>5. \A a \in sel : Decided(a)
    BY DEF SafeInv, MailTrue
  <1>6. Good(h, j)
    BY <1>4, <1>5 DEF Good, Sending
  <1>7. Go(h, j) /\ UNCHANGED <<reg, att, mail, schedule, acked, lost, own, faults>>
    BY <1>3 DEF SelectPasses
  <1>8. QED BY <1>1, <1>2, <1>6, <1>7, SafeMemory

LEMMA Selecting ==
    ASSUME SafeInv, NEW h \in Handlers,
           \/ BeginDispatchMails(h)
           \/ \E b \in BOOLEAN : BeginSend(h, b)
           \/ \E a \in Attendees : BeginResend(h, a)
    PROVE  SafeInv'
  <1>1. Hold(job[h]) = {}
    BY DEF BeginDispatchMails, BeginSend, BeginResend, Idling, Hold, Sending
  <1>2. \A b \in BOOLEAN : Due(b) \subseteq Attendees /\ \A a \in Due(b) : mail[a] # "none"
    BY DEF Due
  <1>3. CASE BeginDispatchMails(h)
    <2>1. SelectPasses(h, Due(FALSE), {})
      BY <1>3 DEF BeginDispatchMails
    <2>2. QED BY <1>1, <1>2, <2>1, Selected
  <1>4. CASE \E b \in BOOLEAN : BeginSend(h, b)
    <2>1. PICK b \in BOOLEAN : SelectPasses(h, Due(b), {})
      BY <1>4 DEF BeginSend
    <2>2. QED BY <1>1, <1>2, <2>1, Selected
  <1>5. CASE \E a \in Attendees : BeginResend(h, a)
    <2>1. PICK a \in Attendees : mail[a] # "none" /\ SelectPasses(h, {a}, {a})
      BY <1>5 DEF BeginResend
    <2>2. {a} \in SUBSET Attendees /\ \A x \in {a} : mail[x] # "none"
      BY <2>1
    <2>3. QED BY <1>1, <2>1, <2>2, Selected
  <1>6. QED BY <1>3, <1>4, <1>5

(* Steps that end a request or only remember. *)
LEMMA SafeFinish ==
    ASSUME SafeInv, NEW h \in Handlers, Finish(h), Hold(job[h]) \subseteq lost',
           UNCHANGED <<reg, att, mail, acked, excuse, own>>, schedule' \in Schedule,
           lost \subseteq lost', lost' \subseteq Attendees, faults' \in 0..MaxFaults
    PROVE  SafeInv'
  <1>1. excuse' \in [Attendees -> 0..MaxMails]
    BY DEF SafeInv, Tables
  <1>2. QED BY <1>1, IdleGood, SafeMemory DEF Finish

LEMMA Ended ==
    ASSUME SafeInv, NEW h \in Handlers,
           SaveSchedule(h) \/ WriteResult(h) \/ FinishGenerate(h) \/ Lose(h)
    PROVE  SafeInv'
  <1>1. /\ schedule \in Schedule /\ lost \subseteq Attendees /\ faults \in 0..MaxFaults
        /\ job[h] \in Job /\ job[h].copy \in Schedule /\ job[h].cur \subseteq Attendees
    BY DEF SafeInv, Tables, Job
  <1>2. CASE SaveSchedule(h)
    BY <1>1, <1>2, SafeFinish DEF SaveSchedule, Hold, Sending
  <1>3. CASE WriteResult(h)
    <2>1. schedule' \in Schedule
      BY <1>1, <1>3 DEF WriteResult, Schedule
    <2>2. QED BY <1>1, <1>3, <2>1, SafeFinish DEF WriteResult, Hold, Sending
  <1>4. CASE FinishGenerate(h)
    BY <1>1, <1>4, SafeFinish DEF FinishGenerate, Hold, Sending
  <1>5. CASE Lose(h)
    BY <1>1, <1>5, SafeFinish DEF Lose, Hold
  <1>6. QED BY <1>2, <1>3, <1>4, <1>5

LEMMA SendFinished ==
    ASSUME SafeInv, NEW h \in Handlers, FinishSend(h)
    PROVE  SafeInv'
  <1>1. /\ schedule \in Schedule /\ lost \subseteq Attendees /\ faults \in 0..MaxFaults
        /\ excuse \in [Attendees -> 0..MaxMails] /\ Good(h, job[h])
        /\ job[h].at = "send" /\ job[h].todo = {}
        /\ UNCHANGED <<reg, att, mail, schedule, acked, excuse, lost, own, faults>>
    BY DEF SafeInv, Tables, FinishSend
  <1>2. Hold(job[h]) = {}
    BY <1>1 DEF Good, Hold, Sending
  <1>3. CASE Finish(h)
    BY <1>1, <1>2, <1>3, SafeFinish
  <1>4. CASE ~Finish(h)
    <2>1. PICK j : j = [job[h] EXCEPT !.at = "write", !.copy = schedule]
      OBVIOUS
    <2>2. Go(h, j)
      BY <1>4, <2>1 DEF FinishSend
    <2>3. j \in Job /\ j.at = "write" /\ j.cur = {} /\ j.todo = {}
      BY <1>1, <2>1 DEF Good, Job
    <2>4. Good(h, j)
      BY <2>3 DEF Good, Sending
    <2>5. QED BY <1>1, <1>2, <2>2, <2>4, SafeMemory
  <1>5. QED BY <1>3, <1>4

LEMMA PassFound ==
    ASSUME SafeInv, NEW h \in Handlers, NEW a \in Attendees, FindPass(h, a)
    PROVE  SafeInv'
  <1>1. /\ schedule \in Schedule /\ lost \subseteq Attendees /\ faults \in 0..MaxFaults
        /\ excuse \in [Attendees -> 0..MaxMails] /\ Good(h, job[h]) /\ Hold(job[h]) = {}
        /\ job[h].at = "generate" /\ a \in job[h].todo /\ job[h].cur = {}
        /\ UNCHANGED <<reg, att, mail, schedule, acked, excuse, lost, own, faults>>
    BY DEF SafeInv, Tables, FindPass, Hold, Sending, Good
  <1>2. PICK j : /\ Go(h, j)
                 /\ \/ j = [job[h] EXCEPT !.todo = @ \ {a}]
                    \/ j = [job[h] EXCEPT !.at = "create", !.todo = @ \ {a}, !.cur = {a}]
    BY DEF FindPass
  <1>3. /\ j \in Job /\ j.at \in {"generate", "create"} /\ j.todo = job[h].todo \ {a}
        /\ j.cur = IF j.at = "create" THEN {a} ELSE {}
    <2>1. job[h] \in Job
      BY <1>1 DEF Good
    <2>2. CASE j = [job[h] EXCEPT !.todo = @ \ {a}]
      BY <1>1, <2>1, <2>2 DEF Job
    <2>3. CASE j = [job[h] EXCEPT !.at = "create", !.todo = @ \ {a}, !.cur = {a}]
      BY <1>1, <2>1, <2>3 DEF Job
    <2>4. QED BY <1>2, <2>2, <2>3
  <1>4. Good(h, j)
    BY <1>1, <1>3 DEF Good, Sending
  <1>5. QED BY <1>1, <1>2, <1>4, SafeMemory

(* The steps that write a mail's status or count its acknowledgement.      *)
LEMMA MailWritten ==
    ASSUME SafeInv, NEW h \in Handlers, NEW j, Go(h, j), Good(h, j)',
           mail' \in [Attendees -> MailStatus], acked' \in [Attendees -> 0..MaxMails],
           \A a \in Attendees : acked[a] <= acked'[a],
           UNCHANGED <<reg, att, schedule, excuse, lost, own, faults>>,
           \A a \in Attendees :
             \/ mail'[a] = mail[a] /\ (a \in Hold(job[h]) => a \in Hold(j))
             \/ /\ Decided(a) /\ (mail'[a] = "SENT" => acked'[a] > 0)
                /\ (mail'[a] = "SENDING" => a \in Hold(j))
    PROVE  SafeInv'
  <1>1. Tables' /\ Onward
    BY DEF SafeInv, Tables, Onward
  <1>2. PassesFollowDecision'
    BY DEF SafeInv, PassesFollowDecision
  <1>3. \A a \in Attendees : Decided(a)' <=> Decided(a)
    BY DEF Decided
  <1>4. \A a \in Attendees :
             \/ mail'[a] = mail[a] /\ (a \in Hold(job[h]) => a \in Hold(j) \cup lost')
             \/ /\ Decided(a)' /\ (mail'[a] = "SENT" => acked'[a] > 0)
                /\ (mail'[a] = "SENDING" => a \in Hold(j))
    BY <1>3
  <1>5. QED BY <1>1, <1>2, <1>4, SafeFramed

LEMMA PassCreated ==
    ASSUME SafeInv, NEW h \in Handlers, NEW a \in Attendees, CreatePass(h, a)
    PROVE  SafeInv'
  <1>1. /\ Good(h, job[h]) /\ Hold(job[h]) = {} /\ job[h].at = "create" /\ job[h].cur = {a}
        /\ UNCHANGED <<reg, att, schedule, acked, excuse, lost, own, faults>>
        /\ mail \in [Attendees -> MailStatus] /\ acked \in [Attendees -> 0..MaxMails]
        /\ schedule \in Schedule /\ lost \subseteq Attendees /\ faults \in 0..MaxFaults
    BY DEF SafeInv, Tables, CreatePass, Hold, Sending
  <1>2. CASE mail[a] # "none"
    BY <1>1, <1>2, SafeFinish DEF CreatePass
  <1>3. CASE mail[a] = "none"
    <2>1. mail' = [mail EXCEPT ![a] = "PENDING"]
      BY <1>3 DEF CreatePass
    <2>2. PICK j : j = [job[h] EXCEPT !.at = "generate", !.cur = {}]
      OBVIOUS
    <2>3. Go(h, j)
      BY <1>3, <2>2 DEF CreatePass
    <2>4. j \in Job /\ j.at = "generate" /\ j.cur = {} /\ j.todo = job[h].todo
      BY <1>1, <2>2 DEF Good, Job
    <2>5. Good(h, j)'
      BY <1>1, <2>4 DEF Good, Sending, Decided
    <2>6. /\ mail' \in [Attendees -> MailStatus] /\ mail'[a] = "PENDING"
          /\ \A b \in Attendees \ {a} : mail'[b] = mail[b]
      BY <1>1, <2>1 DEF MailStatus
    <2>7. Decided(a)
      BY <1>1 DEF Good
    <2>8. \A b \in Attendees : acked[b] <= acked'[b]
      BY <1>1
    <2>9. QED BY <1>1, <2>3, <2>5, <2>6, <2>7, <2>8, MailWritten
  <1>4. QED BY <1>2, <1>3

LEMMA SendingMarked ==
    ASSUME SafeInv, NEW h \in Handlers, NEW a \in Attendees, MarkSending(h, a)
    PROVE  SafeInv'
  <1>1. /\ Good(h, job[h]) /\ job[h].at = "send" /\ a \in job[h].todo /\ job[h].cur = {}
        /\ UNCHANGED <<reg, att, schedule, acked, excuse, lost, own, faults>>
        /\ mail \in [Attendees -> MailStatus] /\ acked \in [Attendees -> 0..MaxMails]
        /\ mail' = [mail EXCEPT ![a] = "SENDING"]
    BY DEF SafeInv, Tables, MarkSending, Good
  <1>2. PICK j : j = [job[h] EXCEPT !.at = "sending", !.todo = @ \ {a}, !.cur = {a}]
    OBVIOUS
  <1>3. Go(h, j)
    BY <1>2 DEF MarkSending
  <1>4. j \in Job /\ j.at = "sending" /\ j.cur = {a} /\ j.todo = job[h].todo \ {a}
    BY <1>1, <1>2 DEF Good, Job, Sending
  <1>5. Good(h, j)' /\ Hold(j) = {a} /\ Hold(job[h]) = {} /\ Decided(a)
    BY <1>1, <1>4 DEF Good, Sending, Decided, Hold
  <1>6. /\ mail' \in [Attendees -> MailStatus] /\ mail'[a] = "SENDING"
        /\ \A b \in Attendees \ {a} : mail'[b] = mail[b]
    BY <1>1 DEF MailStatus
  <1>7. \A b \in Attendees : acked[b] <= acked'[b]
    BY <1>1
  <1>8. QED BY <1>1, <1>3, <1>5, <1>6, <1>7, MailWritten

LEMMA Answered ==
    ASSUME SafeInv, NEW h \in Handlers, NEW a \in Attendees, NEW ok \in BOOLEAN, Answer(h, a, ok)
    PROVE  SafeInv'
  <1>1. /\ Good(h, job[h]) /\ job[h].at = "sending" /\ job[h].cur = {a}
        /\ UNCHANGED <<reg, att, mail, schedule, excuse, lost, own, faults>>
        /\ mail \in [Attendees -> MailStatus] /\ acked \in [Attendees -> 0..MaxMails]
        /\ \A b \in Attendees : acked[b] \in 0..MaxMails
    BY DEF SafeInv, Tables, Answer
  <1>2. /\ acked' \in [Attendees -> 0..MaxMails]
        /\ \A b \in Attendees : acked[b] <= acked'[b]
        /\ ok => acked'[a] > 0
    <2>1. CASE ok
      <3>1. acked[a] < MaxMails /\ acked' = [acked EXCEPT ![a] = acked[a] + 1]
        BY <2>1 DEF Answer
      <3>2. acked[a] + 1 \in 0..MaxMails
        BY <1>1, <3>1
      <3>3. QED BY <1>1, <3>1, <3>2
    <2>2. CASE ~ok
      BY <1>1, <2>2 DEF Answer
    <2>3. QED BY <2>1, <2>2
  <1>3. PICK j : j = [job[h] EXCEPT !.at = IF ok THEN "acked" ELSE "refused"]
    OBVIOUS
  <1>4. Go(h, j)
    BY <1>3 DEF Answer
  <1>5. /\ j \in Job /\ j.at = IF ok THEN "acked" ELSE "refused"
        /\ j.cur = {a} /\ j.todo = job[h].todo
    BY <1>1, <1>3 DEF Good, Job, Sending
  <1>6. Good(h, j)'
    BY <1>1, <1>2, <1>5 DEF Good, Sending, Decided
  <1>7. Hold(j) = {a} /\ Hold(job[h]) = {a}
    BY <1>1, <1>5 DEF Hold, Sending
  <1>8. QED BY <1>1, <1>2, <1>4, <1>6, <1>7, MailWritten

LEMMA AnswerRecorded ==
    ASSUME SafeInv, NEW h \in Handlers, NEW a \in Attendees, RecordAnswer(h, a)
    PROVE  SafeInv'
  <1>1. /\ Good(h, job[h]) /\ job[h].at \in {"acked", "refused"} /\ job[h].cur = {a}
        /\ UNCHANGED <<reg, att, schedule, acked, excuse, lost, own, faults>>
        /\ mail \in [Attendees -> MailStatus] /\ acked \in [Attendees -> 0..MaxMails]
        /\ mail' = [mail EXCEPT ![a] = IF job[h].at = "acked" THEN "SENT" ELSE "FAILED"]
    BY DEF SafeInv, Tables, RecordAnswer
  <1>2. PICK j : j = [job[h] EXCEPT !.at = "send", !.cur = {}, !.failed = @ \/ job[h].at = "refused"]
    OBVIOUS
  <1>3. Go(h, j)
    BY <1>2 DEF RecordAnswer
  <1>4. j \in Job /\ j.at = "send" /\ j.cur = {} /\ j.todo = job[h].todo
    <2>1. job[h] \in Job /\ (job[h].failed \/ job[h].at = "refused") \in BOOLEAN
      BY <1>1 DEF Good, Job
    <2>2. QED BY <1>2, <2>1 DEF Job, Sending
  <1>5. Good(h, j)'
    BY <1>1, <1>4 DEF Good, Sending, Decided
  <1>6. /\ mail' \in [Attendees -> MailStatus]
        /\ mail'[a] = IF job[h].at = "acked" THEN "SENT" ELSE "FAILED"
        /\ \A b \in Attendees \ {a} : mail'[b] = mail[b]
    BY <1>1 DEF MailStatus
  <1>7. Decided(a) /\ Hold(job[h]) = {a} /\ (job[h].at = "acked" => acked[a] > 0)
    BY <1>1 DEF Good, Sending, Hold
  <1>8. \A b \in Attendees : acked[b] <= acked'[b]
    BY <1>1
  <1>9. QED BY <1>1, <1>3, <1>5, <1>6, <1>7, <1>8, MailWritten

(* The invariant is inductive. *)
LEMMA SafeNext == SafeInv /\ [Next]_vars => SafeInv'
  <1> SUFFICES ASSUME SafeInv, [Next]_vars PROVE SafeInv'
    OBVIOUS
  <1>1. ASSUME NEW e \in Employees, Register(e) PROVE SafeInv'
    BY <1>1, Registered
  <1>2. ASSUME NEW a \in Attendees, NEW s \in {"ACTIVE", "SUSPENDED", "REVOKED"}, UpdateStatus(a, s)
        PROVE  SafeInv'
    BY <1>2, StatusUpdated
  <1>3. ASSUME NEW t \in Ticks, BeginDispatch(t) PROVE SafeInv'
    BY <1>3, Dispatched
  <1>4. ASSUME NEW k \in Desks, Request(k) PROVE SafeInv'
    BY <1>4, Requested, Selecting DEF Request, Handlers
  <1>5. ASSUME NEW h \in Handlers, Step(h) PROVE SafeInv'
    BY <1>5, DecisionCommitted, Ended, Selecting, PassFound, PassCreated, SendingMarked, AnswerRecorded,
       Answered, SendFinished DEF Step
  <1>6. ASSUME NEW h \in Handlers, Lose(h) PROVE SafeInv'
    BY <1>6, Ended
  <1>7. CASE UNCHANGED vars
    BY <1>7 DEF SafeInv, Tables, Good, PassesFollowDecision, MailTrue, Decided, Hold, vars
  <1>8. QED BY <1>1, <1>2, <1>3, <1>4, <1>5, <1>6, <1>7 DEF Next

LEMMA SafeAlways == Spec => []SafeInv
  BY SafeInit, SafeNext, PTL DEF Spec

(* Every row and every request in flight is well formed. *)
THEOREM TypeCorrect == Spec => []TypeOK
  <1>1. SafeInv => TypeOK
    BY DEF SafeInv, Tables, Good, TypeOK, Handlers
  <1>2. QED BY <1>1, SafeAlways, PTL

(* A family's passes follow the last decision written. *)
THEOREM PassesAlwaysFollow == Spec => []PassesFollowDecision
  <1>1. SafeInv => PassesFollowDecision
    BY DEF SafeInv
  <1>2. QED BY <1>1, SafeAlways, PTL

(* Only a lost handler leaves a mail in SENDING, SENT was sent, and a pass *)
(* belongs to a decided registration.                                      *)
THEOREM MailStatusAlwaysTrue == Spec => []MailStatusIsTrue
  <1>1. SafeInv => MailStatusIsTrue
    BY DEF SafeInv, MailTrue, Hold, MailStatusIsTrue, Decided, Decisions
  <1>2. QED BY <1>1, SafeAlways, PTL

-----------------------------------------------------------------------------
(* Mails and the reasons for them *)

Outs(j, a)  == j.at = "sending" /\ a \in j.cur
Waits(j, a) == (j.at \in Sending /\ a \in j.todo) \/ Outs(j, a)
Refuses(j, a) == j.at = "refused" /\ a \in j.cur

Waiting(a) == {h \in Handlers : Waits(job[h], a)}
Out(a)     == {h \in Handlers : Outs(job[h], a)}
Refused(a) == \E h \in Handlers : Refuses(job[h], a)
Retriable  == {"none", "PENDING", "FAILED"}

Within(a) ==
  \/ excuse[a] = MaxMails
  \/ /\ acked[a] + Cardinality(Waiting(a)) + (IF Refused(a) THEN 1 ELSE 0) <= 1 + excuse[a]
     /\ mail[a] \in Retriable => acked[a] + Cardinality(Out(a)) <= excuse[a]

Budget == \A a \in Attendees : Within(a)

One(b) == IF b THEN 1 ELSE 0

LEMMA CountsAreNat ==
    ASSUME NEW a
    PROVE  /\ IsFiniteSet(Waiting(a)) /\ IsFiniteSet(Out(a))
           /\ Cardinality(Waiting(a)) \in Nat /\ Cardinality(Out(a)) \in Nat
           /\ Cardinality(Out(a)) <= Cardinality(Waiting(a))
  <1>1. Out(a) \subseteq Waiting(a) /\ Waiting(a) \subseteq Handlers /\ IsFiniteSet(Handlers)
    BY DEF Out, Waiting, Waits, Handlers
  <1>2. IsFiniteSet(Waiting(a)) /\ IsFiniteSet(Out(a))
    BY <1>1, FS_Subset
  <1>3. QED BY <1>1, <1>2, FS_Subset, FS_CardinalityType

(* A set that at most gains or loses one member. *)
LEMMA SetStep ==
    ASSUME NEW S, NEW T, NEW h, IsFiniteSet(S), \A k : k # h => (k \in T <=> k \in S)
    PROVE  Cardinality(T) = Cardinality(S) + One(h \in T) - One(h \in S)
  <1>1. Cardinality(S) \in Nat
    BY FS_CardinalityType
  <1>2. CASE h \in S /\ h \in T
    <2>1. S = T
      BY <1>2
    <2>2. QED BY <1>1, <1>2, <2>1 DEF One
  <1>3. CASE h \in S /\ h \notin T
    <2>1. T = S \ {h}
      BY <1>3
    <2>2. Cardinality(T) = Cardinality(S) - 1
      BY <1>3, <2>1, FS_RemoveElement
    <2>3. QED BY <1>1, <1>3, <2>2 DEF One
  <1>4. CASE h \notin S /\ h \in T
    <2>1. T = S \cup {h}
      BY <1>4
    <2>2. Cardinality(T) = Cardinality(S) + 1
      BY <1>4, <2>1, FS_AddElement
    <2>3. QED BY <1>1, <1>4, <2>2 DEF One
  <1>5. CASE h \notin S /\ h \notin T
    <2>1. S = T
      BY <1>5
    <2>2. QED BY <1>1, <1>5, <2>1 DEF One
  <1>6. QED BY <1>2, <1>3, <1>4, <1>5

LEMMA CountStep ==
    ASSUME SafeInv, NEW h \in Handlers, NEW j, Go(h, j), NEW a
    PROVE  /\ Cardinality(Waiting(a))'
                = Cardinality(Waiting(a)) + One(Waits(j, a)) - One(Waits(job[h], a))
           /\ Cardinality(Out(a))' = Cardinality(Out(a)) + One(Outs(j, a)) - One(Outs(job[h], a))
           /\ Refused(a)' => Refuses(j, a) \/ Refused(a)
  <1>1. job'[h] = j /\ \A k \in Handlers \ {h} : job'[k] = job[k]
    BY DEF SafeInv, Go
  <1>2. \A k : k # h => (k \in Waiting(a)' <=> k \in Waiting(a))
    BY <1>1 DEF Waiting, Waits, Outs
  <1>3. \A k : k # h => (k \in Out(a)' <=> k \in Out(a))
    BY <1>1 DEF Out, Outs
  <1>4. (h \in Waiting(a)' <=> Waits(j, a)) /\ (h \in Waiting(a) <=> Waits(job[h], a))
    BY <1>1 DEF Waiting, Waits, Outs
  <1>5. (h \in Out(a)' <=> Outs(j, a)) /\ (h \in Out(a) <=> Outs(job[h], a))
    BY <1>1 DEF Out, Outs
  <1>6. Cardinality(Waiting(a)') = Cardinality(Waiting(a)) + One(Waits(j, a)) - One(Waits(job[h], a))
    <2>1. Cardinality(Waiting(a)')
            = Cardinality(Waiting(a)) + One(h \in Waiting(a)') - One(h \in Waiting(a))
      BY <1>2, CountsAreNat, SetStep
    <2>2. QED BY <1>4, <2>1 DEF One
  <1>7. Cardinality(Out(a)') = Cardinality(Out(a)) + One(Outs(j, a)) - One(Outs(job[h], a))
    <2>1. Cardinality(Out(a)') = Cardinality(Out(a)) + One(h \in Out(a)') - One(h \in Out(a))
      BY <1>3, CountsAreNat, SetStep
    <2>2. QED BY <1>5, <2>1 DEF One
  <1>8. Refused(a)' => Refuses(j, a) \/ Refused(a)
    BY <1>1 DEF Refused, Refuses
  <1>9. QED BY <1>6, <1>7, <1>8

(* Nothing new is in anybody's hands. *)
LEMMA WithinCalm ==
    ASSUME SafeInv, SafeInv', NEW h \in Handlers, NEW j, Go(h, j), NEW a \in Attendees, Within(a),
           Waits(j, a) => Waits(job[h], a), Outs(j, a) => Outs(job[h], a),
           Refuses(j, a) => Refuses(job[h], a),
           acked'[a] = acked[a], excuse'[a] = excuse[a],
           mail'[a] \in Retriable => mail[a] \in Retriable
    PROVE  Within(a)'
  <1> DEFINE W == Cardinality(Waiting(a))
             O == Cardinality(Out(a))
  <1>1. acked[a] \in Nat /\ excuse[a] \in Nat /\ MaxMails \in Nat
    BY DEF SafeInv, Tables
  <1>2. W \in Nat /\ O \in Nat
    BY CountsAreNat
  <1>3. W' \in Int /\ O' \in Int /\ W' <= W /\ O' <= O
    BY <1>2, CountStep DEF One
  <1>4. Refused(a)' => Refused(a)
    BY CountStep DEF Refused
  <1> HIDE DEF W, O
  <1>5. CASE excuse[a] = MaxMails
    BY <1>5 DEF Within
  <1>6. CASE excuse[a] # MaxMails
    <2>1. /\ acked[a] + W + (IF Refused(a) THEN 1 ELSE 0) <= 1 + excuse[a]
          /\ mail[a] \in Retriable => acked[a] + O <= excuse[a]
      BY <1>6 DEF Within, W, O
    <2>2. /\ acked'[a] + W' + (IF Refused(a)' THEN 1 ELSE 0) <= 1 + excuse'[a]
          /\ mail'[a] \in Retriable => acked'[a] + O' <= excuse'[a]
      BY <1>1, <1>2, <1>3, <1>4, <2>1
    <2>3. QED BY <2>2 DEF Within, W, O
  <1>7. QED BY <1>5, <1>6

LEMMA WithinStill ==
    ASSUME NEW a \in Attendees, Within(a), UNCHANGED <<job, mail, acked, excuse>>
    PROVE  Within(a)'
  BY DEF Within, Waiting, Out, Refused, Refuses, Waits, Outs

(* A run that takes a pass either finds it free, and then a mail to spare, *)
(* or brings a reason of its own.                                          *)
LEMMA WithinSelect ==
    ASSUME SafeInv, SafeInv', NEW h \in Handlers, NEW taken, NEW excused, SelectPasses(h, taken, excused),
           job[h].at \notin Sending, NEW a \in Attendees, Within(a),
           a \in taken => mail[a] \in Retriable \/ a \in excused
    PROVE  Within(a)'
  <1> DEFINE j == [Idle EXCEPT !.at = "send", !.todo = taken]
             W == Cardinality(Waiting(a))
             O == Cardinality(Out(a))
  <1>1. j.at = "send" /\ j.todo = taken /\ j.cur = {} /\ Go(h, j)
    BY DEF SelectPasses, Idle
  <1>2. ~Waits(job[h], a) /\ ~Outs(job[h], a) /\ ~Outs(j, a) /\ ~Refuses(j, a) /\ (Waits(j, a) <=> a \in taken)
    BY <1>1 DEF Waits, Outs, Refuses, Sending
  <1>3. acked' = acked /\ mail' = mail
    BY DEF SelectPasses
  <1>4. excuse'[a] = IF (a \in taken /\ (a \in excused \/ Held(a))) /\ excuse[a] < MaxMails
                     THEN excuse[a] + 1 ELSE excuse[a]
    BY DEF SelectPasses, Excuse
  <1>5. acked[a] \in Nat /\ excuse[a] \in 0..MaxMails /\ MaxMails \in Nat
    BY DEF SafeInv, Tables
  <1>6. W \in Nat /\ O \in Nat
    BY CountsAreNat
  <1> HIDE DEF j
  <1>7. W' = W + One(a \in taken) /\ O' = O /\ (Refused(a)' => Refused(a))
    <2>1. /\ W' = W + One(Waits(j, a)) - One(Waits(job[h], a))
          /\ O' = O + One(Outs(j, a)) - One(Outs(job[h], a))
          /\ Refused(a)' => Refuses(j, a) \/ Refused(a)
      BY <1>1, CountStep
    <2>2. One(Waits(j, a)) = One(a \in taken) /\ One(Waits(job[h], a)) = 0
          /\ One(Outs(j, a)) = 0 /\ One(Outs(job[h], a)) = 0
      BY <1>2 DEF One
    <2> HIDE DEF W, O
    <2>3. One(a \in taken) \in {0, 1}
      BY DEF One
    <2>4. QED BY <1>2, <1>6, <2>1, <2>2, <2>3
  <1>8. CASE a \notin taken
    <2>1. UNCHANGED excuse[a]
      BY <1>4, <1>8
    <2>2. QED BY <1>1, <1>2, <1>3, <1>8, <2>1, WithinCalm
  <1>9. CASE excuse'[a] = MaxMails
    BY <1>9 DEF Within
  <1>10. CASE a \in taken /\ excuse'[a] # MaxMails /\ (a \in excused \/ Held(a))
    <2>1. excuse'[a] = excuse[a] + 1 /\ excuse[a] # MaxMails
      BY <1>4, <1>5, <1>10
    <2>2. /\ acked[a] + W + (IF Refused(a) THEN 1 ELSE 0) <= 1 + excuse[a]
          /\ mail[a] \in Retriable => acked[a] + O <= excuse[a]
      BY <2>1 DEF Within
    <2>3. One(a \in taken) = 1
      BY <1>10 DEF One
    <2> HIDE DEF W, O
    <2>4. /\ acked'[a] + W' + (IF Refused(a)' THEN 1 ELSE 0) <= 1 + excuse'[a]
          /\ mail'[a] \in Retriable => acked'[a] + O' <= excuse'[a]
      BY <1>3, <1>5, <1>6, <1>7, <2>1, <2>2, <2>3
    <2>5. QED BY <2>4 DEF Within, W, O
  <1>11. CASE a \in taken /\ excuse'[a] # MaxMails /\ ~(a \in excused \/ Held(a))
    <2>1. excuse'[a] = excuse[a] /\ mail[a] \in Retriable
      BY <1>4, <1>11
    <2>2. Waiting(a) = {} /\ Out(a) = {} /\ ~Refused(a)
      BY <1>11 DEF Held, Waiting, Out, Refused, Refuses, Waits, Outs, Sending
    <2>3. W = 0 /\ O = 0
      BY <2>2, FS_EmptySet
    <2>4. acked[a] + O <= excuse[a]
      BY <1>11, <2>1 DEF Within
    <2>5. One(a \in taken) = 1
      BY <1>11 DEF One
    <2> HIDE DEF W, O
    <2>6. /\ acked'[a] + W' + (IF Refused(a)' THEN 1 ELSE 0) <= 1 + excuse'[a]
          /\ mail'[a] \in Retriable => acked'[a] + O' <= excuse'[a]
      BY <1>3, <1>5, <1>6, <1>7, <2>1, <2>2, <2>3, <2>4, <2>5
    <2>7. QED BY <2>6 DEF Within, W, O
  <1>12. QED BY <1>8, <1>9, <1>10, <1>11

(* Marking moves a pass from the list to the mail in flight. *)
LEMMA WithinMark ==
    ASSUME SafeInv, SafeInv', NEW h \in Handlers, NEW a \in Attendees, MarkSending(h, a),
           NEW b \in Attendees, Within(b)
    PROVE  Within(b)'
  <1> DEFINE j == [job[h] EXCEPT !.at = "sending", !.todo = @ \ {a}, !.cur = {a}]
  <1>1. job[h] \in Job /\ job[h].at = "send" /\ job[h].cur = {}
    BY DEF SafeInv, Good, MarkSending
  <1>2. j.at = "sending" /\ j.todo = job[h].todo \ {a} /\ j.cur = {a} /\ Go(h, j)
    BY <1>1 DEF MarkSending, Job
  <1>3. a \in job[h].todo /\ mail' = [mail EXCEPT ![a] = "SENDING"]
        /\ acked' = acked /\ excuse' = excuse /\ mail \in [Attendees -> MailStatus]
    BY DEF MarkSending, SafeInv, Tables
  <1> HIDE DEF j
  <1>4. CASE b # a
    <2>1. /\ Waits(j, b) => Waits(job[h], b)
          /\ Outs(j, b) => Outs(job[h], b)
          /\ Refuses(j, b) => Refuses(job[h], b)
      BY <1>1, <1>2, <1>4 DEF Waits, Outs, Refuses, Sending
    <2>2. mail'[b] = mail[b]
      BY <1>3, <1>4
    <2>3. QED BY <1>2, <1>3, <2>1, <2>2, WithinCalm
  <1>5. CASE b = a
    <2> DEFINE W == Cardinality(Waiting(b))
    <2>1. Waits(j, b) /\ Waits(job[h], b) /\ ~Refuses(j, b)
      BY <1>1, <1>2, <1>3, <1>5 DEF Waits, Outs, Refuses, Sending
    <2>2. W \in Nat /\ W' = W /\ (Refused(b)' => Refused(b))
      BY <1>2, <2>1, CountsAreNat, CountStep DEF One
    <2>3. acked[b] \in Nat /\ excuse[b] \in Nat /\ MaxMails \in Nat
      BY DEF SafeInv, Tables
    <2>4. mail'[b] \notin Retriable
      BY <1>3, <1>5 DEF Retriable
    <2> HIDE DEF W
    <2>5. CASE excuse[b] = MaxMails
      BY <1>3, <2>5 DEF Within
    <2>6. CASE excuse[b] # MaxMails
      <3>1. acked[b] + W + (IF Refused(b) THEN 1 ELSE 0) <= 1 + excuse[b]
        BY <2>6 DEF Within, W
      <3>2. acked'[b] + W' + (IF Refused(b)' THEN 1 ELSE 0) <= 1 + excuse'[b]
        BY <1>3, <2>2, <2>3, <3>1
      <3>3. QED BY <2>4, <3>2 DEF Within, W
    <2>7. QED BY <2>5, <2>6
  <1>6. QED BY <1>4, <1>5

(* An acknowledged mail was counted while it was in flight; a refused one  *)
(* stays counted until its status is written.                              *)
LEMMA WithinAnswer ==
    ASSUME SafeInv, SafeInv', NEW h \in Handlers, NEW a \in Attendees, NEW ok \in BOOLEAN,
           Answer(h, a, ok), NEW b \in Attendees, Within(b)
    PROVE  Within(b)'
  <1> DEFINE j == [job[h] EXCEPT !.at = IF ok THEN "acked" ELSE "refused"]
  <1>1. job[h] \in Job /\ job[h].at = "sending" /\ job[h].cur = {a} /\ job[h].cur \cap job[h].todo = {}
    BY DEF SafeInv, Good, Answer
  <1>2. j.at = (IF ok THEN "acked" ELSE "refused") /\ j.todo = job[h].todo /\ j.cur = {a} /\ Go(h, j)
    BY <1>1 DEF Answer, Job
  <1>3. mail' = mail /\ excuse' = excuse
        /\ acked' = (IF ok THEN [acked EXCEPT ![a] = @ + 1] ELSE acked)
        /\ acked \in [Attendees -> 0..MaxMails]
    BY DEF Answer, SafeInv, Tables
  <1> HIDE DEF j
  <1>4. CASE b # a
    <2>1. /\ Waits(j, b) => Waits(job[h], b)
          /\ Outs(j, b) => Outs(job[h], b)
          /\ Refuses(j, b) => Refuses(job[h], b)
      BY <1>1, <1>2, <1>4 DEF Waits, Outs, Refuses, Sending
    <2>2. acked'[b] = acked[b]
      BY <1>3, <1>4
    <2>3. QED BY <1>2, <1>3, <2>1, <2>2, WithinCalm
  <1>5. CASE b = a
    <2> DEFINE W == Cardinality(Waiting(b))
               O == Cardinality(Out(b))
    <2>1. /\ ~Waits(j, b) /\ Waits(job[h], b) /\ ~Outs(j, b) /\ Outs(job[h], b)
          /\ Refuses(j, b) <=> ~ok
      BY <1>1, <1>2, <1>5 DEF Waits, Outs, Refuses, Sending
    <2>2. W \in Nat /\ O \in Nat /\ W' = W - 1 /\ O' = O - 1 /\ (Refused(b)' => ~ok \/ Refused(b))
      BY <1>2, <2>1, CountsAreNat, CountStep DEF One
    <2>3. acked[b] \in Nat /\ excuse[b] \in Nat /\ MaxMails \in Nat
          /\ acked'[b] = (IF ok THEN acked[b] + 1 ELSE acked[b])
      BY <1>3, <1>5 DEF SafeInv, Tables
    <2> HIDE DEF W, O
    <2>4. CASE excuse[b] = MaxMails
      BY <1>3, <2>4 DEF Within
    <2>5. CASE excuse[b] # MaxMails
      <3>1. /\ acked[b] + W + (IF Refused(b) THEN 1 ELSE 0) <= 1 + excuse[b]
            /\ mail[b] \in Retriable => acked[b] + O <= excuse[b]
        BY <2>5 DEF Within, W, O
      <3>2. /\ acked'[b] + W' + (IF Refused(b)' THEN 1 ELSE 0) <= 1 + excuse'[b]
            /\ mail'[b] \in Retriable => acked'[b] + O' <= excuse'[b]
        BY <1>3, <2>2, <2>3, <3>1
      <3>3. QED BY <3>2 DEF Within, W, O
    <2>6. QED BY <2>4, <2>5
  <1>6. QED BY <1>4, <1>5

(* A recorded refusal leaves one mail to spare: its own. *)
LEMMA WithinRecord ==
    ASSUME SafeInv, SafeInv', NEW h \in Handlers, NEW a \in Attendees, RecordAnswer(h, a),
           NEW b \in Attendees, Within(b)
    PROVE  Within(b)'
  <1> DEFINE j == [job[h] EXCEPT !.at = "send", !.cur = {}, !.failed = @ \/ job[h].at = "refused"]
  <1>1. job[h] \in Job /\ job[h].at \in {"acked", "refused"} /\ job[h].cur = {a}
        /\ job[h].cur \cap job[h].todo = {}
    BY DEF SafeInv, Good, RecordAnswer
  <1>2. j.at = "send" /\ j.todo = job[h].todo /\ j.cur = {} /\ Go(h, j)
    BY <1>1 DEF RecordAnswer, Job
  <1>3. mail' = [mail EXCEPT ![a] = IF job[h].at = "acked" THEN "SENT" ELSE "FAILED"]
        /\ acked' = acked /\ excuse' = excuse /\ mail \in [Attendees -> MailStatus]
    BY DEF RecordAnswer, SafeInv, Tables
  <1> HIDE DEF j
  <1>4. /\ Waits(j, b) => Waits(job[h], b)
        /\ Outs(j, b) => Outs(job[h], b)
        /\ Refuses(j, b) => Refuses(job[h], b)
    BY <1>1, <1>2 DEF Waits, Outs, Refuses, Sending
  <1>5. CASE b # a \/ job[h].at = "acked"
    <2>1. mail'[b] \in Retriable => mail[b] \in Retriable
      BY <1>3, <1>5 DEF Retriable
    <2>2. QED BY <1>2, <1>3, <1>4, <2>1, WithinCalm
  <1>6. CASE b = a /\ job[h].at = "refused"
    <2> DEFINE W == Cardinality(Waiting(b))
               O == Cardinality(Out(b))
    <2>1. ~Refuses(j, b) /\ Refuses(job[h], b)
      BY <1>1, <1>2, <1>6 DEF Refuses
    <2>2. Refused(b)
      BY <2>1 DEF Refused
    <2>3. W \in Nat /\ O \in Nat /\ O <= W
      BY CountsAreNat
    <2>4. W' \in Int /\ O' \in Int /\ W' <= W /\ O' <= O
      BY <1>2, <1>4, <2>3, CountStep DEF One
    <2>5. acked[b] \in Nat /\ excuse[b] \in Nat /\ MaxMails \in Nat
      BY DEF SafeInv, Tables
    <2> HIDE DEF W, O
    <2>6. CASE excuse[b] = MaxMails
      BY <1>3, <2>6 DEF Within
    <2>7. CASE excuse[b] # MaxMails
      <3>1. acked[b] + W + 1 <= 1 + excuse[b]
        BY <2>2, <2>7 DEF Within, W
      <3>2. /\ acked'[b] + W' + (IF Refused(b)' THEN 1 ELSE 0) <= 1 + excuse'[b]
            /\ acked'[b] + O' <= excuse'[b]
        BY <1>3, <2>3, <2>4, <2>5, <3>1
      <3>3. QED BY <3>2 DEF Within, W, O
    <2>8. QED BY <2>6, <2>7
  <1>7. QED BY <1>1, <1>5, <1>6

(* Steps of the other kinds put no pass into anybody's hands. *)
LEMMA WithinIdly ==
    ASSUME SafeInv, SafeInv', NEW h \in Handlers, \A k \in Handlers \ {h} : job'[k] = job[k],
           job'[h].at \notin Sending, acked' = acked, excuse' = excuse,
           NEW a \in Attendees, Within(a), mail'[a] \in Retriable => mail[a] \in Retriable
    PROVE  Within(a)'
  <1>1. Go(h, job'[h])
    BY DEF Go, SafeInv
  <1>2. ~Waits(job'[h], a) /\ ~Outs(job'[h], a) /\ ~Refuses(job'[h], a)
    BY DEF Waits, Outs, Refuses, Sending
  <1>3. QED BY <1>1, <1>2, WithinCalm

LEMMA WithinRequest ==
    ASSUME SafeInv, SafeInv', NEW k \in Desks, Request(k), NEW a \in Attendees, Within(a)
    PROVE  Within(a)'
  <1>1. k \in Handlers /\ (Idling(k) => job[k].at \notin Sending)
    BY DEF Handlers, Idling, Sending
  <1>2. ASSUME NEW es \in SUBSET Employees, NEW v \in Decisions, BeginDecision(k, es, v)
        PROVE  Within(a)'
    <2>1. job'[k].at = "decide" /\ \A x \in Handlers \ {k} : job'[x] = job[x]
      BY <1>1, <1>2 DEF BeginDecision, Go, Idle, SafeInv, Job
    <2>2. QED BY <1>1, <1>2, <2>1, WithinIdly DEF BeginDecision, Sending
  <1>3. CASE BeginGenerate(k)
    <2>1. job'[k].at = "generate" /\ \A x \in Handlers \ {k} : job'[x] = job[x]
      BY <1>1, <1>3 DEF BeginGenerate, Go, Idle, SafeInv, Job
    <2>2. QED BY <1>1, <1>3, <2>1, WithinIdly DEF BeginGenerate, Sending
  <1>4. ASSUME NEW b \in BOOLEAN, BeginSend(k, b) PROVE Within(a)'
    <2>1. SelectPasses(k, Due(b), {}) /\ job[k].at \notin Sending
      BY <1>1, <1>4 DEF BeginSend
    <2>2. a \in Due(b) => mail[a] \in Retriable
      BY DEF Due, Retriable
    <2>3. QED BY <1>1, <2>1, <2>2, WithinSelect
  <1>5. ASSUME NEW b \in BOOLEAN, BeginUpsert(k, b) PROVE Within(a)'
    <2>1. job'[k].at = "save" /\ \A x \in Handlers \ {k} : job'[x] = job[x]
      BY <1>1, <1>5 DEF BeginUpsert, Go, Idle, SafeInv, Job
    <2>2. QED BY <1>1, <1>5, <2>1, WithinIdly DEF BeginUpsert, Sending
  <1>6. ASSUME NEW b \in Attendees, BeginResend(k, b) PROVE Within(a)'
    <2>1. SelectPasses(k, {b}, {b}) /\ job[k].at \notin Sending
      BY <1>1, <1>6 DEF BeginResend
    <2>2. QED BY <1>1, <2>1, WithinSelect
  <1>7. QED BY <1>2, <1>3, <1>4, <1>5, <1>6 DEF Request, Decisions

LEMMA WithinStep ==
    ASSUME SafeInv, SafeInv', NEW h \in Handlers, Step(h), NEW a \in Attendees, Within(a)
    PROVE  Within(a)'
  <1>1. job[h] \in Job /\ Idle.at \notin Sending
    BY DEF SafeInv, Idle, Sending
  <1>2. CASE CommitDecision(h) \/ SaveSchedule(h) \/ FinishGenerate(h) \/ WriteResult(h)
    <2>1. job'[h].at = "idle" /\ \A x \in Handlers \ {h} : job'[x] = job[x]
      BY <1>1, <1>2 DEF CommitDecision, SaveSchedule, FinishGenerate, WriteResult, Finish, Go, Idle, SafeInv
    <2>2. UNCHANGED <<mail, acked, excuse>>
      BY <1>2 DEF CommitDecision, SaveSchedule, FinishGenerate, WriteResult
    <2>3. QED BY <2>1, <2>2, WithinIdly DEF Sending
  <1>3. CASE BeginDispatchMails(h)
    <2>1. SelectPasses(h, Due(FALSE), {}) /\ job[h].at \notin Sending
      BY <1>3 DEF BeginDispatchMails, Sending
    <2>2. a \in Due(FALSE) => mail[a] \in Retriable
      BY DEF Due, Retriable
    <2>3. QED BY <2>1, <2>2, WithinSelect
  <1>4. ASSUME NEW b \in Attendees, FindPass(h, b) PROVE Within(a)'
    <2>1. job'[h].at \in {"generate", "create"} /\ \A x \in Handlers \ {h} : job'[x] = job[x]
      BY <1>1, <1>4 DEF FindPass, Go, Idle, SafeInv, Job
    <2>2. QED BY <1>4, <2>1, WithinIdly DEF FindPass, Sending
  <1>5. ASSUME NEW b \in Attendees, CreatePass(h, b) PROVE Within(a)'
    <2>1. CASE mail[b] = "none"
      <3>1. job'[h].at = "generate" /\ \A x \in Handlers \ {h} : job'[x] = job[x]
        <4>1. PICK j : j = [job[h] EXCEPT !.at = "generate", !.cur = {}]
          OBVIOUS
        <4>2. j.at = "generate"
          BY <1>1, <4>1 DEF Job
        <4>3. Go(h, j)
          BY <1>5, <2>1, <4>1 DEF CreatePass
        <4>4. QED BY <4>2, <4>3 DEF Go, SafeInv
      <3>2. mail'[a] \in Retriable => mail[a] \in Retriable
        BY <1>5, <2>1 DEF CreatePass, SafeInv, Tables, Retriable
      <3>3. acked' = acked /\ excuse' = excuse
        BY <1>5, <2>1 DEF CreatePass
      <3>4. QED BY <3>1, <3>2, <3>3, WithinIdly DEF Sending
    <2>2. CASE mail[b] # "none"
      <3>1. job'[h].at = "idle" /\ \A x \in Handlers \ {h} : job'[x] = job[x]
        BY <1>5, <2>2 DEF CreatePass, Finish, Go, Idle, SafeInv
      <3>2. UNCHANGED <<mail, acked, excuse>>
        BY <1>5, <2>2 DEF CreatePass
      <3>3. QED BY <3>1, <3>2, WithinIdly DEF Sending
    <2>3. QED BY <2>1, <2>2
  <1>6. ASSUME NEW b \in Attendees, MarkSending(h, b) PROVE Within(a)'
    BY <1>6, WithinMark
  <1>7. ASSUME NEW b \in Attendees, RecordAnswer(h, b) PROVE Within(a)'
    BY <1>7, WithinRecord
  <1>8. ASSUME NEW b \in Attendees, NEW ok \in BOOLEAN, Answer(h, b, ok) PROVE Within(a)'
    BY <1>8, WithinAnswer
  <1>9. CASE FinishSend(h)
    <2>1. job'[h].at \in {"write", "idle"} /\ \A x \in Handlers \ {h} : job'[x] = job[x]
      <3>1. PICK j : j = [job[h] EXCEPT !.at = "write", !.copy = schedule]
        OBVIOUS
      <3>2. j.at = "write" /\ Idle.at = "idle"
        BY <1>1, <3>1 DEF Job, Idle
      <3>3. Go(h, j) \/ Go(h, Idle)
        BY <1>9, <3>1 DEF FinishSend, Finish
      <3>4. QED BY <3>2, <3>3 DEF Go, SafeInv
    <2>2. QED BY <1>9, <2>1, WithinIdly DEF FinishSend, Sending
  <1>10. QED BY <1>2, <1>3, <1>4, <1>5, <1>6, <1>7, <1>8, <1>9 DEF Step

LEMMA BudgetInit == Init => Budget
  <1> SUFFICES ASSUME Init, NEW a \in Attendees PROVE Within(a)
    BY DEF Budget
  <1>1. Waiting(a) = {} /\ Out(a) = {} /\ ~Refused(a)
    BY DEF Init, Idle, Waiting, Out, Refused, Waits, Outs, Refuses, Sending
  <1>2. Cardinality(Waiting(a)) = 0 /\ Cardinality(Out(a)) = 0
    BY <1>1, FS_EmptySet
  <1>3. acked[a] = 0 /\ excuse[a] = 0
    BY DEF Init
  <1>4. QED BY <1>1, <1>2, <1>3 DEF Within

LEMMA BudgetNext == SafeInv /\ Budget /\ [Next]_vars => Budget'
  <1> SUFFICES ASSUME SafeInv, Budget, [Next]_vars, NEW a \in Attendees PROVE Within(a)'
    BY DEF Budget
  <1>1. SafeInv' /\ Within(a) /\ Ticks \subseteq Handlers
    BY SafeNext DEF Budget, Handlers
  <1>2. CASE \/ \E e \in Employees : Register(e)
             \/ \E b \in Attendees, s \in {"ACTIVE", "SUSPENDED", "REVOKED"} : UpdateStatus(b, s)
             \/ UNCHANGED vars
    BY <1>1, <1>2, WithinStill DEF Register, UpdateStatus, vars
  <1>3. ASSUME NEW t \in Ticks, BeginDispatch(t) PROVE Within(a)'
    <2>1. job'[t].at = "generate" /\ \A x \in Handlers \ {t} : job'[x] = job[x]
      BY <1>1, <1>3 DEF BeginDispatch, Go, Idle, SafeInv, Job, Handlers
    <2>2. QED BY <1>1, <1>3, <2>1, WithinIdly DEF BeginDispatch, Sending, Handlers
  <1>4. ASSUME NEW k \in Desks, Request(k) PROVE Within(a)'
    BY <1>1, <1>4, WithinRequest
  <1>5. ASSUME NEW h \in Handlers, Step(h) PROVE Within(a)'
    BY <1>1, <1>5, WithinStep
  <1>6. ASSUME NEW h \in Handlers, Lose(h) PROVE Within(a)'
    <2>1. job'[h].at = "idle" /\ \A x \in Handlers \ {h} : job'[x] = job[x]
      BY <1>1, <1>6 DEF Lose, Finish, Go, Idle, SafeInv
    <2>2. UNCHANGED <<mail, acked, excuse>>
      BY <1>6 DEF Lose
    <2>3. QED BY <1>1, <2>1, <2>2, WithinIdly DEF Sending
  <1>7. QED BY <1>2, <1>3, <1>4, <1>5, <1>6 DEF Next

(* No pass is mailed more often than once and once for each reason: an     *)
(* administrator's resend, or two runs that had it in their lists at once. *)
THEOREM AlwaysMailedForAReason == Spec => []MailedForAReason
  <1>1. SafeInv /\ Budget => MailedForAReason
    <2> SUFFICES ASSUME SafeInv, Budget, NEW a \in Attendees PROVE acked[a] <= 1 + excuse[a]
      BY DEF MailedForAReason
    <2>1. acked[a] \in 0..MaxMails /\ excuse[a] \in 0..MaxMails /\ MaxMails \in Nat
      BY DEF SafeInv, Tables
    <2>2. Cardinality(Waiting(a)) \in Nat /\ Within(a)
      BY CountsAreNat DEF Budget
    <2>3. QED BY <2>1, <2>2 DEF Within
  <1>2. QED BY <1>1, SafeAlways, BudgetInit, BudgetNext, PTL DEF Spec
=============================================================================

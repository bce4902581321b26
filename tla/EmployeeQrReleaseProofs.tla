----------------------- MODULE EmployeeQrReleaseProofs -----------------------
(***************************************************************************)
(* What the release of the QR passes keeps for every number of attendees,  *)
(* processes, releases and mails.                                          *)
(*                                                                         *)
(* Types and NoFalseDelivered follow from what the handlers remember       *)
(* (Memory): rows that exist, mails the provider took.  The other two hold *)
(* when one process runs the releases: Closing says that the rows of a     *)
(* running release are its targets, and Budget counts the mails of an      *)
(* attendee that are still to be answered against the grounds for them.    *)
(***************************************************************************)
EXTENDS EmployeeQrRelease, FiniteSetTheorems, TLAPS

USE KindsAssumption, SwitchAssumption, BoundAssumption

Statuses == {"none", "RUNNING", "COMPLETED", "PARTIAL_FAILURE", "FAILED"}

(* Memory: what a run, a mail, a webhook and a poll refer to. *)
RunGood(p, s) ==
  \A a \in Attendees :
    /\ s.seen[a] = {} \/ \E r \in Rows : Exists(r) /\ r[1] = a /\ s.seen[a] = {r}
    /\ s.at = "queue" /\ s.seen[a] = {} => ~Exists(<<a, p>>)

MailGood(m) ==
  m.at # "idle" => \E r \in Rows : /\ Exists(r) /\ m.on = {r}
                                   /\ m.at = "acked" => acked[r[1]] > 0

HookGood(k) ==
  k # IdleHook => \E r \in Rows : /\ Exists(r) /\ k.on = {r} /\ k.event \in events
                                  /\ SameAddress(r[1], k.event.att)

PollGood(k) == k # IdlePoll => \E r \in Rows : Exists(r) /\ k.on = {r}

Memory == /\ \A p \in Processes : RunGood(p, run[p]) /\ HookGood(hook[p]) /\ PollGood(poll[p])
          /\ \A s \in Senders : MailGood(mail[s])

Truth == \A r \in Rows :
           /\ row[r].status = "ACCEPTED" => acked[r[1]] > 0
           /\ row[r].status = "DELIVERED" =>
                \E e \in events : SameAddress(e.att, r[1]) /\ e.kind = "DELIVERED"

SafeInv == TypeOK /\ Memory /\ Truth

(* The same rows exist as before, acknowledgements and reports stay. *)
Onward == /\ \A r \in Rows : Exists(r)' = Exists(r)
          /\ \A a \in Attendees : acked'[a] \in Int /\ acked[a] <= acked'[a]
          /\ events \subseteq events'

-----------------------------------------------------------------------------
(* Frames *)

LEMMA MemoryOnward ==
    ASSUME TypeOK, Onward
    PROVE  /\ \A s : \A p \in Processes : RunGood(p, s) => RunGood(p, s)'
           /\ \A m \in Mail : MailGood(m) => MailGood(m)'
           /\ \A k : HookGood(k) => HookGood(k)'
           /\ \A k : PollGood(k) => PollGood(k)'
  <1>1. \A a \in Attendees, p \in Processes : <<a, p>> \in Rows
    BY DEF Rows
  <1>2. \A r \in Rows : r[1] \in Attendees
    BY DEF Rows
  <1>3. \A s : \A p \in Processes : RunGood(p, s) => RunGood(p, s)'
    BY <1>1 DEF RunGood, Onward
  <1>4. \A m \in Mail : MailGood(m) => MailGood(m)'
    <2>1. \A a \in Attendees : acked[a] \in Int
      BY DEF TypeOK
    <2>2. SUFFICES ASSUME NEW m \in Mail, MailGood(m), m.at # "idle" PROVE MailGood(m)'
      BY DEF MailGood
    <2>3. PICK r \in Rows : Exists(r) /\ m.on = {r} /\ (m.at = "acked" => acked[r[1]] > 0)
      BY <2>2 DEF MailGood
    <2>4. m.at = "acked" => acked'[r[1]] > 0
      BY <2>1, <2>3, <1>2 DEF Onward
    <2>5. QED BY <2>3, <2>4 DEF MailGood, Onward
  <1>5. \A k : HookGood(k) => HookGood(k)'
    BY DEF HookGood, Onward, SameAddress
  <1>6. \A k : PollGood(k) => PollGood(k)'
    BY DEF PollGood, Onward
  <1>7. QED BY <1>3, <1>4, <1>5, <1>6

(* An existing row is written. *)
LEMMA RowWritten ==
    ASSUME TypeOK, NEW r \in Rows, Exists(r), NEW v \in Row, v.status # "none",
           row' = [row EXCEPT ![r] = v]
    PROVE  /\ row' \in [Rows -> Row]
           /\ row'[r] = v /\ \A q \in Rows \ {r} : row'[q] = row[q]
           /\ \A q \in Rows : Exists(q)' = Exists(q)
  <1>1. row' \in [Rows -> Row] /\ row'[r] = v /\ \A q \in Rows \ {r} : row'[q] = row[q]
    BY DEF TypeOK
  <1>2. ASSUME NEW q \in Rows PROVE Exists(q)' = Exists(q)
    <2>1. CASE q = r
      BY <1>1, <2>1 DEF Exists
    <2>2. CASE q # r
      BY <1>1, <2>2 DEF Exists
    <2>3. QED BY <2>1, <2>2
  <1>3. QED BY <1>1, <1>2

LEMMA StatusWritten ==
    ASSUME TypeOK, NEW r \in Rows, Exists(r), NEW st \in DeliveryStatus, st # "none", SetStatus(r, st)
    PROVE  /\ row' \in [Rows -> Row]
           /\ row'[r] = [row[r] EXCEPT !.status = st] /\ row'[r].status = st
           /\ \A q \in Rows \ {r} : row'[q] = row[q]
           /\ \A q \in Rows : Exists(q)' = Exists(q)
  <1>1. row[r] \in Row
    BY DEF TypeOK
  <1>2. [row[r] EXCEPT !.status = st] \in Row /\ [row[r] EXCEPT !.status = st].status = st
    BY <1>1 DEF Row
  <1>3. row' = [row EXCEPT ![r] = [row[r] EXCEPT !.status = st]]
    BY DEF SetStatus
  <1>4. QED BY <1>2, <1>3, RowWritten

LEMMA GroundType ==
    ASSUME TypeOK, NEW S, Ground(S)
    PROVE  /\ grounds' \in [Attendees -> 0..MaxMails]
           /\ \A a \in Attendees : /\ grounds[a] <= grounds'[a]
                                   /\ a \in S => grounds'[a] = grounds[a] + 1 \/ grounds'[a] = MaxMails
                                   /\ a \notin S => grounds'[a] = grounds[a]
  <1>1. MaxMails \in Nat
    OBVIOUS
  <1>2. grounds \in [Attendees -> 0..MaxMails]
    BY DEF TypeOK
  <1>3. \A a \in Attendees : grounds'[a] = IF a \in S /\ grounds[a] < MaxMails THEN grounds[a] + 1 ELSE grounds[a]
    BY DEF Ground
  <1>4. ASSUME NEW a \in Attendees
        PROVE  /\ grounds'[a] \in 0..MaxMails /\ grounds[a] <= grounds'[a]
               /\ a \in S => grounds'[a] = grounds[a] + 1 \/ grounds'[a] = MaxMails
               /\ a \notin S => grounds'[a] = grounds[a]
    <2>1. grounds[a] \in Nat /\ grounds[a] <= MaxMails /\ MaxMails \in Nat
      BY <1>1, <1>2
    <2>a. grounds'[a] = IF a \in S /\ grounds[a] < MaxMails THEN grounds[a] + 1 ELSE grounds[a]
      BY <1>3
    <2>2. CASE a \in S /\ grounds[a] < MaxMails
      <3>1. grounds'[a] = grounds[a] + 1
        BY <2>a, <2>2, Zenon
      <3>2. QED BY <2>1, <2>2, <3>1
    <2>3. CASE ~(a \in S /\ grounds[a] < MaxMails)
      <3>1. grounds'[a] = grounds[a]
        BY <2>a, <2>3, Zenon
      <3>2. a \in S => grounds[a] = MaxMails
        BY <2>1, <2>3
      <3>3. QED BY <2>1, <3>1, <3>2
    <2>4. QED BY <2>2, <2>3
  <1>5. grounds' \in [Attendees -> 0..MaxMails]
    BY <1>4 DEF Ground
  <1>6. QED BY <1>4, <1>5

LEMMA SafeInit == Init => SafeInv
  <1>1. SUFFICES ASSUME Init PROVE SafeInv
    OBVIOUS
  <1>2. Cardinality(Rows) \in Nat
    BY FiniteAssumption, FS_Product, FS_CardinalityType DEF Rows
  <1>3. NoRow \in Row
    BY <1>2 DEF NoRow, Row, DeliveryStatus, NoEvent
  <1>4. IdleRun \in Run /\ IdleMail \in Mail
    BY DEF IdleRun, Run, IdleMail, Mail
  <1>a. /\ \A r \in Rows : row[r] = NoRow
        /\ \A p \in Processes : run[p] = IdleRun /\ hook[p] = IdleHook /\ poll[p] = IdlePoll
        /\ \A s \in Senders : mail[s] = IdleMail
    BY <1>1 DEF Init
  <1>5. TypeOK
    <2>1. row \in [Rows -> Row] /\ run \in [Processes -> Run] /\ mail \in [Senders -> Mail]
      BY <1>1, <1>3, <1>4 DEF Init
    <2>2. /\ hook \in [Processes -> [on : SUBSET Rows, event : Events \cup {NoEvent}]]
          /\ poll \in [Processes -> [on : SUBSET Rows, status : DeliveryStatus]]
      BY <1>1 DEF Init, IdleHook, IdlePoll, DeliveryStatus
    <2>3. QED BY <1>1, <2>1, <2>2 DEF Init, TypeOK
  <1>6. Memory
    BY <1>a DEF Memory, RunGood, MailGood, HookGood, PollGood, IdleRun, IdleMail
  <1>7. Truth
    <2>1. NoRow.status = "none"
      BY DEF NoRow
    <2>2. QED BY <1>a, <2>1 DEF Truth
  <1>8. QED BY <1>5, <1>6, <1>7 DEF SafeInv

LEMMA MemoryStep ==
    ASSUME SafeInv, Onward,
           \A p \in Processes : run'[p] = run[p] \/ \E s : run'[p] = s /\ RunGood(p, s),
           \A s \in Senders : mail'[s] = mail[s] \/ \E m : mail'[s] = m /\ MailGood(m)',
           \A p \in Processes : hook'[p] = hook[p] \/ \E k : hook'[p] = k /\ HookGood(k),
           \A p \in Processes : poll'[p] = poll[p] \/ \E k : poll'[p] = k /\ PollGood(k)
    PROVE  Memory'
  <1>1. ASSUME NEW p \in Processes PROVE RunGood(p, run[p])'
    <2>1. PICK s : run'[p] = s /\ RunGood(p, s)
      BY DEF SafeInv, Memory
    <2>2. RunGood(p, s)'
      BY <2>1, MemoryOnward DEF SafeInv
    <2>3. QED BY <2>1, <2>2 DEF RunGood
  <1>2. ASSUME NEW s \in Senders PROVE MailGood(mail[s])'
    <2>1. MailGood(mail[s]) /\ mail[s] \in Mail
      BY DEF SafeInv, Memory, TypeOK
    <2>2. CASE mail'[s] = mail[s]
      <3>1. PICK m : m = mail[s]
        OBVIOUS
      <3>2. MailGood(m)'
        BY <2>1, <3>1, MemoryOnward DEF SafeInv
      <3>3. QED BY <2>2, <3>1, <3>2 DEF MailGood
    <2>3. CASE \E m : mail'[s] = m /\ MailGood(m)'
      BY <2>3 DEF MailGood
    <2>4. QED BY <2>2, <2>3
  <1>3. ASSUME NEW p \in Processes PROVE HookGood(hook[p])'
    <2>1. \E k : hook'[p] = k /\ HookGood(k)
      BY DEF SafeInv, Memory
    <2>2. QED BY <2>1, MemoryOnward DEF SafeInv, HookGood
  <1>4. ASSUME NEW p \in Processes PROVE PollGood(poll[p])'
    <2>1. \E k : poll'[p] = k /\ PollGood(k)
      BY DEF SafeInv, Memory
    <2>2. QED BY <2>1, MemoryOnward DEF SafeInv, PollGood
  <1>5. QED BY <1>1, <1>2, <1>3, <1>4 DEF Memory

LEMMA TruthStep ==
    ASSUME SafeInv, Onward,
           \A r \in Rows :
             \/ row'[r].status = row[r].status
             \/ row'[r].status \notin {"ACCEPTED", "DELIVERED"}
             \/ row'[r].status = "ACCEPTED" /\ acked'[r[1]] > 0
             \/ /\ row'[r].status = "DELIVERED"
                /\ \E e \in events : SameAddress(e.att, r[1]) /\ e.kind = "DELIVERED"
    PROVE  Truth'
  <1>1. ASSUME NEW r \in Rows, row'[r].status = "ACCEPTED" PROVE acked'[r[1]] > 0
    <2>1. r[1] \in Attendees
      BY DEF Rows
    <2>2. acked[r[1]] \in Int /\ acked'[r[1]] \in Int /\ acked[r[1]] <= acked'[r[1]]
      BY <2>1 DEF SafeInv, TypeOK, Onward
    <2>3. row[r].status = "ACCEPTED" => acked[r[1]] > 0
      BY DEF SafeInv, Truth
    <2>4. QED BY <1>1, <2>2, <2>3
  <1>2. ASSUME NEW r \in Rows, row'[r].status = "DELIVERED"
        PROVE  \E e \in events' : SameAddress(e.att, r[1]) /\ e.kind = "DELIVERED"
    BY <1>2 DEF SafeInv, Truth, Onward
  <1>3. QED BY <1>1, <1>2 DEF Truth, SameAddress

(* The rows, the acknowledgements and the reports stay.                    *)
LEMMA Calm ==
    ASSUME SafeInv, UNCHANGED <<row, acked, events>>
    PROVE  Onward /\ Truth'
  <1>1. Onward
    BY DEF Onward, Exists, SafeInv, TypeOK
  <1>2. QED BY <1>1, TruthStep

-----------------------------------------------------------------------------
(* The steps *)

LEMMA IdleGood ==
    /\ IdleRun \in Run /\ IdleRun.at = "idle" /\ \A p \in Processes : RunGood(p, IdleRun)
    /\ IdleMail \in Mail /\ MailGood(IdleMail) /\ MailGood(IdleMail)'
    /\ HookGood(IdleHook) /\ PollGood(IdlePoll)
    /\ IdleHook \in [on : SUBSET Rows, event : Events \cup {NoEvent}]
    /\ IdlePoll \in [on : SUBSET Rows, status : DeliveryStatus]
  BY DEF IdleRun, Run, RunGood, IdleMail, Mail, MailGood, HookGood, PollGood, IdleHook, IdlePoll, DeliveryStatus

LEMMA ReleaseBegun ==
    ASSUME SafeInv, NEW p \in Processes, NEW retryOnly, NEW only \in SUBSET Attendees,
           BeginRelease(p, retryOnly, only)
    PROVE  SafeInv'
  <1>1. PICK n \in Releases, seen \in [Attendees -> {{}} \cup {{r} : r \in Rows}],
             targets \in SUBSET Attendees :
          /\ targets = IF only # {} THEN only ELSE {a \in Attendees : Due(a, retryOnly, seen[a])}
          /\ \A a \in Attendees : seen[a] \subseteq RowsOf(a) /\ (RowsOf(a) # {} => seen[a] # {})
          /\ run' = [run EXCEPT ![p] = [IdleRun EXCEPT !.at = "queue", !.release = n, !.seen = seen,
                                                       !.targets = targets, !.todo = targets]]
          /\ release' = [release EXCEPT ![n] = "RUNNING"]
    <2>1. PICK n \in Releases, seen \in [Attendees -> {{}} \cup {{r} : r \in Rows}] :
            /\ \A a \in Attendees : seen[a] \subseteq RowsOf(a) /\ (RowsOf(a) # {} => seen[a] # {})
            /\ LET targets == IF only # {} THEN only
                              ELSE {a \in Attendees : Due(a, retryOnly, seen[a])}
               IN run' = [run EXCEPT ![p] = [IdleRun EXCEPT !.at = "queue", !.release = n, !.seen = seen,
                                                            !.targets = targets, !.todo = targets]]
            /\ release' = [release EXCEPT ![n] = "RUNNING"]
      BY DEF BeginRelease, GoRun
    <2>2. PICK targets : targets = IF only # {} THEN only
                                   ELSE {a \in Attendees : Due(a, retryOnly, seen[a])}
      OBVIOUS
    <2>3. targets \in SUBSET Attendees
      BY <2>2
    <2>4. QED BY <2>1, <2>2, <2>3
  <1>2. UNCHANGED <<row, mail, hook, poll, resume, acked, events, faults>>
    BY DEF BeginRelease
  <1>3. PICK s : s = [IdleRun EXCEPT !.at = "queue", !.release = n, !.seen = seen,
                                     !.targets = targets, !.todo = targets]
    OBVIOUS
  <1>4. s \in Run /\ s.seen = seen
    <2>1. n \in 0..MaxReleases
      BY DEF Releases
    <2>2. seen \in [Attendees -> SUBSET Rows]
      OBVIOUS
    <2>3. s = [at |-> "queue", release |-> n, seen |-> seen, targets |-> targets, todo |-> targets,
               sent |-> FALSE, failed |-> FALSE]
      BY <1>3 DEF IdleRun
    <2>4. QED BY <2>1, <2>2, <2>3 DEF Run
  <1>5. RunGood(p, s)
    <2>1. SUFFICES ASSUME NEW a \in Attendees
                   PROVE  /\ seen[a] = {} \/ \E r \in Rows : Exists(r) /\ r[1] = a /\ seen[a] = {r}
                          /\ seen[a] = {} => ~Exists(<<a, p>>)
      BY <1>4 DEF RunGood
    <2>2. seen[a] = {} \/ \E r \in Rows : seen[a] = {r}
      OBVIOUS
    <2>3. <<a, p>> \in Rows /\ <<a, p>>[1] = a
      BY DEF Rows
    <2>4. QED BY <1>1, <2>2, <2>3 DEF RowsOf
  <1>6. run' \in [Processes -> Run] /\ run'[p] = s /\ \A q \in Processes \ {p} : run'[q] = run[q]
    BY <1>1, <1>3, <1>4 DEF SafeInv, TypeOK
  <1>7. release' \in [Releases -> {"none", "RUNNING", "COMPLETED", "PARTIAL_FAILURE", "FAILED"}]
    BY <1>1 DEF SafeInv, TypeOK
  <1>8. grounds' \in [Attendees -> 0..MaxMails]
    BY GroundType DEF SafeInv, BeginRelease
  <1>9. TypeOK'
    BY <1>2, <1>6, <1>7, <1>8 DEF SafeInv, TypeOK
  <1>10. Memory'
    BY <1>2, <1>5, <1>6, Calm, MemoryStep
  <1>11. QED BY <1>2, <1>9, <1>10, Calm DEF SafeInv

LEMMA NewAgeType ==
    ASSUME TypeOK, NEW r \in Rows, ~Exists(r)
    PROVE  NewAge \in 0..Cardinality(Rows)
  <1> DEFINE E == {q \in Rows : Exists(q)}
  <1>1. IsFiniteSet(Rows) /\ Cardinality(Rows) \in Nat
    BY FiniteAssumption, FS_Product, FS_CardinalityType DEF Rows
  <1>2. IsFiniteSet(E) /\ Cardinality(E) \in Nat
    BY <1>1, FS_Subset, FS_CardinalityType
  <1>3. Cardinality(E \cup {r}) = Cardinality(E) + 1
    BY <1>2, FS_AddElement
  <1>4. Cardinality(E \cup {r}) <= Cardinality(Rows)
    BY <1>1, FS_Subset
  <1>5. NewAge = 1 + Cardinality(E)
    BY DEF NewAge
  <1>6. QED BY <1>1, <1>2, <1>3, <1>4, <1>5

LEMMA DeliveryQueued ==
    ASSUME SafeInv, NEW p \in Processes, NEW a \in Attendees, QueueDelivery(p, a)
    PROVE  SafeInv'
  <1>s. PICK s : s = run[p]
    OBVIOUS
  <1> DEFINE new == s.seen[a] = {}
             r == IF new THEN <<a, p>> ELSE CHOOSE x \in s.seen[a] : TRUE
             last == s.todo = {a}
             w == IF new THEN [NoRow EXCEPT !.age = NewAge] ELSE row[r]
             v == [w EXCEPT !.status = "QUEUED", !.release = s.release]
             t == [s EXCEPT !.seen[a] = {r}, !.at = IF last THEN "send" ELSE "queue",
                            !.todo = IF last THEN s.targets ELSE s.todo \ {a}]
  <1>1. /\ s.at = "queue" /\ a \in s.todo
        /\ row' = [row EXCEPT ![r] = v]
        /\ run' = [run EXCEPT ![p] = t]
        /\ UNCHANGED <<release, mail, hook, poll, resume, acked, events, grounds, faults>>
    BY <1>s DEF QueueDelivery, GoRun
  <1>2. s \in Run /\ row \in [Rows -> Row] /\ run \in [Processes -> Run] /\ RunGood(p, s)
    BY <1>s DEF SafeInv, TypeOK, Memory
  <1>3. r \in Rows /\ r[1] = a /\ (new => ~Exists(r)) /\ (~new => Exists(r) /\ s.seen[a] = {r})
    <2>1. CASE new
      BY <1>1, <1>2, <2>1 DEF RunGood, Rows
    <2>2. CASE ~new
      <3>1. PICK x \in Rows : Exists(x) /\ x[1] = a /\ s.seen[a] = {x}
        BY <1>2, <2>2 DEF RunGood
      <3>2. r = x
        BY <2>2, <3>1
      <3>3. QED BY <2>2, <3>1, <3>2
    <2>3. QED BY <2>1, <2>2
  <1>4. v \in Row /\ v.status = "QUEUED"
    <2>1. s.release \in 0..MaxReleases
      BY <1>2 DEF Run
    <2>2. w \in Row
      <3>1. CASE new
        <4>1. NewAge \in 0..Cardinality(Rows)
          BY <1>3, <3>1, NewAgeType DEF SafeInv
        <4>2. [NoRow EXCEPT !.age = NewAge] \in Row
          BY <4>1 DEF NoRow, Row, DeliveryStatus, NoEvent
        <4>3. QED BY <3>1, <4>2
      <3>2. CASE ~new
        BY <1>2, <1>3, <3>2
      <3>3. QED BY <3>1, <3>2
    <2> HIDE DEF w
    <2>3. QED BY <2>1, <2>2 DEF Row, DeliveryStatus
  <1>5. /\ row' \in [Rows -> Row] /\ row'[r] = v /\ \A q \in Rows \ {r} : row'[q] = row[q]
    <2> HIDE DEF r, v
    <2>1. QED BY <1>1, <1>2, <1>3, <1>4
  <1>6. /\ \A q \in Rows \ {r} : Exists(q)' = Exists(q)
        /\ Exists(r)'
    <2> HIDE DEF r, v
    <2>1. \A q \in Rows \ {r} : row'[q] = row[q]
      BY <1>5
    <2>2. QED BY <1>3, <1>4, <1>5, <2>1 DEF Exists
  <1>7. t \in Run /\ t.at \in {"queue", "send"} /\ t.seen = [s.seen EXCEPT ![a] = {r}]
    <2> HIDE DEF r
    <2>1. QED BY <1>2, <1>3 DEF Run
  <1>8. run' \in [Processes -> Run] /\ run'[p] = t /\ \A q \in Processes \ {p} : run'[q] = run[q]
    <2> HIDE DEF t
    <2>1. QED BY <1>1, <1>2, <1>7
  <1>9. TypeOK'
    BY <1>1, <1>5, <1>8 DEF SafeInv, TypeOK
  <1>10. RunGood(p, run[p])'
    <2>1. SUFFICES ASSUME NEW b \in Attendees
                   PROVE  /\ t.seen[b] = {} \/ \E q \in Rows : Exists(q)' /\ q[1] = b /\ t.seen[b] = {q}
                          /\ t.at = "queue" /\ t.seen[b] = {} => ~Exists(<<b, p>>)'
      <3> HIDE DEF t
      <3>1. QED BY <1>8 DEF RunGood
    <2>2. CASE b = a
      <3>1. t.seen[b] = {r}
        <4> HIDE DEF t, r
        <4>1. QED BY <1>2, <1>7, <2>2 DEF Run
      <3> HIDE DEF t, r
      <3>2. QED BY <1>3, <1>6, <2>2, <3>1
    <2>3. CASE b # a
      <3>1. t.seen[b] = s.seen[b]
        <4> HIDE DEF t, r
        <4>1. QED BY <1>2, <1>7, <2>3 DEF Run
      <3>2. s.seen[b] = {} \/ \E q \in Rows : Exists(q) /\ q[1] = b /\ s.seen[b] = {q}
        BY <1>2 DEF RunGood
      <3>3. s.seen[b] = {} => ~Exists(<<b, p>>)
        BY <1>1, <1>2 DEF RunGood
      <3>4. <<b, p>> \in Rows /\ <<b, p>>[1] = b
        BY DEF Rows
      <3> HIDE DEF t, r
      <3>5. QED BY <1>3, <1>6, <2>3, <3>1, <3>2, <3>3, <3>4
    <2>4. QED BY <2>2, <2>3
  <1>11. ASSUME NEW q \in Processes \ {p} PROVE RunGood(q, run[q])'
    <2> HIDE DEF r, t
    <2>1. RunGood(q, run[q])
      BY DEF SafeInv, Memory
    <2>2. ASSUME NEW b \in Attendees, ~Exists(<<b, q>>), new \/ Exists(r), r = IF new THEN <<a, p>> ELSE r
          PROVE  ~Exists(<<b, q>>)'
      <3>1. <<b, q>> \in Rows /\ <<b, q>> # r
        BY <1>3, <2>2 DEF Rows
      <3>2. QED BY <1>6, <2>2, <3>1
    <2>3. r = IF new THEN <<a, p>> ELSE r
      BY DEF r
    <2>4. \A x \in Rows : Exists(x) => Exists(x)'
      BY <1>6
    <2>5. new \/ Exists(r)
      BY <1>3
    <2>6. \A b \in Attendees : ~Exists(<<b, q>>) => ~Exists(<<b, q>>)'
      BY <2>2, <2>3, <2>5
    <2>7. run'[q] = run[q]
      BY <1>8
    <2>8. QED BY <2>1, <2>4, <2>6, <2>7 DEF RunGood
  <1>12. Memory'
    <2> HIDE DEF r, t, new, w, v
    <2>1. \A q \in Processes : HookGood(hook[q])' /\ PollGood(poll[q])'
      BY <1>1, <1>6 DEF SafeInv, Memory, HookGood, PollGood, SameAddress
    <2>2. \A z \in Senders : MailGood(mail[z])'
      BY <1>1, <1>6 DEF SafeInv, Memory, MailGood
    <2>3. QED BY <1>10, <1>11, <2>1, <2>2 DEF Memory
  <1>13. Truth'
    <2> HIDE DEF r, t, new, w, v
    <2>1. QED BY <1>1, <1>4, <1>5 DEF SafeInv, Truth, SameAddress
  <1>14. QED BY <1>9, <1>12, <1>13 DEF SafeInv

LEMMA DeliverySent ==
    ASSUME SafeInv, NEW p \in Processes, NEW a \in Attendees, SendDelivery(p, a)
    PROVE  SafeInv'
  <1>1. PICK r \in run[p].seen[a] :
          /\ SetStatus(r, "SENDING")
          /\ mail' = [mail EXCEPT ![<<p, "release">>] = [at |-> "sending", on |-> {r}]]
    BY DEF SendDelivery, GoMail
  <1>2. /\ run' = [run EXCEPT ![p] = [run[p] EXCEPT !.todo = run[p].todo \ {a}]]
        /\ UNCHANGED <<release, hook, poll, resume, acked, events, grounds, faults>>
    BY DEF SendDelivery, GoRun
  <1>3. RunGood(p, run[p]) /\ run[p] \in Run
    BY DEF SafeInv, Memory, TypeOK
  <1>4. r \in Rows /\ Exists(r)
    BY <1>3 DEF RunGood
  <1>5. /\ row' \in [Rows -> Row] /\ row'[r].status = "SENDING"
        /\ \A q \in Rows \ {r} : row'[q] = row[q]
        /\ \A q \in Rows : Exists(q)' = Exists(q)
    BY <1>1, <1>4, StatusWritten DEF SafeInv, DeliveryStatus
  <1>6. PICK s : s = [run[p] EXCEPT !.todo = run[p].todo \ {a}]
    OBVIOUS
  <1>7. s \in Run /\ s.seen = run[p].seen /\ s.at = run[p].at
    BY <1>3, <1>6 DEF Run
  <1>8. run' \in [Processes -> Run] /\ run'[p] = s /\ \A q \in Processes \ {p} : run'[q] = run[q]
    BY <1>2, <1>6, <1>7 DEF SafeInv, TypeOK
  <1>9. PICK m : m = [at |-> "sending", on |-> {r}]
    OBVIOUS
  <1>10. m \in Mail /\ <<p, "release">> \in Senders
    BY <1>4, <1>9 DEF Mail, Senders
  <1>11. /\ mail' \in [Senders -> Mail] /\ mail'[<<p, "release">>] = m
         /\ \A z \in Senders \ {<<p, "release">>} : mail'[z] = mail[z]
    BY <1>1, <1>9, <1>10 DEF SafeInv, TypeOK
  <1>12. TypeOK'
    BY <1>2, <1>5, <1>8, <1>11 DEF SafeInv, TypeOK
  <1>13. Onward
    BY <1>2, <1>5 DEF Onward, SafeInv, TypeOK
  <1>14. RunGood(p, s)
    BY <1>3, <1>7 DEF RunGood
  <1>15. MailGood(m)'
    BY <1>4, <1>5, <1>9 DEF MailGood
  <1>16. Memory'
    BY <1>2, <1>8, <1>11, <1>13, <1>14, <1>15, MemoryStep
  <1>17. Truth'
    BY <1>4, <1>5, <1>13, TruthStep
  <1>18. QED BY <1>12, <1>16, <1>17 DEF SafeInv

(* A run that ends, whether it is done or thrown out.                      *)
LEMMA RunEnded ==
    ASSUME SafeInv, NEW p \in Processes, FinishRelease(p) \/ Throw(p)
    PROVE  SafeInv'
  <1>1. UNCHANGED <<row, hook, poll, resume, acked, events, grounds>> /\ run' = [run EXCEPT ![p] = IdleRun]
    BY DEF FinishRelease, Throw, GoRun
  <1>2. run' \in [Processes -> Run] /\ run'[p] = IdleRun /\ \A q \in Processes \ {p} : run'[q] = run[q]
    BY <1>1, IdleGood DEF SafeInv, TypeOK
  <1>3. /\ mail' \in [Senders -> Mail]
        /\ \A z \in Senders : mail'[z] = mail[z] \/ mail'[z] = IdleMail
    <2>1. mail \in [Senders -> Mail] /\ IdleMail \in Mail
      BY IdleGood DEF SafeInv, TypeOK
    <2>2. mail' = mail \/ mail' = [mail EXCEPT ![<<p, "release">>] = IdleMail]
      BY DEF FinishRelease, Throw, GoMail
    <2>3. QED BY <2>1, <2>2
  <1>4. release' \in [Releases -> {"none", "RUNNING", "COMPLETED", "PARTIAL_FAILURE", "FAILED"}]
    BY DEF FinishRelease, Throw, SafeInv, TypeOK
  <1>5. faults' \in 0..MaxFaults
    BY DEF FinishRelease, Throw, SafeInv, TypeOK
  <1>6. TypeOK'
    BY <1>1, <1>2, <1>3, <1>4, <1>5 DEF SafeInv, TypeOK
  <1>7. Memory'
    BY <1>1, <1>2, <1>3, IdleGood, Calm, MemoryStep
  <1>8. QED BY <1>1, <1>6, <1>7, Calm DEF SafeInv

LEMMA RetryBegun ==
    ASSUME SafeInv, NEW p \in Processes, NEW r \in Rows, BeginRetry(p, r)
    PROVE  SafeInv'
  <1>1. /\ Exists(r) /\ SetStatus(r, "SENDING")
        /\ mail' = [mail EXCEPT ![<<p, "retry">>] = [at |-> "sending", on |-> {r}]]
        /\ Ground({r[1]})
        /\ UNCHANGED <<release, run, hook, poll, resume, acked, events, faults>>
    BY DEF BeginRetry, GoMail
  <1>2. /\ row' \in [Rows -> Row] /\ row'[r].status = "SENDING"
        /\ \A q \in Rows \ {r} : row'[q] = row[q]
        /\ \A q \in Rows : Exists(q)' = Exists(q)
    BY <1>1, StatusWritten DEF SafeInv, DeliveryStatus
  <1>3. PICK m : m = [at |-> "sending", on |-> {r}]
    OBVIOUS
  <1>4. m \in Mail /\ <<p, "retry">> \in Senders
    BY <1>3 DEF Mail, Senders
  <1>5. /\ mail' \in [Senders -> Mail] /\ mail'[<<p, "retry">>] = m
        /\ \A z \in Senders \ {<<p, "retry">>} : mail'[z] = mail[z]
    BY <1>1, <1>3, <1>4 DEF SafeInv, TypeOK
  <1>6. TypeOK'
    BY <1>1, <1>2, <1>5, GroundType DEF SafeInv, TypeOK
  <1>7. Onward
    BY <1>1, <1>2 DEF Onward, SafeInv, TypeOK
  <1>8. MailGood(m)'
    BY <1>1, <1>2, <1>3 DEF MailGood
  <1>9. Memory'
    BY <1>1, <1>5, <1>7, <1>8, MemoryStep
  <1>10. Truth'
    BY <1>2, <1>7, TruthStep
  <1>11. QED BY <1>6, <1>9, <1>10 DEF SafeInv

LEMMA Answered ==
    ASSUME SafeInv, NEW s \in Senders, NEW ok \in BOOLEAN, Answer(s, ok)
    PROVE  SafeInv'
  <1>1. mail[s].at = "sending" /\ mail[s] \in Mail /\ MailGood(mail[s])
    BY DEF Answer, SafeInv, TypeOK, Memory
  <1>2. PICK r \in Rows : Exists(r) /\ mail[s].on = {r}
    BY <1>1 DEF MailGood
  <1>3. PICK m : m = [mail[s] EXCEPT !.at = IF ok THEN "acked" ELSE "refused"]
    OBVIOUS
  <1>4. m \in Mail /\ m.on = {r} /\ m.at = IF ok THEN "acked" ELSE "refused"
    BY <1>1, <1>2, <1>3 DEF Mail
  <1>5. /\ mail' = [mail EXCEPT ![s] = m]
        /\ UNCHANGED <<row, release, run, hook, poll, resume, events, grounds, faults>>
    BY <1>3 DEF Answer, GoMail
  <1>6. /\ mail' \in [Senders -> Mail] /\ mail'[s] = m
        /\ \A z \in Senders \ {s} : mail'[z] = mail[z]
    BY <1>4, <1>5 DEF SafeInv, TypeOK
  <1>7. r[1] \in Attendees /\ acked \in [Attendees -> 0..MaxMails] /\ MaxMails \in Nat
    BY DEF Rows, SafeInv, TypeOK
  <1>8. /\ acked' \in [Attendees -> 0..MaxMails]
        /\ \A a \in Attendees : acked'[a] \in Int /\ acked[a] <= acked'[a]
        /\ ok => acked'[r[1]] > 0
    <2>1. CASE ok
      <3>1. acked[r[1]] < MaxMails /\ acked' = [acked EXCEPT ![r[1]] = acked[r[1]] + 1]
        BY <1>2, <2>1 DEF Answer
      <3>2. acked[r[1]] \in Nat /\ acked[r[1]] + 1 \in 0..MaxMails
        BY <1>7, <3>1
      <3>3. acked' \in [Attendees -> 0..MaxMails]
        BY <1>7, <3>1, <3>2
      <3>4. acked'[r[1]] = acked[r[1]] + 1 /\ \A a \in Attendees \ {r[1]} : acked'[a] = acked[a]
        BY <1>7, <3>1
      <3>5. \A a \in Attendees : acked[a] \in Int /\ acked[a] <= acked[a]
        BY <1>7
      <3>6. QED BY <3>2, <3>3, <3>4, <3>5
    <2>2. CASE ~ok
      <3>1. acked' = acked
        BY <2>2 DEF Answer
      <3>2. \A a \in Attendees : acked[a] \in Int /\ acked[a] <= acked[a]
        BY <1>7
      <3>3. QED BY <1>7, <2>2, <3>1, <3>2
    <2>3. QED BY <2>1, <2>2
  <1>9. TypeOK'
    BY <1>5, <1>6, <1>8 DEF SafeInv, TypeOK
  <1>10. Onward
    BY <1>5, <1>8 DEF Onward, Exists
  <1>11. MailGood(m)'
    BY <1>2, <1>4, <1>5, <1>8 DEF MailGood, Exists
  <1>12. Memory'
    BY <1>5, <1>6, <1>10, <1>11, MemoryStep
  <1>13. Truth'
    BY <1>5, <1>10, TruthStep
  <1>14. QED BY <1>9, <1>12, <1>13 DEF SafeInv

LEMMA Recorded ==
    ASSUME SafeInv, NEW s \in Senders, NEW ok \in BOOLEAN, Record(s, ok),
           mail[s].at # "idle", ok => mail[s].at = "acked",
           grounds' \in [Attendees -> 0..MaxMails], faults' \in 0..MaxFaults
    PROVE  SafeInv'
  <1>1. mail[s] \in Mail /\ MailGood(mail[s])
    BY DEF SafeInv, TypeOK, Memory
  <1>2. PICK r \in Rows : /\ Exists(r) /\ mail[s].on = {r}
                          /\ mail[s].at = "acked" => acked[r[1]] > 0
    BY <1>1 DEF MailGood
  <1>3. row[r] \in Row /\ acked[r[1]] \in 0..MaxMails
    BY DEF SafeInv, TypeOK, Rows
  <1>4. PICK v : v = [row[r] EXCEPT !.status = IF ok THEN "ACCEPTED" ELSE "FAILED",
                                    !.message = IF ok THEN acked[r[1]] ELSE row[r].message]
    OBVIOUS
  <1>5. v \in Row /\ v.status = IF ok THEN "ACCEPTED" ELSE "FAILED"
    BY <1>3, <1>4 DEF Row, DeliveryStatus, Final
  <1>6. row' = [row EXCEPT ![r] = v]
    BY <1>2, <1>4 DEF Record
  <1>7. /\ row' \in [Rows -> Row] /\ row'[r] = v
        /\ \A q \in Rows \ {r} : row'[q] = row[q]
        /\ \A q \in Rows : Exists(q)' = Exists(q)
    BY <1>2, <1>5, <1>6, RowWritten DEF SafeInv
  <1>8. mail' = [mail EXCEPT ![s] = IdleMail] /\ UNCHANGED <<release, hook, poll, resume, acked, events>>
    BY DEF Record, GoMail
  <1>9. /\ mail' \in [Senders -> Mail] /\ mail'[s] = IdleMail
        /\ \A z \in Senders \ {s} : mail'[z] = mail[z]
    BY <1>8, IdleGood DEF SafeInv, TypeOK
  <1>10. /\ run' \in [Processes -> Run]
         /\ \A p \in Processes : run'[p].seen = run[p].seen /\ run'[p].at = run[p].at
    <2>1. CASE run' = run
      BY <2>1 DEF SafeInv, TypeOK
    <2>2. CASE run' = [run EXCEPT ![s[1]].sent = @ \/ ok, ![s[1]].failed = @ \/ ~ok]
      <3>1. PICK q \in Processes : q = s[1]
        BY DEF Senders
      <3>2. run \in [Processes -> Run] /\ run[q] \in Run
        BY DEF SafeInv, TypeOK
      <3>3. PICK u : u = [run[q] EXCEPT !.sent = run[q].sent \/ ok, !.failed = run[q].failed \/ ~ok]
        OBVIOUS
      <3>4. u \in Run /\ u.seen = run[q].seen /\ u.at = run[q].at
        <4>1. run[q].sent \in BOOLEAN /\ run[q].failed \in BOOLEAN
          BY <3>2 DEF Run
        <4>2. (run[q].sent \/ ok) \in BOOLEAN /\ (run[q].failed \/ ~ok) \in BOOLEAN
          BY <4>1
        <4>3. QED BY <3>2, <3>3, <4>2 DEF Run
      <3>5. run' = [run EXCEPT ![q] = u]
        BY <2>2, <3>1, <3>3
      <3>6. QED BY <3>2, <3>4, <3>5
    <2>3. QED BY <2>1, <2>2 DEF Record
  <1>11. TypeOK'
    BY <1>7, <1>8, <1>9, <1>10 DEF SafeInv, TypeOK
  <1>12. Onward
    BY <1>7, <1>8 DEF Onward, SafeInv, TypeOK
  <1>13. ASSUME NEW p \in Processes PROVE RunGood(p, run'[p])
    BY <1>10 DEF SafeInv, Memory, RunGood
  <1>14. Memory'
    BY <1>8, <1>9, <1>12, <1>13, IdleGood, MemoryStep
  <1>15. Truth'
    <2>1. ok => acked'[r[1]] > 0
      BY <1>2, <1>8
    <2>2. \A q \in Rows : \/ row'[q].status = row[q].status
                          \/ row'[q].status \notin {"ACCEPTED", "DELIVERED"}
                          \/ row'[q].status = "ACCEPTED" /\ acked'[q[1]] > 0
      BY <1>5, <1>7, <2>1
    <2>3. QED BY <1>12, <2>2, TruthStep
  <1>16. QED BY <1>11, <1>14, <1>15 DEF SafeInv

LEMMA AnswerKept ==
    ASSUME SafeInv, NEW s \in Senders, RecordAnswer(s) \/ LoseAnswer(s)
    PROVE  SafeInv'
  <1>1. CASE RecordAnswer(s)
    <2>1. grounds' \in [Attendees -> 0..MaxMails] /\ faults' \in 0..MaxFaults
      BY <1>1 DEF RecordAnswer, SafeInv, TypeOK
    <2>2. QED BY <1>1, <2>1, Recorded DEF RecordAnswer
  <1>2. CASE LoseAnswer(s)
    <2>1. \E S : Ground(S)
      BY <1>2 DEF LoseAnswer
    <2>2. grounds' \in [Attendees -> 0..MaxMails]
      BY <2>1, GroundType DEF SafeInv
    <2>3. faults' \in 0..MaxFaults
      BY <1>2 DEF LoseAnswer, SafeInv, TypeOK
    <2>4. QED BY <1>2, <2>2, <2>3, Recorded DEF LoseAnswer
  <1>3. QED BY <1>1, <1>2

LEMMA Reported ==
    ASSUME SafeInv, NEW e \in Events, Report(e)
    PROVE  SafeInv'
  <1>1. events' = events \cup {e} /\ UNCHANGED <<row, release, run, mail, hook, poll, resume, acked, grounds, faults>>
    BY DEF Report
  <1>2. Onward
    BY <1>1 DEF Onward, Exists, SafeInv, TypeOK
  <1>3. TypeOK'
    BY <1>1 DEF SafeInv, TypeOK
  <1>4. Memory'
    BY <1>1, <1>2, MemoryStep
  <1>5. Truth'
    BY <1>1, <1>2, TruthStep
  <1>6. QED BY <1>3, <1>4, <1>5 DEF SafeInv

LEMMA Webhook ==
    ASSUME SafeInv, NEW p \in Processes,
           ApplyWebhook(p) \/ \E e \in events : BeginWebhook(p, e)
    PROVE  SafeInv'
  <1>1. CASE \E e \in events : BeginWebhook(p, e)
    <2>a. PICK e \in events : BeginWebhook(p, e)
      BY <1>1
    <2>1. PICK r \in Target(e) : hook' = [hook EXCEPT ![p] = [on |-> {r}, event |-> e]]
      BY <2>a DEF BeginWebhook
    <2>2. UNCHANGED <<row, release, run, mail, poll, resume, acked, events, grounds, faults>>
      BY <1>1 DEF BeginWebhook
    <2>3. r \in Rows /\ Exists(r) /\ SameAddress(r[1], e.att)
      BY DEF Target, RowsOf, SameAddress
    <2>4. PICK k : k = [on |-> {r}, event |-> e]
      OBVIOUS
    <2>5. e \in Events
      BY DEF SafeInv, TypeOK
    <2>6. k \in [on : SUBSET Rows, event : Events \cup {NoEvent}] /\ HookGood(k)
      BY <2>3, <2>4, <2>5 DEF HookGood
    <2>7. /\ hook' \in [Processes -> [on : SUBSET Rows, event : Events \cup {NoEvent}]]
          /\ hook'[p] = k /\ \A q \in Processes \ {p} : hook'[q] = hook[q]
      BY <2>1, <2>4, <2>6 DEF SafeInv, TypeOK
    <2>8. TypeOK'
      BY <2>2, <2>7 DEF SafeInv, TypeOK
    <2>9. Memory'
      BY <2>2, <2>6, <2>7, Calm, MemoryStep
    <2>10. QED BY <2>2, <2>8, <2>9, Calm DEF SafeInv
  <1>2. CASE ApplyWebhook(p)
    <2>1. PICK e : e = hook[p].event
      OBVIOUS
    <2>2. hook[p] # IdleHook /\ HookGood(hook[p])
      BY <1>2 DEF ApplyWebhook, SafeInv, Memory
    <2>3. PICK r \in Rows : Exists(r) /\ hook[p].on = {r} /\ e \in events /\ SameAddress(r[1], e.att)
      BY <2>1, <2>2 DEF HookGood
    <2>4. /\ hook' = [hook EXCEPT ![p] = IdleHook]
          /\ UNCHANGED <<release, run, mail, poll, resume, acked, events, faults>>
      BY <1>2 DEF ApplyWebhook
    <2>5. /\ hook' \in [Processes -> [on : SUBSET Rows, event : Events \cup {NoEvent}]]
          /\ hook'[p] = IdleHook /\ \A q \in Processes \ {p} : hook'[q] = hook[q]
      BY <2>4, IdleGood DEF SafeInv, TypeOK
    <2>6. \/ UNCHANGED <<row, grounds>>
          \/ /\ row' = [row EXCEPT ![r].status = e.kind, ![r].event = e]
             /\ Ground(IF e.kind = "DELIVERED" THEN {} ELSE {r[1]})
      BY <1>2, <2>1, <2>3 DEF ApplyWebhook
    <2>7. PICK v : v = [row[r] EXCEPT !.status = e.kind, !.event = e]
      OBVIOUS
    <2>8. e \in Events /\ e.kind \in Kinds
      BY <2>3 DEF SafeInv, TypeOK, Events
    <2>9. row[r] \in Row /\ row \in [Rows -> Row]
      BY DEF SafeInv, TypeOK
    <2>10. v \in Row /\ v.status = e.kind /\ e.kind \notin {"none", "ACCEPTED"}
      BY <2>7, <2>8, <2>9 DEF Row, DeliveryStatus, Final
    <2>11. /\ row' \in [Rows -> Row]
           /\ \A q \in Rows : row'[q] = row[q] \/ (q = r /\ row'[q] = v)
           /\ \A q \in Rows : Exists(q)' = Exists(q)
           /\ grounds' \in [Attendees -> 0..MaxMails]
      <3>1. CASE UNCHANGED <<row, grounds>>
        BY <2>9, <3>1 DEF Exists, SafeInv, TypeOK
      <3>2. CASE /\ row' = [row EXCEPT ![r].status = e.kind, ![r].event = e]
                 /\ Ground(IF e.kind = "DELIVERED" THEN {} ELSE {r[1]})
        <4>1. row' = [row EXCEPT ![r] = v]
          BY <2>7, <3>2
        <4>2. grounds' \in [Attendees -> 0..MaxMails]
          BY <3>2, GroundType DEF SafeInv
        <4>3. QED BY <2>3, <2>10, <4>1, <4>2, RowWritten DEF SafeInv
      <3>3. QED BY <2>6, <3>1, <3>2
    <2>12. TypeOK'
      BY <2>4, <2>5, <2>11 DEF SafeInv, TypeOK
    <2>13. Onward
      BY <2>4, <2>11 DEF Onward, SafeInv, TypeOK
    <2>14. Memory'
      BY <2>4, <2>5, <2>13, IdleGood, MemoryStep
    <2>15. Truth'
      <3>1. SameAddress(e.att, r[1])
        BY <2>3 DEF SameAddress
      <3>2. ASSUME NEW q \in Rows
            PROVE  \/ row'[q].status = row[q].status
                   \/ row'[q].status \notin {"ACCEPTED", "DELIVERED"}
                   \/ /\ row'[q].status = "DELIVERED"
                      /\ \E x \in events : SameAddress(x.att, q[1]) /\ x.kind = "DELIVERED"
        BY <2>3, <2>10, <2>11, <3>1
      <3>3. QED BY <2>13, <3>2, TruthStep
    <2>16. QED BY <2>12, <2>14, <2>15 DEF SafeInv
  <1>3. QED BY <1>1, <1>2

LEMMA Polled ==
    ASSUME SafeInv, NEW p \in Processes,
           ApplyPoll(p) \/ \E r \in Rows : BeginPoll(p, r)
    PROVE  SafeInv'
  <1>1. CASE \E r \in Rows : BeginPoll(p, r)
    <2>1. PICK r \in Rows : BeginPoll(p, r)
      BY <1>1
    <2>2. PICK k : k = [on |-> {r}, status |-> row[r].status]
      OBVIOUS
    <2>3. /\ poll' = [poll EXCEPT ![p] = k]
          /\ UNCHANGED <<row, release, run, mail, hook, resume, acked, events, grounds, faults>>
      BY <2>1, <2>2 DEF BeginPoll
    <2>4. Exists(r) /\ row[r].status \in DeliveryStatus
      BY <2>1 DEF BeginPoll, Exists, DeliveryStatus
    <2>5. k \in [on : SUBSET Rows, status : DeliveryStatus] /\ PollGood(k)
      BY <2>2, <2>4 DEF PollGood
    <2>6. /\ poll' \in [Processes -> [on : SUBSET Rows, status : DeliveryStatus]]
          /\ poll'[p] = k /\ \A q \in Processes \ {p} : poll'[q] = poll[q]
      BY <2>3, <2>5 DEF SafeInv, TypeOK
    <2>7. TypeOK'
      BY <2>3, <2>6 DEF SafeInv, TypeOK
    <2>8. Memory'
      BY <2>3, <2>5, <2>6, Calm, MemoryStep
    <2>9. QED BY <2>3, <2>7, <2>8, Calm DEF SafeInv
  <1>2. CASE ApplyPoll(p)
    <2>1. PollGood(poll[p]) /\ poll[p] # IdlePoll
      BY <1>2 DEF ApplyPoll, SafeInv, Memory
    <2>2. PICK r \in Rows : Exists(r) /\ poll[p].on = {r}
      BY <2>1 DEF PollGood
    <2>3. /\ poll' = [poll EXCEPT ![p] = IdlePoll]
          /\ UNCHANGED <<release, run, mail, hook, resume, acked, events, faults>>
      BY <1>2 DEF ApplyPoll
    <2>4. \/ UNCHANGED <<row, grounds>>
          \/ \E e \in events : /\ SameAddress(e.att, r[1])
                               /\ e.kind \in {"DELIVERED", "BOUNCED", "FAILED"}
                               /\ SetStatus(r, e.kind)
                               /\ Ground(IF e.kind = "DELIVERED" THEN {} ELSE {r[1]})
      BY <1>2, <2>2 DEF ApplyPoll
    <2>5. /\ poll' \in [Processes -> [on : SUBSET Rows, status : DeliveryStatus]]
          /\ poll'[p] = IdlePoll /\ \A q \in Processes \ {p} : poll'[q] = poll[q]
      BY <2>3, IdleGood DEF SafeInv, TypeOK
    <2>6. /\ row' \in [Rows -> Row]
          /\ \A q \in Rows : Exists(q)' = Exists(q)
          /\ grounds' \in [Attendees -> 0..MaxMails]
          /\ \A q \in Rows : \/ row'[q].status = row[q].status
                             \/ row'[q].status \notin {"ACCEPTED", "DELIVERED"}
                             \/ /\ row'[q].status = "DELIVERED"
                                /\ \E x \in events : SameAddress(x.att, q[1]) /\ x.kind = "DELIVERED"
      <3>1. CASE UNCHANGED <<row, grounds>>
        BY <3>1 DEF Exists, SafeInv, TypeOK
      <3>2. CASE \E e \in events : /\ SameAddress(e.att, r[1])
                                   /\ e.kind \in {"DELIVERED", "BOUNCED", "FAILED"}
                                   /\ SetStatus(r, e.kind)
                                   /\ Ground(IF e.kind = "DELIVERED" THEN {} ELSE {r[1]})
        <4>1. PICK e \in events : /\ SameAddress(e.att, r[1])
                                  /\ e.kind \in {"DELIVERED", "BOUNCED", "FAILED"}
                                  /\ SetStatus(r, e.kind)
                                  /\ Ground(IF e.kind = "DELIVERED" THEN {} ELSE {r[1]})
          BY <3>2
        <4>2. grounds' \in [Attendees -> 0..MaxMails]
          BY <4>1, GroundType DEF SafeInv
        <4>3. e.kind \in DeliveryStatus /\ e.kind # "none"
          BY <4>1 DEF DeliveryStatus, Final
        <4>4. /\ row' \in [Rows -> Row] /\ row'[r].status = e.kind
              /\ \A q \in Rows \ {r} : row'[q] = row[q]
              /\ \A q \in Rows : Exists(q)' = Exists(q)
          BY <2>2, <4>1, <4>3, StatusWritten DEF SafeInv
        <4>5. QED BY <4>1, <4>2, <4>4
      <3>3. QED BY <2>4, <3>1, <3>2
    <2>7. TypeOK'
      BY <2>3, <2>5, <2>6 DEF SafeInv, TypeOK
    <2>8. Onward
      BY <2>3, <2>6 DEF Onward, SafeInv, TypeOK
    <2>9. Memory'
      BY <2>3, <2>5, <2>8, IdleGood, MemoryStep
    <2>10. Truth'
      BY <2>6, <2>8, TruthStep
    <2>11. QED BY <2>7, <2>9, <2>10 DEF SafeInv
  <1>3. QED BY <1>1, <1>2

LEMMA Restarted ==
    ASSUME SafeInv, NEW p \in Processes, Restart(p)
    PROVE  SafeInv'
  <1>1. /\ run' = [run EXCEPT ![p] = IdleRun]
        /\ mail' = [s \in Senders |-> IF s[1] = p THEN IdleMail ELSE mail[s]]
        /\ hook' = [hook EXCEPT ![p] = IdleHook]
        /\ poll' = [poll EXCEPT ![p] = IdlePoll]
        /\ resume' = [resume EXCEPT ![p] = {n \in Releases : release[n] = "RUNNING"}]
        /\ faults' = faults + 1 /\ faults < MaxFaults
        /\ UNCHANGED <<row, release, acked, events, grounds>>
    BY DEF Restart
  <1>2. /\ run' \in [Processes -> Run] /\ mail' \in [Senders -> Mail]
        /\ hook' \in [Processes -> [on : SUBSET Rows, event : Events \cup {NoEvent}]]
        /\ poll' \in [Processes -> [on : SUBSET Rows, status : DeliveryStatus]]
    BY <1>1, IdleGood DEF SafeInv, TypeOK
  <1>3. resume' \in [Processes -> SUBSET Releases] /\ faults' \in 0..MaxFaults
    BY <1>1 DEF SafeInv, TypeOK
  <1>4. TypeOK'
    BY <1>1, <1>2, <1>3 DEF SafeInv, TypeOK
  <1>5. /\ \A q \in Processes : /\ run'[q] = run[q] \/ run'[q] = IdleRun
                                /\ hook'[q] = hook[q] \/ hook'[q] = IdleHook
                                /\ poll'[q] = poll[q] \/ poll'[q] = IdlePoll
        /\ \A s \in Senders : mail'[s] = mail[s] \/ mail'[s] = IdleMail
    BY <1>1 DEF SafeInv, TypeOK
  <1>6. Memory'
    BY <1>1, <1>5, IdleGood, Calm, MemoryStep
  <1>7. QED BY <1>1, <1>4, <1>6, Calm DEF SafeInv

LEMMA Resumed ==
    ASSUME SafeInv, NEW p \in Processes, NEW n \in Releases, ResumeRelease(p, n)
    PROVE  SafeInv'
  <1> DEFINE mine == {r \in Rows : Exists(r) /\ row[r].release = n}
  <1>1. /\ row' = [r \in Rows |-> IF r \in mine /\ row[r].status = "SENDING"
                                    THEN [row[r] EXCEPT !.status = "QUEUED"] ELSE row[r]]
        /\ resume' = [resume EXCEPT ![p] = resume[p] \ {n}]
        /\ UNCHANGED <<run, mail, hook, poll, acked, events, grounds, faults>>
    BY DEF ResumeRelease
  <1>2. ASSUME NEW r \in Rows
        PROVE  /\ row'[r] \in Row /\ Exists(r)' = Exists(r)
               /\ row'[r].status = row[r].status \/ row'[r].status = "QUEUED"
    <2>1. row[r] \in Row
      BY DEF SafeInv, TypeOK
    <2>2. CASE r \in mine /\ row[r].status = "SENDING"
      <3>1. row'[r] = [row[r] EXCEPT !.status = "QUEUED"]
        BY <1>1, <2>2
      <3>2. row'[r] \in Row /\ row'[r].status = "QUEUED"
        BY <2>1, <3>1 DEF Row, DeliveryStatus
      <3>3. QED BY <2>2, <3>2 DEF Exists
    <2>3. CASE ~(r \in mine /\ row[r].status = "SENDING")
      <3>1. row'[r] = row[r]
        BY <1>1, <2>3
      <3>2. QED BY <2>1, <3>1 DEF Exists
    <2>4. QED BY <2>2, <2>3
  <1>3. row' \in [Rows -> Row]
    BY <1>1, <1>2
  <1>4. release' \in [Releases -> {"none", "RUNNING", "COMPLETED", "PARTIAL_FAILURE", "FAILED"}]
    BY DEF ResumeRelease, SafeInv, TypeOK
  <1>5. resume' \in [Processes -> SUBSET Releases]
    BY <1>1 DEF SafeInv, TypeOK
  <1>6. TypeOK'
    BY <1>1, <1>3, <1>4, <1>5 DEF SafeInv, TypeOK
  <1>7. Onward
    <2>1. UNCHANGED <<acked, events>> /\ \A a \in Attendees : acked[a] \in Int
      BY <1>1 DEF SafeInv, TypeOK
    <2>2. QED BY <1>2, <2>1 DEF Onward
  <1>8. Memory'
    BY <1>1, <1>7, MemoryStep
  <1>9. Truth'
    BY <1>2, <1>7, TruthStep
  <1>10. QED BY <1>6, <1>8, <1>9 DEF SafeInv

LEMMA SafeNext == SafeInv /\ [Next]_vars => SafeInv'
  <1> SUFFICES ASSUME SafeInv, [Next]_vars PROVE SafeInv'
    OBVIOUS
  <1>1. CASE UNCHANGED vars
    <2>1. TypeOK'
      BY <1>1 DEF vars, SafeInv, TypeOK
    <2>2. Memory'
      BY <1>1, Calm, MemoryStep DEF vars
    <2>3. QED BY <1>1, <2>1, <2>2, Calm DEF vars, SafeInv
  <1>2. CASE Next
    <2>1. ASSUME NEW e \in Events, Report(e) PROVE SafeInv'
      BY <2>1, Reported
    <2>2. ASSUME NEW p \in Processes, Work(p) \/ FinishMail(<<p, "retry">>) PROVE SafeInv'
      <3>1. <<p, "retry">> \in Senders /\ <<p, "release">> \in Senders
        BY DEF Senders
      <3>2. ASSUME NEW s \in Senders, FinishMail(s) PROVE SafeInv'
        BY <3>2, AnswerKept, Answered DEF FinishMail
      <3>3. QED BY <2>2, <3>1, <3>2, DeliveryQueued, DeliverySent, RunEnded DEF Work
    <2>3. ASSUME NEW p \in Processes, Trigger(p) PROVE SafeInv'
      <3>1. \A a \in Attendees : {a} \in SUBSET Attendees
        OBVIOUS
      <3>2. {} \in SUBSET Attendees
        OBVIOUS
      <3>3. QED BY <2>3, <3>1, <3>2, ReleaseBegun, RetryBegun DEF Trigger
    <2>4. ASSUME NEW p \in Processes, NEW k \in {"release", "retry"}, LoseAnswer(<<p, k>>) PROVE SafeInv'
      BY <2>4, AnswerKept DEF Senders
    <2>5. ASSUME NEW p \in Processes, Throw(p) \/ Restart(p) \/ \E n \in Releases : ResumeRelease(p, n)
          PROVE  SafeInv'
      BY <2>5, RunEnded, Restarted, Resumed
    <2>6. ASSUME NEW p \in Processes,
                 \/ ApplyWebhook(p) \/ \E e \in events : BeginWebhook(p, e)
                 \/ ApplyPoll(p) \/ \E r \in Rows : BeginPoll(p, r)
          PROVE  SafeInv'
      BY <2>6, Webhook, Polled
    <2>7. QED BY <1>2, <2>1, <2>2, <2>3, <2>4, <2>5, <2>6 DEF Next
  <1>3. QED BY <1>1, <1>2

LEMMA SafeAlways == Spec => []SafeInv
  BY SafeInit, SafeNext, PTL DEF Spec

(* Every row, release and handler keeps its shape, whatever the provider   *)
(* reports and whichever process is restarted.                             *)
THEOREM TypeCorrect == Spec => []TypeOK
  <1>1. SafeInv => TypeOK
    BY DEF SafeInv
  <1>2. QED BY <1>1, SafeAlways, PTL

(* Accepted and delivered are never shown of a mail the provider did not   *)
(* take, if attendees have addresses of their own.                         *)
THEOREM NeverFalseDelivered == ASSUME ~SharedAddress PROVE Spec => []NoFalseDelivered
  <1>1. SafeInv => NoFalseDelivered
    BY DEF SafeInv, Truth, NoFalseDelivered, SameAddress
  <1>2. QED BY <1>1, SafeAlways, PTL

-----------------------------------------------------------------------------
(* One process: a release ends with all its mails answered. *)

OneProcess == \E p \in Processes : Processes = {p}

RowsOpen ==
  \A r \in Rows :
    /\ Exists(r) => row[r].release \in Releases /\ release[row[r].release] # "none"
    /\ row[r].status = "QUEUED" => release[row[r].release] = "RUNNING"

(* A running release is no matter of the start-up reconciliation; its rows *)
(* are those of its targets, and what is queued is still to be sent.       *)
RunOpen(p) ==
  run[p].at # "idle" =>
    /\ run[p].release \in Releases /\ release[run[p].release] = "RUNNING"
    /\ run[p].release \notin resume[p] /\ run[p].todo \subseteq run[p].targets
    /\ \A r \in Rows : Exists(r) /\ row[r].release = run[p].release =>
         /\ r[1] \in run[p].targets
         /\ run[p].at = "send" /\ row[r].status = "QUEUED" => r[1] \in run[p].todo

Closing == /\ RowsOpen
           /\ \A p \in Processes : /\ RunOpen(p)
                                   /\ \A n \in resume[p] : release[n] = "RUNNING"

LEMMA OwnRow ==
    ASSUME OneProcess, NEW p \in Processes
    PROVE  /\ \A r \in Rows : r = <<r[1], p>> /\ r[1] \in Attendees
           /\ \A q \in Processes : q = p
  BY DEF OneProcess, Rows

LEMMA ClosingInit == Init => Closing
  <1> SUFFICES ASSUME Init PROVE Closing
    OBVIOUS
  <1>1. NoRow.status = "none" /\ IdleRun.at = "idle"
    BY DEF NoRow, IdleRun
  <1>2. \A r \in Rows : row[r] = NoRow
    BY DEF Init
  <1>3. \A p \in Processes : run[p] = IdleRun /\ resume[p] = {}
    BY DEF Init
  <1>4. QED BY <1>1, <1>2, <1>3 DEF Closing, RowsOpen, RunOpen, Exists

(* Rows keep their release and none is queued anew; a run stays or ends.   *)
LEMMA ClosingCalm ==
    ASSUME Closing, UNCHANGED <<release, resume>>,
           \A r \in Rows : /\ Exists(r)' = Exists(r) /\ row'[r].release = row[r].release
                           /\ row'[r].status = row[r].status \/ row'[r].status # "QUEUED",
           \A p \in Processes :
             \/ run'[p].at = "idle"
             \/ /\ run'[p].at = run[p].at /\ run'[p].release = run[p].release
                /\ run'[p].targets = run[p].targets /\ run'[p].todo = run[p].todo
    PROVE  Closing'
  <1>1. RowsOpen'
    BY DEF Closing, RowsOpen
  <1>2. ASSUME NEW p \in Processes PROVE RunOpen(p)'
    BY DEF Closing, RunOpen
  <1>3. QED BY <1>1, <1>2 DEF Closing

LEMMA ClosingBegin ==
    ASSUME SafeInv, OneProcess, Closing, NEW p \in Processes, NEW retryOnly,
           NEW only \in SUBSET Attendees, BeginRelease(p, retryOnly, only)
    PROVE  Closing'
  <1>1. PICK n \in Releases :
          /\ release[n] = "none"
          /\ run'[p].at = "queue" /\ run'[p].release = n /\ run'[p].todo = run'[p].targets
          /\ release' = [release EXCEPT ![n] = "RUNNING"]
    <2>1. run \in [Processes -> Run]
      BY DEF SafeInv, TypeOK
    <2>2. PICK n \in Releases, seen \in [Attendees -> {{}} \cup {{r} : r \in Rows}] :
            /\ release[n] = "none"
            /\ LET targets == IF only # {} THEN only
                              ELSE {a \in Attendees : Due(a, retryOnly, seen[a])}
               IN run' = [run EXCEPT ![p] = [IdleRun EXCEPT !.at = "queue", !.release = n, !.seen = seen,
                                                            !.targets = targets, !.todo = targets]]
            /\ release' = [release EXCEPT ![n] = "RUNNING"]
      BY DEF BeginRelease, GoRun
    <2>3. PICK targets : targets = IF only # {} THEN only
                                   ELSE {a \in Attendees : Due(a, retryOnly, seen[a])}
      OBVIOUS
    <2>4. run'[p] = [IdleRun EXCEPT !.at = "queue", !.release = n, !.seen = seen,
                                    !.targets = targets, !.todo = targets]
      BY <2>1, <2>2, <2>3
    <2>5. run'[p].at = "queue" /\ run'[p].release = n /\ run'[p].todo = run'[p].targets
      BY <2>4 DEF IdleRun
    <2>6. QED BY <2>2, <2>5
  <1>2. UNCHANGED <<row, resume>>
    BY DEF BeginRelease
  <1>3. release'[n] = "RUNNING" /\ \A m \in Releases \ {n} : release'[m] = release[m]
    BY <1>1 DEF SafeInv, TypeOK
  <1>4. \A r \in Rows : Exists(r) => row[r].release # n
    BY <1>1 DEF Closing, RowsOpen
  <1>5. resume[p] \subseteq Releases /\ n \notin resume[p]
    BY <1>1 DEF Closing, SafeInv, TypeOK
  <1>6. RowsOpen'
    BY <1>2, <1>3, <1>4 DEF Closing, RowsOpen, Exists
  <1>7. RunOpen(p)'
    BY <1>1, <1>2, <1>3, <1>4, <1>5 DEF RunOpen, Exists
  <1>8. \A m \in resume'[p] : release'[m] = "RUNNING"
    BY <1>2, <1>3, <1>5 DEF Closing
  <1>9. QED BY <1>6, <1>7, <1>8, OwnRow DEF Closing

LEMMA ClosingQueue ==
    ASSUME SafeInv, OneProcess, Closing, NEW p \in Processes, NEW a \in Attendees, QueueDelivery(p, a)
    PROVE  Closing'
  <1>1. PICK s : s = run[p]
    OBVIOUS
  <1>2. s.at = "queue" /\ a \in s.todo /\ s \in Run /\ RunGood(p, s) /\ run \in [Processes -> Run]
    BY <1>1 DEF QueueDelivery, SafeInv, TypeOK, Memory
  <1>3. PICK r \in Rows : r = IF s.seen[a] = {} THEN <<a, p>> ELSE CHOOSE x \in s.seen[a] : TRUE
    <2>1. <<a, p>> \in Rows
      BY DEF Rows
    <2>2. CASE s.seen[a] = {}
      BY <2>1, <2>2
    <2>3. CASE s.seen[a] # {}
      <3>1. PICK x \in Rows : s.seen[a] = {x}
        BY <1>2, <2>3 DEF RunGood
      <3>2. (CHOOSE y \in s.seen[a] : TRUE) = x
        BY <3>1
      <3>3. QED BY <2>3, <3>2
    <2>4. QED BY <2>2, <2>3
  <1>4. r[1] = a
    <2>1. CASE s.seen[a] = {}
      BY <1>3, <2>1
    <2>2. CASE s.seen[a] # {}
      <3>1. PICK x \in Rows : x[1] = a /\ s.seen[a] = {x}
        BY <1>2, <2>2 DEF RunGood
      <3>2. QED BY <1>3, <2>2, <3>1
    <2>3. QED BY <2>1, <2>2
  <1>5. PICK w : w = IF s.seen[a] = {} THEN [NoRow EXCEPT !.age = NewAge] ELSE row[r]
    OBVIOUS
  <1>6. PICK v : v = [w EXCEPT !.status = "QUEUED", !.release = s.release]
    OBVIOUS
  <1>7. /\ row' = [row EXCEPT ![r] = v]
        /\ run' = [run EXCEPT ![p] = [s EXCEPT !.seen[a] = {r},
                                               !.at = IF s.todo = {a} THEN "send" ELSE "queue",
                                               !.todo = IF s.todo = {a} THEN s.targets ELSE s.todo \ {a}]]
        /\ UNCHANGED <<release, resume>>
    BY <1>1, <1>3, <1>5, <1>6 DEF QueueDelivery, GoRun
  <1>8. v.status = "QUEUED" /\ v.release = s.release
    <2>1. "status" \in DOMAIN w /\ "release" \in DOMAIN w
      BY <1>5 DEF NoRow, SafeInv, TypeOK, Row
    <2>2. QED BY <1>6, <2>1
  <1>9. row'[r] = v /\ \A q \in Rows \ {r} : row'[q] = row[q]
    BY <1>7 DEF SafeInv, TypeOK
  <1>10. /\ run'[p].release = s.release /\ run'[p].targets = s.targets
         /\ run'[p].at = IF s.todo = {a} THEN "send" ELSE "queue"
         /\ run'[p].todo = IF s.todo = {a} THEN s.targets ELSE s.todo \ {a}
    BY <1>2, <1>7 DEF Run
  <1>11. /\ s.release \in Releases /\ release[s.release] = "RUNNING"
         /\ s.release \notin resume[p] /\ s.todo \subseteq s.targets
         /\ \A q \in Rows : Exists(q) /\ row[q].release = s.release => q[1] \in s.targets
    BY <1>1, <1>2 DEF Closing, RunOpen
  <1>12. RowsOpen'
    BY <1>7, <1>8, <1>9, <1>11 DEF Closing, RowsOpen, Exists
  <1>13. \A q \in Rows : Exists(q)' /\ row'[q].release = s.release => q[1] \in s.targets
    BY <1>2, <1>4, <1>8, <1>9, <1>11 DEF Exists
  <1>14. RunOpen(p)'
    BY <1>7, <1>10, <1>11, <1>13 DEF RunOpen
  <1>15. QED BY <1>7, <1>12, <1>14, OwnRow DEF Closing

LEMMA ClosingSend ==
    ASSUME SafeInv, OneProcess, Closing, NEW p \in Processes, NEW a \in Attendees, SendDelivery(p, a)
    PROVE  Closing'
  <1>1. PICK r \in run[p].seen[a] : SetStatus(r, "SENDING")
    BY DEF SendDelivery
  <1>2. /\ run' = [run EXCEPT ![p] = [run[p] EXCEPT !.todo = run[p].todo \ {a}]]
        /\ run[p].at = "send"
        /\ UNCHANGED <<release, resume>>
    BY DEF SendDelivery, GoRun
  <1>3. RunGood(p, run[p]) /\ run[p] \in Run /\ run \in [Processes -> Run]
    BY DEF SafeInv, Memory, TypeOK
  <1>4. r \in Rows /\ Exists(r) /\ r[1] = a
    BY <1>3 DEF RunGood
  <1>5. /\ row'[r] = [row[r] EXCEPT !.status = "SENDING"] /\ row'[r].status = "SENDING"
        /\ \A q \in Rows \ {r} : row'[q] = row[q]
        /\ \A q \in Rows : Exists(q)' = Exists(q)
    BY <1>1, <1>4, StatusWritten DEF SafeInv, DeliveryStatus
  <1>6. row'[r].release = row[r].release
    BY <1>5 DEF SafeInv, TypeOK, Row
  <1>7. /\ run'[p].release = run[p].release /\ run'[p].targets = run[p].targets
        /\ run'[p].at = run[p].at /\ run'[p].todo = run[p].todo \ {a}
    BY <1>2, <1>3 DEF Run
  <1>8. \A q \in Rows \ {r} : q[1] # a
    BY <1>4, OwnRow
  <1>a. /\ \A q \in Rows : /\ Exists(q)' = Exists(q) /\ row'[q].release = row[q].release
                           /\ row'[q].status = "QUEUED" => row[q].status = "QUEUED" /\ q # r
    BY <1>5, <1>6
  <1>9. RowsOpen'
    BY <1>2, <1>a DEF Closing, RowsOpen
  <1>10. RunOpen(p)'
    <2>1. /\ run[p].release \in Releases /\ release[run[p].release] = "RUNNING"
          /\ run[p].release \notin resume[p] /\ run[p].todo \subseteq run[p].targets
          /\ \A q \in Rows : Exists(q) /\ row[q].release = run[p].release =>
               /\ q[1] \in run[p].targets
               /\ row[q].status = "QUEUED" => q[1] \in run[p].todo
      BY <1>2 DEF Closing, RunOpen
    <2>2. QED BY <1>2, <1>7, <1>8, <1>a, <2>1 DEF RunOpen
  <1>11. QED BY <1>2, <1>9, <1>10, OwnRow DEF Closing

LEMMA ClosingFinish ==
    ASSUME SafeInv, OneProcess, Closing, NEW p \in Processes, FinishRelease(p)
    PROVE  Closing'
  <1>1. /\ run[p].at = "send" /\ run[p].todo = {}
        /\ run' = [run EXCEPT ![p] = IdleRun]
        /\ UNCHANGED <<row, resume>>
    BY DEF FinishRelease, GoRun
  <1>2. PICK n, st : n = run[p].release /\ st \in {"COMPLETED", "PARTIAL_FAILURE", "FAILED"}
                     /\ release' = [release EXCEPT ![n] = st]
    BY DEF FinishRelease
  <1>3. /\ n \in Releases /\ n \notin resume[p]
        /\ \A r \in Rows : Exists(r) /\ row[r].release = n => row[r].status # "QUEUED"
    BY <1>1, <1>2 DEF Closing, RunOpen
  <1>4. release'[n] = st /\ \A m \in Releases \ {n} : release'[m] = release[m]
    BY <1>2, <1>3 DEF SafeInv, TypeOK
  <1>5. RowsOpen'
    BY <1>1, <1>2, <1>3, <1>4 DEF Closing, RowsOpen, Exists
  <1>6. resume[p] \subseteq Releases
    BY DEF SafeInv, TypeOK
  <1>7. \A m \in resume'[p] : release'[m] = "RUNNING"
    BY <1>1, <1>3, <1>4, <1>6 DEF Closing
  <1>8. run'[p].at = "idle"
    BY <1>1, IdleGood DEF SafeInv, TypeOK
  <1>9. QED BY <1>5, <1>7, <1>8, OwnRow DEF Closing, RunOpen

LEMMA ClosingRestart ==
    ASSUME SafeInv, OneProcess, Closing, NEW p \in Processes, Restart(p)
    PROVE  Closing'
  <1>1. /\ run'[p] = IdleRun /\ resume'[p] = {n \in Releases : release[n] = "RUNNING"}
        /\ UNCHANGED <<row, release>>
    BY DEF Restart, SafeInv, TypeOK
  <1>2. run'[p].at = "idle"
    BY <1>1, IdleGood
  <1>3. QED BY <1>1, <1>2, OwnRow DEF Closing, RowsOpen, RunOpen, Exists

LEMMA ClosingResume ==
    ASSUME SafeInv, OneProcess, Closing, NEW p \in Processes, NEW n \in Releases, ResumeRelease(p, n)
    PROVE  Closing'
  <1> DEFINE mine == {r \in Rows : Exists(r) /\ row[r].release = n}
             open == \E r \in mine : row[r].status \in {"QUEUED", "SENDING"}
  <1>1. /\ n \in resume[p]
        /\ row' = [r \in Rows |-> IF r \in mine /\ row[r].status = "SENDING"
                                    THEN [row[r] EXCEPT !.status = "QUEUED"] ELSE row[r]]
        /\ resume' = [resume EXCEPT ![p] = resume[p] \ {n}]
        /\ UNCHANGED run
    BY DEF ResumeRelease
  <1>a. PICK st : st = IF \E r \in mine : row[r].status \in {"FAILED", "BOUNCED"}
                         THEN "PARTIAL_FAILURE" ELSE "COMPLETED"
    OBVIOUS
  <1>b. release' = IF open THEN release ELSE [release EXCEPT ![n] = st]
    BY <1>a DEF ResumeRelease
  <1>2. release[n] = "RUNNING" /\ resume[p] \subseteq Releases /\ resume'[p] = resume[p] \ {n}
    BY <1>1 DEF Closing, SafeInv, TypeOK
  <1>3. ASSUME NEW r \in Rows
        PROVE  /\ Exists(r)' = Exists(r) /\ row'[r].release = row[r].release
               /\ \/ row'[r].status = row[r].status
                  \/ r \in mine /\ row[r].status = "SENDING" /\ row'[r].status = "QUEUED"
    <2>1. row[r] \in Row
      BY DEF SafeInv, TypeOK
    <2>2. CASE r \in mine /\ row[r].status = "SENDING"
      <3>1. row'[r] = [row[r] EXCEPT !.status = "QUEUED"]
        BY <1>1, <2>2
      <3>2. row'[r].status = "QUEUED" /\ row'[r].release = row[r].release
        BY <2>1, <3>1 DEF Row
      <3>3. QED BY <2>2, <3>2 DEF Exists
    <2>3. CASE ~(r \in mine /\ row[r].status = "SENDING")
      <3>1. row'[r] = row[r]
        BY <1>1, <2>3
      <3>2. QED BY <3>1 DEF Exists
    <2>4. QED BY <2>2, <2>3
  <1>4. /\ \A m \in Releases \ {n} : release'[m] = release[m]
        /\ release'[n] # "none"
        /\ open => release'[n] = "RUNNING"
    <2>1. CASE open
      BY <1>b, <1>2, <2>1
    <2>2. CASE ~open
      <3>1. release' = [release EXCEPT ![n] = st] /\ st # "none"
        BY <1>a, <1>b, <2>2
      <3> HIDE DEF open
      <3>2. QED BY <2>2, <3>1 DEF SafeInv, TypeOK
    <2>3. QED BY <2>1, <2>2
  <1>5. ASSUME NEW r \in Rows
        PROVE  /\ Exists(r)' => row'[r].release \in Releases /\ release'[row'[r].release] # "none"
               /\ row'[r].status = "QUEUED" => release'[row'[r].release] = "RUNNING"
    <2>1. /\ Exists(r) => row[r].release \in Releases /\ release[row[r].release] # "none"
          /\ row[r].status = "QUEUED" => release[row[r].release] = "RUNNING"
      BY DEF Closing, RowsOpen
    <2>2. row'[r].status = "QUEUED" => Exists(r)
      BY <1>3 DEF Exists
    <2>3. CASE r \in mine
      <3>1. row'[r].status = "QUEUED" => open
        BY <1>3, <2>3
      <3>2. QED BY <1>3, <1>4, <2>3, <3>1
    <2>4. CASE r \notin mine
      <3>1. Exists(r) => row[r].release # n
        BY <2>4
      <3> HIDE DEF mine, open
      <3>2. QED BY <1>3, <1>4, <2>1, <2>2, <2>4, <3>1
    <2>5. QED BY <2>3, <2>4
  <1>6. RowsOpen'
    BY <1>5 DEF RowsOpen
  <1>7. RunOpen(p)'
    <2>1. CASE run[p].at = "idle"
      BY <1>1, <2>1 DEF RunOpen
    <2>2. CASE run[p].at # "idle"
      <3>1. /\ run[p].release \in Releases /\ release[run[p].release] = "RUNNING"
            /\ run[p].release \notin resume[p] /\ run[p].todo \subseteq run[p].targets
            /\ \A r \in Rows : Exists(r) /\ row[r].release = run[p].release =>
                 /\ r[1] \in run[p].targets
                 /\ run[p].at = "send" /\ row[r].status = "QUEUED" => r[1] \in run[p].todo
        BY <2>2 DEF Closing, RunOpen
      <3>2. run[p].release # n
        BY <1>1, <3>1
      <3>3. \A r \in mine : row[r].release = n
        OBVIOUS
      <3>4. run' = run
        BY <1>1
      <3> HIDE DEF mine, open
      <3>5. QED BY <1>2, <1>3, <1>4, <3>1, <3>2, <3>3, <3>4 DEF RunOpen
    <2>3. QED BY <2>1, <2>2
  <1>8. \A m \in resume'[p] : release'[m] = "RUNNING"
    BY <1>2, <1>4 DEF Closing
  <1>9. QED BY <1>6, <1>7, <1>8, OwnRow DEF Closing

(* What the row of one mail, webhook or poll does to the others: nothing,  *)
(* and its own keeps its release and is not queued.                        *)
OneRow(r) == \A q \in Rows : /\ Exists(q)' = Exists(q) /\ row'[q].release = row[q].release
                             /\ q = r \/ row'[q].status = row[q].status

SameRun == \A p \in Processes : /\ run'[p].at = run[p].at /\ run'[p].release = run[p].release
                                /\ run'[p].targets = run[p].targets /\ run'[p].todo = run[p].todo

LEMMA StatusOnly ==
    ASSUME SafeInv, NEW r \in Rows, Exists(r), NEW st \in DeliveryStatus, st # "none", SetStatus(r, st)
    PROVE  OneRow(r) /\ row'[r].status = st
  <1>1. /\ row'[r] = [row[r] EXCEPT !.status = st] /\ row'[r].status = st
        /\ \A q \in Rows \ {r} : row'[q] = row[q]
        /\ \A q \in Rows : Exists(q)' = Exists(q)
    BY StatusWritten DEF SafeInv
  <1>2. row'[r].release = row[r].release
    BY <1>1 DEF SafeInv, TypeOK, Row
  <1>3. QED BY <1>1, <1>2 DEF OneRow

LEMMA RecordEffect ==
    ASSUME SafeInv, NEW s \in Senders, NEW ok \in BOOLEAN, Record(s, ok), mail[s].at # "idle"
    PROVE  /\ \E r \in Rows : /\ mail[s].on = {r} /\ OneRow(r)
                              /\ row'[r].status = IF ok THEN "ACCEPTED" ELSE "FAILED"
           /\ SameRun
           /\ UNCHANGED <<release, resume, acked>>
           /\ mail'[s] = IdleMail /\ \A z \in Senders \ {s} : mail'[z] = mail[z]
  <1>1. MailGood(mail[s])
    BY DEF SafeInv, Memory
  <1>2. PICK r \in Rows : Exists(r) /\ mail[s].on = {r}
    BY <1>1 DEF MailGood
  <1>3. row[r] \in Row /\ acked[r[1]] \in 0..MaxMails
    BY DEF SafeInv, TypeOK, Rows
  <1>4. PICK v : v = [row[r] EXCEPT !.status = IF ok THEN "ACCEPTED" ELSE "FAILED",
                                    !.message = IF ok THEN acked[r[1]] ELSE row[r].message]
    OBVIOUS
  <1>5. v \in Row /\ v.status = (IF ok THEN "ACCEPTED" ELSE "FAILED") /\ v.release = row[r].release
    BY <1>3, <1>4 DEF Row, DeliveryStatus, Final
  <1>6. row' = [row EXCEPT ![r] = v]
    BY <1>2, <1>4 DEF Record
  <1>7. /\ row'[r] = v /\ \A q \in Rows \ {r} : row'[q] = row[q]
        /\ \A q \in Rows : Exists(q)' = Exists(q)
    BY <1>2, <1>5, <1>6, RowWritten DEF SafeInv
  <1>8. OneRow(r)
    BY <1>5, <1>7 DEF OneRow
  <1>9. SameRun
    <2>1. CASE run' = run
      BY <2>1 DEF SameRun
    <2>2. CASE run' = [run EXCEPT ![s[1]].sent = @ \/ ok, ![s[1]].failed = @ \/ ~ok]
      <3>1. PICK q \in Processes : q = s[1]
        BY DEF Senders
      <3>2. run \in [Processes -> Run] /\ run[q] \in Run
        BY DEF SafeInv, TypeOK
      <3>3. PICK u : u = [run[q] EXCEPT !.sent = run[q].sent \/ ok, !.failed = run[q].failed \/ ~ok]
        OBVIOUS
      <3>4. u.at = run[q].at /\ u.release = run[q].release /\ u.targets = run[q].targets /\ u.todo = run[q].todo
        BY <3>2, <3>3 DEF Run
      <3>5. run' = [run EXCEPT ![q] = u]
        BY <2>2, <3>1, <3>3
      <3>6. QED BY <3>2, <3>4, <3>5 DEF SameRun
    <2>3. QED BY <2>1, <2>2 DEF Record
  <1>10. /\ UNCHANGED <<release, resume, acked>>
         /\ mail'[s] = IdleMail /\ \A z \in Senders \ {s} : mail'[z] = mail[z]
    BY DEF Record, GoMail, SafeInv, TypeOK
  <1>11. QED BY <1>2, <1>5, <1>7, <1>8, <1>9, <1>10

(* A report reaches a row: unless it says DELIVERED, it is a ground.       *)
ReportEffect ==
  \/ UNCHANGED <<row, grounds>>
  \/ \E r \in Rows, st \in DeliveryStatus :
       /\ OneRow(r) /\ row'[r].status = st /\ st \notin {"none", "QUEUED"}
       /\ Ground(IF st = "DELIVERED" THEN {} ELSE {r[1]})

LEMMA WebhookEffect ==
    ASSUME SafeInv, NEW p \in Processes, ApplyWebhook(p)
    PROVE  ReportEffect /\ UNCHANGED <<release, run, mail, resume, acked>>
  <1>1. PICK e : e = hook[p].event
    OBVIOUS
  <1>2. HookGood(hook[p]) /\ hook[p] # IdleHook
    BY DEF ApplyWebhook, SafeInv, Memory
  <1>3. PICK r \in Rows : Exists(r) /\ hook[p].on = {r} /\ e \in events
    BY <1>1, <1>2 DEF HookGood
  <1>4. e \in Events /\ e.kind \in DeliveryStatus /\ e.kind \notin {"none", "QUEUED"}
    BY <1>3 DEF SafeInv, TypeOK, Events, DeliveryStatus, Final
  <1>5. PICK v : v = [row[r] EXCEPT !.status = e.kind, !.event = e]
    OBVIOUS
  <1>6. row[r] \in Row /\ v \in Row /\ v.status = e.kind /\ v.release = row[r].release
    <2>1. row[r] \in Row
      BY DEF SafeInv, TypeOK
    <2>2. QED BY <1>4, <1>5, <2>1 DEF Row
  <1>7. \/ UNCHANGED <<row, grounds>>
        \/ /\ row' = [row EXCEPT ![r] = v]
           /\ Ground(IF e.kind = "DELIVERED" THEN {} ELSE {r[1]})
    BY <1>1, <1>3, <1>5 DEF ApplyWebhook
  <1>8. ASSUME row' = [row EXCEPT ![r] = v] PROVE OneRow(r) /\ row'[r].status = e.kind
    <2>1. /\ row'[r] = v /\ \A q \in Rows \ {r} : row'[q] = row[q]
          /\ \A q \in Rows : Exists(q)' = Exists(q)
      BY <1>3, <1>4, <1>6, <1>8, RowWritten DEF SafeInv
    <2>2. QED BY <1>6, <2>1 DEF OneRow
  <1>9. UNCHANGED <<release, run, mail, resume, acked>>
    BY DEF ApplyWebhook
  <1>10. QED BY <1>4, <1>7, <1>8, <1>9 DEF ReportEffect

LEMMA PollEffect ==
    ASSUME SafeInv, NEW p \in Processes, ApplyPoll(p)
    PROVE  ReportEffect /\ UNCHANGED <<release, run, mail, resume, acked>>
  <1>1. PollGood(poll[p]) /\ poll[p] # IdlePoll
    BY DEF ApplyPoll, SafeInv, Memory
  <1>2. PICK r \in Rows : Exists(r) /\ poll[p].on = {r}
    BY <1>1 DEF PollGood
  <1>3. \/ UNCHANGED <<row, grounds>>
        \/ \E e \in events : /\ e.kind \in {"DELIVERED", "BOUNCED", "FAILED"}
                             /\ SetStatus(r, e.kind)
                             /\ Ground(IF e.kind = "DELIVERED" THEN {} ELSE {r[1]})
    BY <1>2 DEF ApplyPoll
  <1>4. \A st \in {"DELIVERED", "BOUNCED", "FAILED"} :
          st \in DeliveryStatus /\ st \notin {"none", "QUEUED"}
    BY DEF DeliveryStatus, Final
  <1>5. \A st \in {"DELIVERED", "BOUNCED", "FAILED"} :
          SetStatus(r, st) => OneRow(r) /\ row'[r].status = st
    BY <1>2, <1>4, StatusOnly
  <1>6. UNCHANGED <<release, run, mail, resume, acked>>
    BY DEF ApplyPoll
  <1>7. QED BY <1>3, <1>4, <1>5, <1>6 DEF ReportEffect

LEMMA ClosingNext == OneProcess /\ SafeInv /\ Closing /\ [Next]_vars => Closing'
  <1> SUFFICES ASSUME OneProcess, SafeInv, Closing, [Next]_vars PROVE Closing'
    OBVIOUS
  <1>1. ASSUME UNCHANGED <<row, release, run, resume>> PROVE Closing'
    BY <1>1, ClosingCalm DEF Exists
  <1>2. ASSUME NEW r \in Rows, OneRow(r), row'[r].status # "QUEUED", SameRun, UNCHANGED <<release, resume>>
        PROVE  Closing'
    BY <1>2, ClosingCalm DEF OneRow, SameRun
  <1>3. ASSUME NEW s \in Senders, RecordAnswer(s) \/ LoseAnswer(s) PROVE Closing'
    <2>1. PICK ok \in BOOLEAN : Record(s, ok)
      BY <1>3 DEF RecordAnswer, LoseAnswer
    <2>2. mail[s].at # "idle"
      BY <1>3 DEF RecordAnswer, LoseAnswer
    <2>3. PICK r \in Rows : OneRow(r) /\ row'[r].status # "QUEUED"
      BY <2>1, <2>2, RecordEffect
    <2>4. QED BY <1>2, <2>1, <2>2, <2>3, RecordEffect
  <1>4. ASSUME NEW s \in Senders, FinishMail(s) PROVE Closing'
    BY <1>1, <1>3, <1>4 DEF FinishMail, Answer
  <1>5. ASSUME NEW p \in Processes, Throw(p) PROVE Closing'
    <2>1. UNCHANGED <<row, release, resume>> /\ run' = [run EXCEPT ![p] = IdleRun]
      BY <1>5 DEF Throw, GoRun
    <2>2. \A q \in Processes : run'[q] = run[q] \/ run'[q].at = "idle"
      BY <2>1, IdleGood DEF SafeInv, TypeOK
    <2>3. QED BY <2>1, <2>2, ClosingCalm DEF Exists
  <1>6. ASSUME ReportEffect, UNCHANGED <<release, run, resume>> PROVE Closing'
    <2>1. CASE UNCHANGED <<row, grounds>>
      BY <1>1, <1>6, <2>1
    <2>2. CASE \E r \in Rows, st \in DeliveryStatus :
                 OneRow(r) /\ row'[r].status = st /\ st \notin {"none", "QUEUED"}
      BY <1>2, <1>6, <2>2 DEF SameRun
    <2>3. QED BY <1>6, <2>1, <2>2 DEF ReportEffect
  <1>7. ASSUME NEW p \in Processes, NEW r \in Rows, BeginRetry(p, r) PROVE Closing'
    <2>1. OneRow(r) /\ row'[r].status = "SENDING"
      BY <1>7, StatusOnly DEF BeginRetry, DeliveryStatus
    <2>2. QED BY <1>2, <1>7, <2>1 DEF BeginRetry, SameRun
  <1>8. CASE UNCHANGED vars
    BY <1>1, <1>8 DEF vars
  <1>9. CASE Next
    <2>1. ASSUME NEW e \in Events, Report(e) PROVE Closing'
      BY <1>1, <2>1 DEF Report
    <2>2. ASSUME NEW p \in Processes, Work(p) \/ FinishMail(<<p, "retry">>) PROVE Closing'
      <3>1. <<p, "retry">> \in Senders /\ <<p, "release">> \in Senders
        BY DEF Senders
      <3>2. QED BY <1>4, <2>2, <3>1, ClosingQueue, ClosingSend, ClosingFinish DEF Work
    <2>3. ASSUME NEW p \in Processes, Trigger(p) PROVE Closing'
      <3>1. {} \in SUBSET Attendees /\ \A a \in Attendees : {a} \in SUBSET Attendees
        OBVIOUS
      <3>2. QED BY <1>7, <2>3, <3>1, ClosingBegin DEF Trigger
    <2>4. ASSUME NEW p \in Processes, NEW k \in {"release", "retry"}, LoseAnswer(<<p, k>>) PROVE Closing'
      BY <1>3, <2>4 DEF Senders
    <2>5. ASSUME NEW p \in Processes, Restart(p) \/ \E n \in Releases : ResumeRelease(p, n)
          PROVE  Closing'
      BY <2>5, ClosingRestart, ClosingResume
    <2>6. ASSUME NEW p \in Processes,
                 (\E e \in events : BeginWebhook(p, e)) \/ (\E r \in Rows : BeginPoll(p, r))
          PROVE  Closing'
      BY <1>1, <2>6 DEF BeginWebhook, BeginPoll
    <2>7. ASSUME NEW p \in Processes, ApplyWebhook(p) \/ ApplyPoll(p) PROVE Closing'
      BY <1>6, <2>7, WebhookEffect, PollEffect
    <2>8. QED BY <1>5, <1>9, <2>1, <2>2, <2>3, <2>4, <2>5, <2>6, <2>7 DEF Next
  <1>10. QED BY <1>8, <1>9

(* Where one process runs the releases, a queued mail's release is open,   *)
(* through restarts and through whatever start-up finds running.           *)
THEOREM QueuedStaysOpen == ASSUME OneProcess PROVE Spec => []QueuedIsOpen
  <1>1. SafeInv /\ Closing /\ SafeInv' /\ [Next]_vars => Closing'
    BY ClosingNext
  <1>2. Closing => QueuedIsOpen
    BY DEF Closing, RowsOpen, QueuedIsOpen
  <1>3. QED BY <1>1, <1>2, SafeAlways, ClosingInit, PTL DEF Spec

-----------------------------------------------------------------------------
(* One process: the mails of an attendee and the grounds for them *)

Sendable == {"none", "DEFERRED", "BOUNCED", "REJECTED", "FAILED"}

Pending(p, a) == \/ run[p].at = "queue" /\ a \in run[p].targets
                 \/ run[p].at = "send" /\ a \in run[p].todo

(* A mail the run has yet to send, or that the next run may select.        *)
Open(p, a) == IF Pending(p, a) \/ row[<<a, p>>].status \in Sendable THEN 1 ELSE 0

(* A mail handed to the provider and not acknowledged. *)
Out(s, a) == IF mail[s].at \in {"sending", "refused"} /\ (\E r \in mail[s].on : r[1] = a) THEN 1 ELSE 0

Need(p, a) == acked[a] + Out(<<p, "release">>, a) + Out(<<p, "retry">>, a) + Open(p, a)

(* The count of grounds stops at MaxMails, and so do acknowledgements.     *)
Within(p, a) == grounds[a] = MaxMails \/ Need(p, a) <= 1 + grounds[a]

Budget == \A p \in Processes, a \in Attendees : Within(p, a)

LEMMA Parts ==
    ASSUME TypeOK, NEW p \in Processes, NEW a \in Attendees
    PROVE  /\ acked[a] \in Int /\ grounds[a] \in Int /\ grounds[a] <= MaxMails /\ MaxMails \in Int
           /\ acked[a] <= MaxMails
           /\ Out(<<p, "release">>, a) \in {0, 1} /\ Out(<<p, "retry">>, a) \in {0, 1}
           /\ Open(p, a) \in {0, 1}
           /\ <<p, "release">> \in Senders /\ <<p, "retry">> \in Senders
           /\ <<a, p>> \in Rows
  <1>1. acked[a] \in 0..MaxMails /\ grounds[a] \in 0..MaxMails /\ MaxMails \in Nat
    BY DEF TypeOK
  <1>2. <<p, "release">> \in Senders /\ <<p, "retry">> \in Senders /\ <<a, p>> \in Rows
    BY DEF Senders, Rows
  <1>3. /\ Out(<<p, "release">>, a) \in {0, 1} /\ Out(<<p, "retry">>, a) \in {0, 1}
        /\ Open(p, a) \in {0, 1}
    BY DEF Out, Open
  <1>4. QED BY <1>1, <1>2, <1>3

(* What a step adds to the need of an attendee, it adds to the grounds.    *)
LEMMA Weigh ==
    ASSUME TypeOK, TypeOK', NEW p \in Processes, NEW a \in Attendees, Within(p, a),
           grounds[a] <= grounds'[a],
           \/ Need(p, a)' <= Need(p, a)
           \/ /\ Need(p, a)' <= Need(p, a) + 1
              /\ grounds'[a] = grounds[a] + 1 \/ grounds'[a] = MaxMails
    PROVE  Within(p, a)'
  <1>1. /\ Need(p, a) \in Int /\ Need(p, a)' \in Int /\ grounds[a] \in Int /\ grounds'[a] \in Int
        /\ grounds'[a] <= MaxMails /\ MaxMails \in Int
    <2>a. /\ acked[a] \in Int /\ grounds[a] \in Int /\ MaxMails \in Int
          /\ Out(<<p, "release">>, a) \in {0, 1} /\ Out(<<p, "retry">>, a) \in {0, 1}
          /\ Open(p, a) \in {0, 1}
      BY Parts
    <2>1. Need(p, a) \in Int /\ grounds[a] \in Int /\ MaxMails \in Int
      BY <2>a DEF Need
    <2>2. acked'[a] \in 0..MaxMails /\ grounds'[a] \in 0..MaxMails /\ MaxMails \in Nat
      BY DEF TypeOK
    <2>3. /\ Out(<<p, "release">>, a)' \in {0, 1} /\ Out(<<p, "retry">>, a)' \in {0, 1}
          /\ Open(p, a)' \in {0, 1}
      BY DEF Out, Open
    <2>4. QED BY <2>1, <2>2, <2>3 DEF Need
  <1>2. grounds[a] = MaxMails \/ Need(p, a) <= 1 + grounds[a]
    BY DEF Within
  <1>3. grounds'[a] = MaxMails \/ Need(p, a)' <= 1 + grounds'[a]
    BY <1>1, <1>2
  <1>4. QED BY <1>3 DEF Within

(* No acknowledgement; the mails under way and the one to be sent are no   *)
(* more than they were.                                                    *)
LEMMA WithinCalm ==
    ASSUME TypeOK, TypeOK', NEW p \in Processes, NEW a \in Attendees, Within(p, a),
           acked'[a] = acked[a], grounds[a] <= grounds'[a],
           \A s \in Senders : \/ mail'[s].at = mail[s].at /\ mail'[s].on = mail[s].on
                              \/ mail'[s].at \notin {"sending", "refused"},
           Open(p, a)' <= Open(p, a)
    PROVE  Within(p, a)'
  <1>1. \A s \in Senders : Out(s, a)' \in {0, 1} /\ Out(s, a)' <= Out(s, a)
    BY DEF Out
  <1>2. Open(p, a)' \in {0, 1}
    BY DEF Open
  <1>3. Need(p, a)' <= Need(p, a)
    <2>1. /\ Out(<<p, "release">>, a)' \in {0, 1} /\ Out(<<p, "retry">>, a)' \in {0, 1}
          /\ Out(<<p, "release">>, a)' <= Out(<<p, "release">>, a)
          /\ Out(<<p, "retry">>, a)' <= Out(<<p, "retry">>, a)
      BY <1>1, Parts
    <2>2. /\ acked[a] \in Int
          /\ Out(<<p, "release">>, a) \in {0, 1} /\ Out(<<p, "retry">>, a) \in {0, 1}
          /\ Open(p, a) \in {0, 1}
      BY Parts
    <2>3. QED BY <1>2, <2>1, <2>2 DEF Need
  <1>4. QED BY <1>3, Weigh

LEMMA OpenSame ==
    ASSUME NEW p \in Processes, NEW a \in Attendees,
           Pending(p, a)' => Pending(p, a),
           row'[<<a, p>>].status \in Sendable => row[<<a, p>>].status \in Sendable
    PROVE  Open(p, a)' <= Open(p, a)
  BY DEF Open

LEMMA WithinBegin ==
    ASSUME SafeInv, SafeInv', OneProcess, Budget, NEW p \in Processes, NEW retryOnly,
           NEW only \in SUBSET Attendees, NEW a \in Attendees, BeginRelease(p, retryOnly, only)
    PROVE  Within(p, a)'
  <1>1. PICK n \in Releases, seen \in [Attendees -> {{}} \cup {{r} : r \in Rows}] :
          /\ \A b \in Attendees : seen[b] \subseteq RowsOf(b) /\ (RowsOf(b) # {} => seen[b] # {})
          /\ LET targets == IF only # {} THEN only
                            ELSE {b \in Attendees : Due(b, retryOnly, seen[b])}
             IN run' = [run EXCEPT ![p] = [IdleRun EXCEPT !.at = "queue", !.release = n, !.seen = seen,
                                                          !.targets = targets, !.todo = targets]]
    BY DEF BeginRelease, GoRun
  <1>2. PICK targets : targets = IF only # {} THEN only
                                 ELSE {b \in Attendees : Due(b, retryOnly, seen[b])}
    OBVIOUS
  <1>3. run'[p].at = "queue" /\ run'[p].targets = targets
    <2>1. run'[p] = [IdleRun EXCEPT !.at = "queue", !.release = n, !.seen = seen,
                                    !.targets = targets, !.todo = targets]
      BY <1>1, <1>2 DEF SafeInv, TypeOK
    <2>2. QED BY <2>1 DEF IdleRun
  <1>4. UNCHANGED <<row, mail, acked>> /\ Ground(only)
    BY DEF BeginRelease
  <1>5. /\ grounds[a] <= grounds'[a]
        /\ a \in only => grounds'[a] = grounds[a] + 1 \/ grounds'[a] = MaxMails
    BY <1>4, GroundType DEF SafeInv
  <1>6. Within(p, a)
    BY DEF Budget
  <1>7. CASE a \in only
    <2>1. Need(p, a)' <= Need(p, a) + 1
      <3>1. /\ Out(<<p, "release">>, a)' = Out(<<p, "release">>, a)
            /\ Out(<<p, "retry">>, a)' = Out(<<p, "retry">>, a)
        BY <1>4 DEF Out
      <3>2. Open(p, a)' \in {0, 1}
        BY DEF Open
      <3>3. /\ acked[a] \in Int
            /\ Out(<<p, "release">>, a) \in {0, 1} /\ Out(<<p, "retry">>, a) \in {0, 1}
            /\ Open(p, a) \in {0, 1}
        BY Parts DEF SafeInv
      <3>4. QED BY <1>4, <3>1, <3>2, <3>3 DEF Need
    <2>2. QED BY <1>5, <1>6, <1>7, <2>1, Weigh DEF SafeInv
  <1>8. CASE a \notin only
    <2>1. a \in targets => row[<<a, p>>].status \in Sendable
      <3>1. SUFFICES ASSUME a \in targets PROVE row[<<a, p>>].status \in Sendable
        OBVIOUS
      <3>2. Due(a, retryOnly, seen[a])
        BY <1>2, <1>8, <3>1
      <3>3. <<a, p>> \in Rows /\ row[<<a, p>>].status \in DeliveryStatus
        BY Parts DEF SafeInv, TypeOK, Row
      <3>4. CASE row[<<a, p>>].status = "none"
        BY <3>4 DEF Sendable
      <3>5. CASE row[<<a, p>>].status # "none"
        <4>1. <<a, p>> \in RowsOf(a)
          BY <3>3, <3>5 DEF RowsOf, Exists
        <4>2. PICK r \in seen[a] : r \in RowsOf(a)
          BY <1>1, <4>1
        <4>3. r = <<a, p>>
          BY <4>2, OwnRow DEF RowsOf
        <4>4. QED BY <3>2, <3>3, <4>2, <4>3 DEF Due, Sendable, DeliveryStatus, Final
      <3>6. QED BY <3>4, <3>5
    <2>2. Open(p, a)' <= Open(p, a)
      BY <1>3, <1>4, <2>1 DEF Open, Pending
    <2>3. QED BY <1>4, <1>5, <1>6, <2>2, WithinCalm DEF SafeInv
  <1>9. QED BY <1>7, <1>8

(* The terms of the need before and after a step, and their sums.          *)
LEMMA Terms ==
    ASSUME TypeOK, TypeOK', NEW p \in Processes, NEW a \in Attendees
    PROVE  /\ acked[a] \in Int /\ acked'[a] \in Int
           /\ Out(<<p, "release">>, a) \in {0, 1} /\ Out(<<p, "retry">>, a) \in {0, 1}
           /\ Out(<<p, "release">>, a)' \in {0, 1} /\ Out(<<p, "retry">>, a)' \in {0, 1}
           /\ Open(p, a) \in {0, 1} /\ Open(p, a)' \in {0, 1}
           /\ Need(p, a) = acked[a] + Out(<<p, "release">>, a) + Out(<<p, "retry">>, a) + Open(p, a)
           /\ Need(p, a)' = acked'[a] + Out(<<p, "release">>, a)' + Out(<<p, "retry">>, a)' + Open(p, a)'
           /\ Need(p, a) \in Int /\ Need(p, a)' \in Int
  <1>1. acked[a] \in 0..MaxMails /\ acked'[a] \in 0..MaxMails
    BY DEF TypeOK
  <1>2. acked[a] \in Int /\ acked'[a] \in Int
    BY <1>1
  <1>3. /\ Out(<<p, "release">>, a) \in {0, 1} /\ Out(<<p, "retry">>, a) \in {0, 1}
        /\ Out(<<p, "release">>, a)' \in {0, 1} /\ Out(<<p, "retry">>, a)' \in {0, 1}
        /\ Open(p, a) \in {0, 1} /\ Open(p, a)' \in {0, 1}
    BY DEF Out, Open
  <1>4. QED BY <1>2, <1>3 DEF Need

LEMMA WithinQueue ==
    ASSUME SafeInv, SafeInv', OneProcess, Closing, Budget, NEW p \in Processes, NEW b \in Attendees,
           QueueDelivery(p, b), NEW a \in Attendees
    PROVE  Within(p, a)'
  <1>1. PICK s : s = run[p]
    OBVIOUS
  <1>2. /\ s.at = "queue" /\ b \in s.todo
        /\ UNCHANGED <<mail, acked, grounds>>
    BY <1>1 DEF QueueDelivery
  <1>3. s \in Run /\ run \in [Processes -> Run]
    BY <1>1 DEF SafeInv, TypeOK
  <1>4. /\ run'[p].targets = s.targets
        /\ \/ run'[p].at = "queue"
           \/ run'[p].at = "send" /\ run'[p].todo = s.targets
    <2>1. PICK r : run' = [run EXCEPT ![p] = [s EXCEPT !.seen[b] = {r},
                                                       !.at = IF s.todo = {b} THEN "send" ELSE "queue",
                                                       !.todo = IF s.todo = {b} THEN s.targets ELSE s.todo \ {b}]]
      BY <1>1 DEF QueueDelivery, GoRun
    <2>2. run'[p] = [s EXCEPT !.seen[b] = {r},
                              !.at = IF s.todo = {b} THEN "send" ELSE "queue",
                              !.todo = IF s.todo = {b} THEN s.targets ELSE s.todo \ {b}]
      BY <1>3, <2>1
    <2>3. QED BY <1>3, <2>2 DEF Run
  <1>5. s.todo \subseteq s.targets
    BY <1>1, <1>2 DEF Closing, RunOpen
  <1>6. Pending(p, a)' <=> Pending(p, a)
    BY <1>1, <1>2, <1>4 DEF Pending
  <1>7. Open(p, a)' <= Open(p, a)
    <2>1. CASE a = b
      <3>1. Pending(p, a)
        BY <1>1, <1>2, <1>5, <2>1 DEF Pending
      <3>2. QED BY <3>1 DEF Open
    <2>2. CASE a # b
      <3>1. row'[<<a, p>>] = row[<<a, p>>]
        <4>1. PICK r, v : /\ row' = [row EXCEPT ![r] = v]
                          /\ r = IF s.seen[b] = {} THEN <<b, p>> ELSE CHOOSE x \in s.seen[b] : TRUE
          BY <1>1 DEF QueueDelivery
        <4>2. RunGood(p, s)
          BY <1>1 DEF SafeInv, Memory
        <4>3. r # <<a, p>>
          <5>1. CASE s.seen[b] = {}
            BY <2>2, <4>1, <5>1
          <5>2. CASE s.seen[b] # {}
            <6>1. PICK x \in Rows : x[1] = b /\ s.seen[b] = {x}
              BY <4>2, <5>2 DEF RunGood
            <6>2. r = x
              BY <4>1, <5>2, <6>1
            <6>3. QED BY <2>2, <6>1, <6>2
          <5>3. QED BY <5>1, <5>2
        <4>4. <<a, p>> \in Rows
          BY DEF Rows
        <4>5. QED BY <4>1, <4>3, <4>4 DEF SafeInv, TypeOK
      <3>2. QED BY <1>6, <3>1 DEF Open
    <2>3. QED BY <2>1, <2>2
  <1>8. grounds'[a] = grounds[a] /\ grounds[a] \in Int
    BY <1>2, Parts DEF SafeInv
  <1>9. QED BY <1>2, <1>7, <1>8, WithinCalm DEF Budget, SafeInv

LEMMA WithinSend ==
    ASSUME SafeInv, SafeInv', OneProcess, Budget, NEW p \in Processes, NEW b \in Attendees,
           SendDelivery(p, b), NEW a \in Attendees
    PROVE  Within(p, a)'
  <1>1. PICK r \in run[p].seen[b] :
          /\ SetStatus(r, "SENDING")
          /\ mail' = [mail EXCEPT ![<<p, "release">>] = [at |-> "sending", on |-> {r}]]
    BY DEF SendDelivery, GoMail
  <1>2. /\ run' = [run EXCEPT ![p] = [run[p] EXCEPT !.todo = run[p].todo \ {b}]]
        /\ run[p].at = "send" /\ b \in run[p].todo /\ mail[<<p, "release">>].at = "idle"
        /\ UNCHANGED <<acked, grounds>>
    BY DEF SendDelivery, GoRun
  <1>3. RunGood(p, run[p]) /\ run[p] \in Run /\ run \in [Processes -> Run]
    BY DEF SafeInv, Memory, TypeOK
  <1>4. r \in Rows /\ Exists(r) /\ r[1] = b /\ r = <<b, p>>
    <2>1. r \in Rows /\ Exists(r) /\ r[1] = b
      BY <1>3 DEF RunGood
    <2>2. r = <<r[1], p>>
      BY <2>1, OwnRow
    <2>3. QED BY <2>1, <2>2
  <1>5. OneRow(r) /\ row'[r].status = "SENDING"
    BY <1>1, <1>4, StatusOnly DEF DeliveryStatus
  <1>6. run'[p].at = "send" /\ run'[p].todo = run[p].todo \ {b}
    BY <1>2, <1>3 DEF Run
  <1>7. /\ mail'[<<p, "release">>] = [at |-> "sending", on |-> {r}]
        /\ mail'[<<p, "retry">>] = mail[<<p, "retry">>]
    BY <1>1, Parts DEF SafeInv, TypeOK
  <1>8. /\ Out(<<p, "retry">>, a)' = Out(<<p, "retry">>, a)
        /\ Out(<<p, "release">>, a) = 0
        /\ Out(<<p, "release">>, a)' = IF a = b THEN 1 ELSE 0
    BY <1>2, <1>4, <1>7 DEF Out
  <1>9. Need(p, a)' <= Need(p, a)
    <2>1. CASE a = b
      <3>1. Open(p, a) = 1 /\ Open(p, a)' = 0
        BY <1>2, <1>4, <1>5, <1>6, <2>1 DEF Open, Pending, Sendable
      <3>2. QED BY <1>2, <1>8, <2>1, <3>1, Terms DEF SafeInv
    <2>2. CASE a # b
      <3>1. Pending(p, a)' => Pending(p, a)
        BY <1>2, <1>6 DEF Pending
      <3>2. row'[<<a, p>>].status = row[<<a, p>>].status
        <4>1. <<a, p>> \in Rows /\ <<a, p>>[1] = a /\ r[1] = b
          BY <1>4 DEF Rows
        <4>2. <<a, p>> # r
          BY <2>2, <4>1
        <4>3. QED BY <1>5, <4>1, <4>2 DEF OneRow
      <3>3. Open(p, a)' <= Open(p, a)
        BY <3>1, <3>2, OpenSame
      <3>4. QED BY <1>2, <1>8, <2>2, <3>3, Terms DEF SafeInv
    <2>3. QED BY <2>1, <2>2
  <1>10. grounds'[a] = grounds[a] /\ grounds[a] \in Int
    BY <1>2, Parts DEF SafeInv
  <1>11. QED BY <1>9, <1>10, Weigh DEF Budget, SafeInv

LEMMA WithinRetry ==
    ASSUME SafeInv, SafeInv', OneProcess, Budget, NEW p \in Processes, NEW r \in Rows,
           BeginRetry(p, r), NEW a \in Attendees
    PROVE  Within(p, a)'
  <1>1. /\ Exists(r) /\ SetStatus(r, "SENDING") /\ mail[<<p, "retry">>].at = "idle"
        /\ mail' = [mail EXCEPT ![<<p, "retry">>] = [at |-> "sending", on |-> {r}]]
        /\ Ground({r[1]}) /\ UNCHANGED <<run, acked>>
    BY DEF BeginRetry, GoMail
  <1>2. OneRow(r) /\ row'[r].status = "SENDING" /\ r = <<r[1], p>>
    BY <1>1, StatusOnly, OwnRow DEF DeliveryStatus
  <1>3. /\ mail'[<<p, "retry">>] = [at |-> "sending", on |-> {r}]
        /\ mail'[<<p, "release">>] = mail[<<p, "release">>]
    BY <1>1, Parts DEF SafeInv, TypeOK
  <1>4. /\ Out(<<p, "release">>, a)' = Out(<<p, "release">>, a)
        /\ Out(<<p, "retry">>, a) = 0
        /\ Out(<<p, "retry">>, a)' = IF a = r[1] THEN 1 ELSE 0
    BY <1>1, <1>3 DEF Out
  <1>5. Open(p, a)' <= Open(p, a)
    <2>1. Pending(p, a)' => Pending(p, a)
      BY <1>1 DEF Pending
    <2>2. row'[<<a, p>>].status \in Sendable => row[<<a, p>>].status \in Sendable
      <3>1. CASE <<a, p>> = r
        BY <1>2, <3>1 DEF Sendable
      <3>2. CASE <<a, p>> # r
        BY <1>2, <3>2, Parts DEF OneRow, SafeInv
      <3>3. QED BY <3>1, <3>2
    <2>3. QED BY <2>1, <2>2, OpenSame
  <1>6. /\ grounds[a] <= grounds'[a]
        /\ a = r[1] => grounds'[a] = grounds[a] + 1 \/ grounds'[a] = MaxMails
    BY <1>1, GroundType DEF SafeInv
  <1>7. CASE a = r[1]
    <2>1. Need(p, a)' <= Need(p, a) + 1
      BY <1>1, <1>4, <1>5, <1>7, Terms DEF SafeInv
    <2>2. QED BY <1>6, <1>7, <2>1, Weigh DEF Budget, SafeInv
  <1>8. CASE a # r[1]
    <2>1. Need(p, a)' <= Need(p, a)
      BY <1>1, <1>4, <1>5, <1>8, Terms DEF SafeInv
    <2>2. QED BY <1>6, <2>1, Weigh DEF Budget, SafeInv
  <1>9. QED BY <1>7, <1>8

LEMMA WithinAnswer ==
    ASSUME SafeInv, SafeInv', Budget, NEW p \in Processes, NEW k \in {"release", "retry"},
           NEW ok \in BOOLEAN, Answer(<<p, k>>, ok), NEW a \in Attendees
    PROVE  Within(p, a)'
  <1> DEFINE s == <<p, k>>
  <1>1. s \in Senders /\ mail[s] \in Mail /\ MailGood(mail[s]) /\ mail[s].at = "sending"
    BY DEF Senders, SafeInv, TypeOK, Memory, Answer
  <1>2. PICK r \in Rows : mail[s].on = {r}
    BY <1>1 DEF MailGood
  <1>3. /\ mail' = [mail EXCEPT ![s] = [mail[s] EXCEPT !.at = IF ok THEN "acked" ELSE "refused"]]
        /\ UNCHANGED <<row, run, grounds>>
    BY DEF Answer, GoMail
  <1>4. /\ mail'[s].on = {r} /\ mail'[s].at = (IF ok THEN "acked" ELSE "refused")
        /\ \A z \in Senders \ {s} : mail'[z] = mail[z]
    BY <1>1, <1>2, <1>3 DEF SafeInv, TypeOK, Mail
  <1>5. r[1] \in Attendees /\ acked \in [Attendees -> 0..MaxMails]
    BY DEF Rows, SafeInv, TypeOK
  <1>6. acked'[a] = IF ok /\ a = r[1] THEN acked[a] + 1 ELSE acked[a]
    <2>1. CASE ok
      BY <1>2, <1>5, <2>1 DEF Answer
    <2>2. CASE ~ok
      BY <2>2 DEF Answer
    <2>3. QED BY <2>1, <2>2
  <1>7. /\ Out(s, a) = IF a = r[1] THEN 1 ELSE 0
        /\ Out(s, a)' = IF ~ok /\ a = r[1] THEN 1 ELSE 0
    BY <1>1, <1>2, <1>4 DEF Out
  <1>8. \A z \in Senders \ {s} : Out(z, a)' = Out(z, a)
    BY <1>4 DEF Out
  <1>9. Open(p, a)' = Open(p, a)
    BY <1>3 DEF Open, Pending
  <1>10. Need(p, a)' = Need(p, a)
    <2>1. /\ acked[a] \in Int
          /\ Out(<<p, "release">>, a) \in {0, 1} /\ Out(<<p, "retry">>, a) \in {0, 1}
          /\ Open(p, a) \in {0, 1}
          /\ <<p, "release">> \in Senders /\ <<p, "retry">> \in Senders
      BY Parts DEF SafeInv
    <2>2. acked'[a] + Out(s, a)' = acked[a] + Out(s, a)
      BY <1>6, <1>7, <2>1
    <2>3. CASE k = "release"
      <3>1. Out(<<p, "retry">>, a)' = Out(<<p, "retry">>, a)
        BY <1>8, <2>1, <2>3
      <3>2. QED BY <1>9, <2>1, <2>2, <2>3, <3>1 DEF Need
    <2>4. CASE k = "retry"
      <3>1. Out(<<p, "release">>, a)' = Out(<<p, "release">>, a)
        BY <1>8, <2>1, <2>4
      <3>2. acked'[a] \in Int /\ Out(<<p, "retry">>, a)' \in {0, 1}
        BY Terms DEF SafeInv
      <3>3. QED BY <1>9, <2>1, <2>2, <2>4, <3>1, <3>2 DEF Need
    <2>5. QED BY <2>3, <2>4
  <1>11. grounds'[a] = grounds[a] /\ grounds[a] \in Int /\ Need(p, a) \in Int
    <2>1. /\ acked[a] \in Int /\ grounds[a] \in Int
          /\ Out(<<p, "release">>, a) \in {0, 1} /\ Out(<<p, "retry">>, a) \in {0, 1}
          /\ Open(p, a) \in {0, 1}
      BY Parts DEF SafeInv
    <2>2. QED BY <1>3, <2>1 DEF Need
  <1>12. Within(p, a)
    BY DEF Budget
  <1>13. QED BY <1>10, <1>11, <1>12, Weigh DEF SafeInv

(* A row's new status adds at most one mail to be sent, and that of no     *)
(* other attendee.                                                         *)
LEMMA OpenRow ==
    ASSUME SafeInv, OneProcess, NEW p \in Processes, NEW a \in Attendees, NEW r \in Rows, OneRow(r),
           Pending(p, a)' => Pending(p, a)
    PROVE  /\ Open(p, a)' <= Open(p, a) + 1
           /\ a # r[1] \/ row'[r].status \notin Sendable => Open(p, a)' <= Open(p, a)
  <1>1. <<a, p>> \in Rows
    BY DEF Rows
  <1>2. a # r[1] => row'[<<a, p>>].status = row[<<a, p>>].status
    BY <1>1 DEF OneRow
  <1>3. a = r[1] => <<a, p>> = r
    BY OwnRow
  <1>4. ASSUME a # r[1] \/ row'[r].status \notin Sendable PROVE Open(p, a)' <= Open(p, a)
    BY <1>2, <1>3, <1>4, OpenSame
  <1>5. Open(p, a) \in {0, 1} /\ Open(p, a)' \in {0, 1}
    BY DEF Open
  <1>6. QED BY <1>4, <1>5

LEMMA WithinRecord ==
    ASSUME SafeInv, SafeInv', OneProcess, Budget, NEW p \in Processes, NEW k \in {"release", "retry"},
           RecordAnswer(<<p, k>>) \/ LoseAnswer(<<p, k>>), NEW a \in Attendees
    PROVE  Within(p, a)'
  <1> DEFINE s == <<p, k>>
  <1>1. s \in Senders /\ <<p, "release">> \in Senders /\ <<p, "retry">> \in Senders
    BY DEF Senders
  <1>2. PICK ok \in BOOLEAN : Record(s, ok) /\ mail[s].at # "idle"
    BY DEF RecordAnswer, LoseAnswer
  <1>3. PICK r \in Rows : /\ mail[s].on = {r} /\ OneRow(r)
                          /\ row'[r].status = IF ok THEN "ACCEPTED" ELSE "FAILED"
    BY <1>1, <1>2, RecordEffect
  <1>4. SameRun /\ acked' = acked /\ mail'[s] = IdleMail /\ \A z \in Senders \ {s} : mail'[z] = mail[z]
    BY <1>1, <1>2, RecordEffect
  <1>5. Pending(p, a)' => Pending(p, a)
    BY <1>4 DEF Pending, SameRun
  <1>6. Open(p, a)' <= Open(p, a) + 1 /\ (a # r[1] => Open(p, a)' <= Open(p, a))
    BY <1>3, <1>5, OpenRow
  <1>7. Out(s, a)' = 0 /\ \A z \in Senders \ {s} : Out(z, a)' = Out(z, a)
    BY <1>4 DEF Out, IdleMail
  <1>8. /\ Out(s, a) \in {0, 1}
        /\ Need(p, a)' - Out(s, a)' - Open(p, a)' = Need(p, a) - Out(s, a) - Open(p, a)
    <2>1. CASE k = "release"
      <3>1. Out(<<p, "retry">>, a)' = Out(<<p, "retry">>, a)
        BY <1>1, <1>7, <2>1
      <3>2. QED BY <1>4, <2>1, <3>1, Terms DEF SafeInv
    <2>2. CASE k = "retry"
      <3>1. Out(<<p, "release">>, a)' = Out(<<p, "release">>, a)
        BY <1>1, <1>7, <2>2
      <3>2. QED BY <1>4, <2>2, <3>1, Terms DEF SafeInv
    <2>3. QED BY <2>1, <2>2
  <1>9. /\ Need(p, a) \in Int /\ Need(p, a)' \in Int
        /\ Open(p, a) \in {0, 1} /\ Open(p, a)' \in {0, 1}
    BY Terms DEF SafeInv
  <1>10. CASE RecordAnswer(s)
    <2>1. grounds' = grounds /\ grounds[a] \in Int
      BY <1>10, Parts DEF RecordAnswer, SafeInv
    <2>2. Need(p, a)' <= Need(p, a)
      <3>1. CASE mail[s].at = "refused"
        <4>1. Out(s, a) = IF a = r[1] THEN 1 ELSE 0
          BY <1>3, <3>1 DEF Out
        <4>2. QED BY <1>6, <1>7, <1>8, <1>9, <4>1
      <3>2. CASE mail[s].at = "acked"
        <4>1. Record(s, TRUE)
          BY <1>10, <3>2 DEF RecordAnswer
        <4>2. PICK q \in Rows : OneRow(q) /\ row'[q].status = "ACCEPTED"
          BY <1>1, <1>2, <4>1, RecordEffect
        <4>3. Open(p, a)' <= Open(p, a)
          BY <1>5, <4>2, OpenRow DEF Sendable
        <4>4. QED BY <1>7, <1>8, <1>9, <4>3
      <3>3. QED BY <1>10, <3>1, <3>2 DEF RecordAnswer
    <2>3. QED BY <2>1, <2>2, Weigh DEF Budget, SafeInv
  <1>11. CASE LoseAnswer(s)
    <2>1. Ground({r[1]})
      BY <1>3, <1>11 DEF LoseAnswer
    <2>2. /\ grounds[a] <= grounds'[a]
          /\ a = r[1] => grounds'[a] = grounds[a] + 1 \/ grounds'[a] = MaxMails
      BY <2>1, GroundType DEF SafeInv
    <2>3. Need(p, a)' <= Need(p, a) + 1 /\ (a # r[1] => Need(p, a)' <= Need(p, a))
      BY <1>6, <1>7, <1>8, <1>9
    <2>4. QED BY <2>2, <2>3, Weigh DEF Budget, SafeInv
  <1>12. QED BY <1>10, <1>11

LEMMA WithinReport ==
    ASSUME SafeInv, SafeInv', OneProcess, Budget, ReportEffect, UNCHANGED <<run, mail, acked>>,
           NEW p \in Processes, NEW a \in Attendees
    PROVE  Within(p, a)'
  <1>1. Within(p, a) /\ grounds[a] \in Int
    BY Parts DEF Budget, SafeInv
  <1>2. CASE UNCHANGED <<row, grounds>>
    <2>1. Need(p, a)' = Need(p, a)
      BY <1>2 DEF Need, Out, Open, Pending
    <2>2. QED BY <1>1, <1>2, <2>1 DEF Within
  <1>3. CASE \E r \in Rows, st \in DeliveryStatus :
               /\ OneRow(r) /\ row'[r].status = st
               /\ Ground(IF st = "DELIVERED" THEN {} ELSE {r[1]})
    <2>1. PICK r \in Rows, st \in DeliveryStatus :
               /\ OneRow(r) /\ row'[r].status = st
               /\ Ground(IF st = "DELIVERED" THEN {} ELSE {r[1]})
      BY <1>3
    <2>2. Pending(p, a)' => Pending(p, a)
      BY DEF Pending
    <2>3. /\ Open(p, a)' <= Open(p, a) + 1
          /\ a # r[1] \/ st = "DELIVERED" => Open(p, a)' <= Open(p, a)
      BY <2>1, <2>2, OpenRow DEF Sendable
    <2>4. /\ Out(<<p, "release">>, a)' = Out(<<p, "release">>, a)
          /\ Out(<<p, "retry">>, a)' = Out(<<p, "retry">>, a)
      BY DEF Out
    <2>5. /\ Need(p, a)' <= Need(p, a) + 1
          /\ a # r[1] \/ st = "DELIVERED" => Need(p, a)' <= Need(p, a)
      BY <2>3, <2>4, Terms DEF SafeInv
    <2>6. grounds[a] <= grounds'[a]
      BY <2>1, GroundType DEF SafeInv
    <2>7. a = r[1] /\ st # "DELIVERED" => grounds'[a] = grounds[a] + 1 \/ grounds'[a] = MaxMails
      <3>1. SUFFICES ASSUME a = r[1], st # "DELIVERED"
                     PROVE  grounds'[a] = grounds[a] + 1 \/ grounds'[a] = MaxMails
        OBVIOUS
      <3>2. Ground({r[1]})
        BY <2>1, <3>1
      <3>3. QED BY <3>1, <3>2, GroundType DEF SafeInv
    <2>8. QED BY <1>1, <2>5, <2>6, <2>7, Weigh DEF SafeInv
  <1>4. QED BY <1>2, <1>3 DEF ReportEffect

LEMMA WithinEnd ==
    ASSUME SafeInv, SafeInv', Budget, NEW p \in Processes, NEW a \in Attendees,
           \/ FinishRelease(p) \/ Throw(p) \/ Restart(p)
           \/ \E n \in Releases : ResumeRelease(p, n)
    PROVE  Within(p, a)'
  <1>1. UNCHANGED <<acked, grounds>>
    BY DEF FinishRelease, Throw, Restart, ResumeRelease
  <1>2. \A s \in Senders : mail'[s] = mail[s] \/ mail'[s].at \notin {"sending", "refused"}
    <2>1. IdleMail.at = "idle"
      BY DEF IdleMail
    <2>2. mail \in [Senders -> Mail]
      BY DEF SafeInv, TypeOK
    <2>3. \/ mail' = mail \/ mail' = [mail EXCEPT ![<<p, "release">>] = IdleMail]
          \/ mail' = [s \in Senders |-> IF s[1] = p THEN IdleMail ELSE mail[s]]
      BY DEF FinishRelease, Throw, Restart, ResumeRelease, GoMail
    <2>4. QED BY <2>1, <2>2, <2>3
  <1>3. Pending(p, a)' => Pending(p, a)
    <2>1. run' = run \/ run' = [run EXCEPT ![p] = IdleRun]
      BY DEF FinishRelease, Throw, Restart, ResumeRelease, GoRun
    <2>2. run' = run \/ run'[p].at = "idle"
      BY <2>1, IdleGood DEF SafeInv, TypeOK
    <2>3. QED BY <2>2 DEF Pending
  <1>4. <<a, p>> \in Rows /\ row[<<a, p>>] \in Row
    BY DEF Rows, SafeInv, TypeOK
  <1>5. row'[<<a, p>>].status \in Sendable => row[<<a, p>>].status \in Sendable
    <2>1. CASE UNCHANGED row
      BY <2>1
    <2>2. CASE \E n \in Releases : ResumeRelease(p, n)
      <3>1. PICK n \in Releases : ResumeRelease(p, n)
        BY <2>2
      <3>2. \/ row'[<<a, p>>] = row[<<a, p>>]
            \/ row'[<<a, p>>] = [row[<<a, p>>] EXCEPT !.status = "QUEUED"]
        BY <1>4, <3>1 DEF ResumeRelease
      <3>3. row'[<<a, p>>] = row[<<a, p>>] \/ row'[<<a, p>>].status = "QUEUED"
        BY <1>4, <3>2 DEF Row
      <3>4. QED BY <3>3 DEF Sendable
    <2>3. QED BY <2>1, <2>2 DEF FinishRelease, Throw, Restart
  <1>6. Open(p, a)' <= Open(p, a)
    BY <1>3, <1>5, OpenSame
  <1>7. grounds[a] \in Int /\ Within(p, a)
    BY Parts DEF SafeInv, Budget
  <1>8. QED BY <1>1, <1>2, <1>6, <1>7, WithinCalm DEF SafeInv

LEMMA BudgetInit == Init => Budget
  <1> SUFFICES ASSUME Init, NEW p \in Processes, NEW a \in Attendees PROVE Within(p, a)
    BY DEF Budget
  <1>1. IdleMail.at = "idle" /\ <<p, "release">> \in Senders /\ <<p, "retry">> \in Senders
    BY DEF IdleMail, Senders
  <1>2. Out(<<p, "release">>, a) = 0 /\ Out(<<p, "retry">>, a) = 0
    BY <1>1 DEF Init, Out
  <1>3. Open(p, a) \in {0, 1} /\ acked[a] = 0 /\ grounds[a] = 0
    BY DEF Open, Init
  <1>4. QED BY <1>2, <1>3 DEF Within, Need

LEMMA BudgetNext ==
    OneProcess /\ SafeInv /\ SafeInv' /\ Closing /\ Budget /\ [Next]_vars => Budget'
  <1> SUFFICES ASSUME OneProcess, SafeInv, SafeInv', Closing, Budget, [Next]_vars,
                      NEW p \in Processes, NEW a \in Attendees
               PROVE  Within(p, a)'
    BY DEF Budget
  <1>1. ASSUME UNCHANGED <<row, run, mail, acked, grounds>> PROVE Within(p, a)'
    <2>1. Within(p, a)
      BY DEF Budget
    <2>2. QED BY <1>1, <2>1 DEF Within, Need, Out, Open, Pending
  <1>2. CASE UNCHANGED vars
    BY <1>1, <1>2 DEF vars
  <1>3. CASE Next
    <2>1. ASSUME NEW e \in Events, Report(e) PROVE Within(p, a)'
      BY <1>1, <2>1 DEF Report
    <2>2. ASSUME NEW q \in Processes,
                 \/ Work(q) \/ FinishMail(<<q, "retry">>) \/ Trigger(q)
                 \/ Throw(q) \/ Restart(q)
                 \/ \E k \in {"release", "retry"} : LoseAnswer(<<q, k>>)
                 \/ \E e \in events : BeginWebhook(q, e)
                 \/ \E r \in Rows : BeginPoll(q, r)
                 \/ ApplyWebhook(q) \/ ApplyPoll(q)
                 \/ \E n \in Releases : ResumeRelease(q, n)
          PROVE  Within(p, a)'
      <3>1. q = p
        BY DEF OneProcess
      <3>2. ASSUME NEW k \in {"release", "retry"}, FinishMail(<<p, k>>) PROVE Within(p, a)'
        BY <3>2, WithinAnswer, WithinRecord DEF FinishMail
      <3>3. CASE Work(p) \/ FinishMail(<<p, "retry">>)
        BY <3>2, <3>3, WithinQueue, WithinSend, WithinEnd DEF Work
      <3>4. CASE Trigger(p)
        <4>1. {} \in SUBSET Attendees /\ \A b \in Attendees : {b} \in SUBSET Attendees
          OBVIOUS
        <4>2. QED BY <3>4, <4>1, WithinBegin, WithinRetry DEF Trigger
      <3>5. CASE \E k \in {"release", "retry"} : LoseAnswer(<<p, k>>)
        BY <3>5, WithinRecord
      <3>6. CASE (\E e \in events : BeginWebhook(p, e)) \/ (\E r \in Rows : BeginPoll(p, r))
        BY <1>1, <3>6 DEF BeginWebhook, BeginPoll
      <3>7. CASE ApplyWebhook(p) \/ ApplyPoll(p)
        BY <3>7, WebhookEffect, PollEffect, WithinReport
      <3>8. CASE Throw(p) \/ Restart(p) \/ \E n \in Releases : ResumeRelease(p, n)
        BY <3>8, WithinEnd
      <3>9. QED BY <2>2, <3>1, <3>3, <3>4, <3>5, <3>6, <3>7, <3>8
    <2>3. QED BY <1>3, <2>1, <2>2 DEF Next
  <1>4. QED BY <1>2, <1>3

(* Where one process runs the releases, "idempotent" holds: no attendee is *)
(* mailed more than once more than there were grounds, for any number of   *)
(* releases, retries, restarts and reports in any order.                   *)
THEOREM AlwaysMailedForAReason == ASSUME OneProcess PROVE Spec => []MailedForAReason
  <1>1. SafeInv /\ Closing /\ SafeInv' /\ [Next]_vars => Closing'
    BY ClosingNext
  <1>2. SafeInv /\ SafeInv' /\ Closing /\ Budget /\ [Next]_vars => Budget'
    BY BudgetNext
  <1>3. SafeInv /\ Budget => MailedForAReason
    <2> SUFFICES ASSUME SafeInv, Budget, NEW a \in Attendees PROVE acked[a] <= 1 + grounds[a]
      BY DEF MailedForAReason
    <2>1. /\ acked[a] \in Int /\ grounds[a] \in Int /\ MaxMails \in Int /\ acked[a] <= MaxMails
      BY DEF SafeInv, TypeOK
    <2>2. CASE grounds[a] = MaxMails
      BY <2>1, <2>2
    <2>3. CASE \E p \in Processes : Need(p, a) <= 1 + grounds[a]
      <3>1. PICK p \in Processes : Need(p, a) <= 1 + grounds[a]
        BY <2>3
      <3>2. /\ Out(<<p, "release">>, a) \in {0, 1} /\ Out(<<p, "retry">>, a) \in {0, 1}
            /\ Open(p, a) \in {0, 1}
        BY DEF Out, Open
      <3>3. QED BY <2>1, <3>1, <3>2 DEF Need
    <2>4. QED BY <2>2, <2>3 DEF Budget, Within, OneProcess
  <1>4. QED BY <1>1, <1>2, <1>3, SafeAlways, ClosingInit, BudgetInit, PTL DEF Spec

=============================================================================

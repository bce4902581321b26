---------------------------- MODULE CheckinProofs ----------------------------
(***************************************************************************)
(* What Checkin keeps for every set of passes, dates, gates and requests.  *)
(*                                                                         *)
(* With or without the lock, every entry has its SUCCESS row.  That a pass *)
(* lets one person in needs the lock: the requests at work on a pass and   *)
(* date exclude each other (Exclusive), so what one of them read in its    *)
(* transaction is still true when it writes (NotYetIn).                    *)
(***************************************************************************)
EXTENDS Checkin, FiniteSetTheorems, TLAPS

USE PassesAssumption, GatesAssumption, SwitchesAssumption, NobodyAssumption

(* A reversal in flight has a row to reverse. *)
VoidsHaveRows ==
  \A h \in Handlers : request[h].at = "void" => row[request[h].who][request[h].day].st # "none"

RowInv == TypeOK /\ VoidsHaveRows /\ EntriesRecorded

Working(h) == request[h].at \in {"check", "find", "write"}

(* A scan past the lock holds the key of its pass. *)
Exclusive ==
  \A h \in Handlers : Working(h) => request[h].locked /\ lock[LockKey(request[h])] = h

(* What the first read of the transaction found is still so. *)
NotYetIn ==
  \A h \in Handlers : request[h].at \in {"find", "write"} =>
    \A d \in Dates : d = request[h].day \/ request[h].who \in AnyDay
                       => ~CheckedIn(request[h].who, d)

NoDesk == \A h \in Handlers : request[h].at \notin {"deskFind", "deskWrite"}

EntryInv == RowInv /\ Exclusive /\ NotYetIn /\ NoDesk /\ AdmittedOnce

-----------------------------------------------------------------------------
(* Facts about rows and requests *)

LEMMA RequestFields ==
    ASSUME TypeOK, NEW h \in Handlers
    PROVE  /\ request[h] \in Request
           /\ request[h].at # "idle" => request[h].who \in Attendees /\ request[h].day \in Dates
           /\ request[h].at \notin {"idle", "void"} => request[h].gate \in Gates
  BY DEF TypeOK

LEMMA RowFields ==
    ASSUME TypeOK, NEW a \in Attendees, NEW d \in Dates
    PROVE  /\ row[a][d] \in Row /\ row[a][d].st \in {"none", "SUCCESS", "VOIDED"}
           /\ inside[a][d] \in Nat
  BY DEF TypeOK, Row

LEMMA IdleOK == Idle \in Request /\ Idle.at = "idle"
  BY DEF Idle, Request, Places, AttendeeStatus

LEMMA KeyOK ==
    ASSUME TypeOK, NEW h \in Handlers, request[h].at # "idle"
    PROVE  LockKey(request[h]) \in Keys
  BY RequestFields DEF LockKey, Keys

(* An entry changes one row and one count. *)
LEMMA AdmitEffect ==
    ASSUME TypeOK, NEW h \in Handlers, request[h].at \notin {"idle", "void"}, Admit(request[h])
    PROVE  /\ row' \in [Attendees -> [Dates -> Row]]
           /\ inside' \in [Attendees -> [Dates -> Nat]]
           /\ \A a \in Attendees, d \in Dates :
                IF a = request[h].who /\ d = request[h].day
                  THEN row'[a][d].st = "SUCCESS" /\ inside'[a][d] = inside[a][d] + 1
                  ELSE row'[a][d] = row[a][d] /\ inside'[a][d] = inside[a][d]
  <1> DEFINE r == request[h]
  <1>1. PICK w \in Attendees, x \in Dates, g \in Gates : w = r.who /\ x = r.day /\ g = r.gate
    BY RequestFields
  <1>2. [st |-> "SUCCESS", gate |-> g] \in Row /\ inside[w][x] + 1 \in Nat
    BY RowFields DEF Row
  <1>3. /\ row' = [row EXCEPT ![w] = [row[w] EXCEPT ![x] = [st |-> "SUCCESS", gate |-> g]]]
        /\ inside' = [inside EXCEPT ![w] = [inside[w] EXCEPT ![x] = inside[w][x] + 1]]
    BY <1>1 DEF Admit, TypeOK
  <1>4. row[w] \in [Dates -> Row] /\ inside[w] \in [Dates -> Nat]
    BY DEF TypeOK
  <1>5. /\ [row[w] EXCEPT ![x] = [st |-> "SUCCESS", gate |-> g]] \in [Dates -> Row]
        /\ [inside[w] EXCEPT ![x] = inside[w][x] + 1] \in [Dates -> Nat]
    BY <1>2, <1>4
  <1>6. /\ row' \in [Attendees -> [Dates -> Row]]
        /\ inside' \in [Attendees -> [Dates -> Nat]]
    BY <1>3, <1>5 DEF TypeOK
  <1>7. \A a \in Attendees, d \in Dates :
          IF a = w /\ d = x
            THEN row'[a][d].st = "SUCCESS" /\ inside'[a][d] = inside[a][d] + 1
            ELSE row'[a][d] = row[a][d] /\ inside'[a][d] = inside[a][d]
    BY <1>3, <1>4 DEF TypeOK
  <1>8. QED BY <1>1, <1>6, <1>7

LEMMA WriteRowEffect ==
    ASSUME TypeOK, NEW h \in Handlers, request[h].at \notin {"idle", "void"}, WriteRow(request[h])
    PROVE  \/ UNCHANGED <<row, inside>>
           \/ /\ row' \in [Attendees -> [Dates -> Row]]
              /\ inside' \in [Attendees -> [Dates -> Nat]]
              /\ \A a \in Attendees, d \in Dates :
                   IF a = request[h].who /\ d = request[h].day
                     THEN row'[a][d].st = "SUCCESS" /\ inside'[a][d] = inside[a][d] + 1
                     ELSE row'[a][d] = row[a][d] /\ inside'[a][d] = inside[a][d]
  BY AdmitEffect DEF WriteRow

(* A reversal changes one row to VOIDED and its count to nought. *)
LEMMA VoidEffect ==
    ASSUME RowInv, NEW h \in Handlers, WriteVoid(h)
    PROVE  /\ row' \in [Attendees -> [Dates -> Row]]
           /\ inside' \in [Attendees -> [Dates -> Nat]]
           /\ \A a \in Attendees, d \in Dates :
                IF a = request[h].who /\ d = request[h].day
                  THEN row'[a][d].st = "VOIDED" /\ inside'[a][d] = 0
                  ELSE row'[a][d] = row[a][d] /\ inside'[a][d] = inside[a][d]
  <1> DEFINE r == request[h]
  <1>1. PICK w \in Attendees, x \in Dates : w = r.who /\ x = r.day
    BY RequestFields DEF RowInv, WriteVoid
  <1>2. row[w] \in [Dates -> Row] /\ inside[w] \in [Dates -> Nat] /\ row[w][x] \in Row
    BY DEF RowInv, TypeOK
  <1>3. row[w][x].st # "none"
    BY <1>1 DEF RowInv, VoidsHaveRows, WriteVoid
  <1>4. PICK v : v = [row[w][x] EXCEPT !.st = "VOIDED"]
    OBVIOUS
  <1>5. v \in Row /\ v.st = "VOIDED"
    BY <1>2, <1>3, <1>4 DEF Row
  <1>6. /\ row' = [row EXCEPT ![w] = [row[w] EXCEPT ![x] = v]]
        /\ inside' = [inside EXCEPT ![w] = [inside[w] EXCEPT ![x] = 0]]
    BY <1>1, <1>4 DEF WriteVoid, RowInv, TypeOK
  <1>7. /\ [row[w] EXCEPT ![x] = v] \in [Dates -> Row]
        /\ [inside[w] EXCEPT ![x] = 0] \in [Dates -> Nat]
    BY <1>2, <1>5
  <1>8. /\ row' \in [Attendees -> [Dates -> Row]]
        /\ inside' \in [Attendees -> [Dates -> Nat]]
    BY <1>6, <1>7 DEF RowInv, TypeOK
  <1>9. \A a \in Attendees, d \in Dates :
          IF a = w /\ d = x
            THEN row'[a][d].st = "VOIDED" /\ inside'[a][d] = 0
            ELSE row'[a][d] = row[a][d] /\ inside'[a][d] = inside[a][d]
    BY <1>2, <1>5, <1>6 DEF RowInv, TypeOK
  <1>10. QED BY <1>1, <1>8, <1>9

-----------------------------------------------------------------------------
(* Every entry has its row, whatever the lock does *)

(* What a request in flight remembers is well formed. *)
Formed(r) ==
  /\ r \in Request
  /\ r.at # "idle" => r.who \in Attendees /\ r.day \in Dates
  /\ r.at \notin {"idle", "void"} => r.gate \in Gates

(* A step of one request after which the tables are still good and no row  *)
(* has disappeared.                                                        *)
LEMMA RowInvFramed ==
    ASSUME RowInv, NEW h \in Handlers, NEW r, Go(h, r), Formed(r),
           r.at = "void" => row'[r.who][r.day].st # "none",
           status' \in [Attendees -> AttendeeStatus],
           row' \in [Attendees -> [Dates -> Row]],
           inside' \in [Attendees -> [Dates -> Nat]],
           open' \subseteq Gates,
           lock' \in [Keys -> Handlers \cup {Nobody}],
           crashes' \in 0..MaxCrashes,
           \A a \in Attendees, d \in Dates :
             /\ row[a][d].st # "none" => row'[a][d].st # "none"
             /\ row'[a][d].st = "SUCCESS" <=> inside'[a][d] > 0
    PROVE  RowInv'
  <1>1. /\ request' \in [Handlers -> Request]
        /\ request'[h] = r
        /\ \A g \in Handlers \ {h} : request'[g] = request[g]
    BY DEF Go, Formed, RowInv, TypeOK
  <1>2. \A g \in Handlers : Formed(request'[g])
    BY <1>1, RequestFields DEF Formed, RowInv
  <1>3. TypeOK'
    BY <1>1, <1>2 DEF TypeOK, Formed
  <1>4. VoidsHaveRows'
    <2> SUFFICES ASSUME NEW g \in Handlers, request'[g].at = "void"
                 PROVE  row'[request'[g].who][request'[g].day].st # "none"
      BY DEF VoidsHaveRows
    <2>1. CASE g = h
      BY <1>1, <2>1
    <2>2. CASE g # h
      BY <1>1, <2>2, RequestFields DEF RowInv, VoidsHaveRows
    <2>3. QED BY <2>1, <2>2
  <1>5. EntriesRecorded'
    BY DEF EntriesRecorded, CheckedIn
  <1>6. QED BY <1>3, <1>4, <1>5 DEF RowInv

(* A step that writes no table: only a request, and maybe a key, change.   *)
LEMMA RowInvMemory ==
    ASSUME RowInv, NEW h \in Handlers, NEW r, Go(h, r), Formed(r),
           r.at = "void" => row[r.who][r.day].st # "none",
           lock' \in [Keys -> Handlers \cup {Nobody}],
           crashes' \in 0..MaxCrashes,
           UNCHANGED <<status, row, open, inside>>
    PROVE  RowInv'
  <1>1. \A a \in Attendees, d \in Dates : row[a][d].st = "SUCCESS" <=> inside[a][d] > 0
    BY DEF RowInv, EntriesRecorded, CheckedIn
  <1>2. /\ status \in [Attendees -> AttendeeStatus]
        /\ row \in [Attendees -> [Dates -> Row]]
        /\ inside \in [Attendees -> [Dates -> Nat]]
        /\ open \subseteq Gates
    BY DEF RowInv, TypeOK
  <1>3. QED BY <1>1, <1>2, RowInvFramed

LEMMA ReleasedOK ==
    ASSUME TypeOK, NEW h \in Handlers, request[h].at # "idle"
    PROVE  Released(h) \in [Keys -> Handlers \cup {Nobody}]
  <1>1. PICK k \in Keys : k = LockKey(request[h])
    BY KeyOK
  <1>2. lock \in [Keys -> Handlers \cup {Nobody}]
    BY DEF TypeOK
  <1>3. QED BY <1>1, <1>2 DEF Released

LEMMA LockOK ==
    ASSUME RowInv
    PROVE  /\ lock \in [Keys -> Handlers \cup {Nobody}]
           /\ crashes \in 0..MaxCrashes
  BY DEF RowInv, TypeOK

LEMMA IdleFormed == Formed(Idle) /\ Idle.at # "void"
  BY IdleOK DEF Formed, Idle

LEMMA BeginScanRow ==
    ASSUME RowInv, NEW h \in Handlers, NEW a \in Attendees, NEW g \in Gates, NEW d \in Dates,
           BeginScan(h, a, g, d) \/ BeginDesk(h, a, g, d)
    PROVE  RowInv'
  <1>1. PICK p \in {"lock", "deskFind"} :
          Go(h, [at |-> p, who |-> a, gate |-> g, day |-> d,
                 locked |-> FALSE, seen |-> "none", status |-> "ACTIVE"])
    BY DEF BeginScan, BeginDesk
  <1>2. Formed([at |-> p, who |-> a, gate |-> g, day |-> d,
                locked |-> FALSE, seen |-> "none", status |-> "ACTIVE"])
    BY DEF Formed, Request, Places, AttendeeStatus
  <1>3. UNCHANGED <<status, row, open, lock, inside, crashes>>
    BY DEF BeginScan, BeginDesk
  <1>4. QED BY <1>1, <1>2, <1>3, RowInvMemory, LockOK

LEMMA BeginVoidRow ==
    ASSUME RowInv, NEW h \in Handlers, NEW a \in Attendees, NEW d \in Dates, BeginVoid(h, a, d)
    PROVE  RowInv'
  <1>1. PICK r : r = [Idle EXCEPT !.at = "void", !.who = a, !.day = d, !.status = status[a]]
    OBVIOUS
  <1>2. r.at = "void" /\ r.who = a /\ r.day = d /\ r \in Request
    BY <1>1 DEF Idle, Request, Places, RowInv, TypeOK
  <1>3. Formed(r)
    BY <1>2 DEF Formed
  <1>4. row[a][d].st # "none"
    BY DEF BeginVoid, CheckedIn
  <1>5. Go(h, r) /\ UNCHANGED <<status, row, open, lock, inside, crashes>>
    BY <1>1 DEF BeginVoid
  <1>6. QED BY <1>2, <1>3, <1>4, <1>5, RowInvMemory, LockOK

(* The steps of a scan before its write. *)
LEMMA ScanReadsRow ==
    ASSUME RowInv, NEW h \in Handlers,
           \/ AcquireLock(h) \/ LockHeld(h) \/ LockUnavailable(h)
           \/ CheckExisting(h) \/ FindRecord(h) \/ FindForDesk(h)
    PROVE  RowInv'
  <1> USE LockOK, IdleFormed
  <1>1. PICK r \in Request : r = request[h] /\ (r.at # "idle" => Formed(r))
    BY RequestFields DEF RowInv, Formed
  <1>2. /\ UNCHANGED <<status, row, open, inside, crashes>>
        /\ r.at # "idle"
    BY <1>1 DEF AcquireLock, LockHeld, LockUnavailable, CheckExisting, FindRecord, FindForDesk
  <1>3. CASE AcquireLock(h)
    <2>1. LockKey(request[h]) \in Keys
      BY <1>1, <1>2, KeyOK DEF RowInv
    <2>2. lock' \in [Keys -> Handlers \cup {Nobody}]
      BY <1>3, <2>1 DEF AcquireLock
    <2>3. Formed([r EXCEPT !.at = "check", !.locked = TRUE])
      BY <1>1, <1>3 DEF Formed, AcquireLock, Request, Places
    <2>4. QED BY <1>1, <1>2, <1>3, <2>2, <2>3, RowInvMemory DEF AcquireLock, Request
  <1>4. CASE LockHeld(h)
    BY <1>2, <1>4, RowInvMemory DEF LockHeld, Finish
  <1>5. CASE LockUnavailable(h)
    <2>1. Formed([r EXCEPT !.at = "check"])
      BY <1>1, <1>5 DEF Formed, LockUnavailable, Request, Places
    <2>2. QED BY <1>1, <1>2, <1>5, <2>1, RowInvMemory DEF LockUnavailable, Request
  <1>6. CASE CheckExisting(h)
    <2>1. CASE Answer(h)
      BY <1>1, <1>2, <2>1, ReleasedOK, RowInvMemory DEF Answer, Finish, RowInv
    <2>2. CASE Go(h, [r EXCEPT !.at = "find"]) /\ UNCHANGED lock
      <3>1. Formed([r EXCEPT !.at = "find"])
        BY <1>1, <1>6 DEF Formed, CheckExisting, Request, Places
      <3>2. QED BY <1>1, <1>2, <2>2, <3>1, RowInvMemory DEF Request
    <2>3. QED BY <1>1, <1>6, <2>1, <2>2 DEF CheckExisting
  <1>7. CASE FindRecord(h) \/ FindForDesk(h)
    <2>1. PICK p \in {"write", "deskWrite"} :
            Go(h, [r EXCEPT !.at = p, !.seen = row[r.who][r.day].st]) /\ UNCHANGED lock
      BY <1>1, <1>7 DEF FindRecord, FindForDesk
    <2>2. row[r.who][r.day].st \in {"none", "SUCCESS", "VOIDED"}
      BY <1>1, <1>2, RowFields DEF RowInv, Formed
    <2>3. Formed([r EXCEPT !.at = p, !.seen = row[r.who][r.day].st])
      BY <1>1, <1>7, <2>2 DEF Formed, FindRecord, FindForDesk, Request, Places
    <2>4. QED BY <1>1, <1>2, <2>1, <2>3, RowInvMemory DEF Request
  <1>8. QED BY <1>3, <1>4, <1>5, <1>6, <1>7

(* A write of the row, or its refusal by the unique index. *)
LEMMA WriteRow_Row ==
    ASSUME RowInv, NEW h \in Handlers, WriteScan(h) \/ WriteDesk(h)
    PROVE  RowInv'
  <1>1. /\ WriteRow(request[h]) /\ Go(h, Idle)
        /\ request[h].at \notin {"idle", "void"}
        /\ UNCHANGED <<status, open, crashes>>
        /\ lock' \in {lock, Released(h)}
    BY DEF WriteScan, WriteDesk, Answer, Finish
  <1>2. lock' \in [Keys -> Handlers \cup {Nobody}]
    BY <1>1, ReleasedOK, LockOK DEF RowInv
  <1>3. CASE UNCHANGED <<row, inside>>
    BY <1>1, <1>2, <1>3, RowInvMemory, LockOK, IdleFormed
  <1>4. CASE /\ row' \in [Attendees -> [Dates -> Row]]
             /\ inside' \in [Attendees -> [Dates -> Nat]]
             /\ \A a \in Attendees, d \in Dates :
                  IF a = request[h].who /\ d = request[h].day
                    THEN row'[a][d].st = "SUCCESS" /\ inside'[a][d] = inside[a][d] + 1
                    ELSE row'[a][d] = row[a][d] /\ inside'[a][d] = inside[a][d]
    <2>1. \A a \in Attendees, d \in Dates :
            /\ row[a][d].st # "none" => row'[a][d].st # "none"
            /\ row'[a][d].st = "SUCCESS" <=> inside'[a][d] > 0
      BY <1>4, RowFields DEF RowInv, EntriesRecorded, CheckedIn
    <2>2. status' \in [Attendees -> AttendeeStatus] /\ open' \subseteq Gates
      BY <1>1 DEF RowInv, TypeOK
    <2>3. QED BY <1>1, <1>2, <1>4, <2>1, <2>2, RowInvFramed, LockOK, IdleFormed
  <1>5. QED BY <1>1, <1>3, <1>4, WriteRowEffect DEF RowInv

LEMMA WriteVoidRow ==
    ASSUME RowInv, NEW h \in Handlers, WriteVoid(h)
    PROVE  RowInv'
  <1>1. PICK w \in Attendees : w = request[h].who
    BY RequestFields DEF RowInv, WriteVoid
  <1>2. PICK s \in AttendeeStatus :
          status' = [status EXCEPT ![w] = s]
    BY <1>1 DEF WriteVoid, RowInv, TypeOK, AttendeeStatus
  <1>3. status' \in [Attendees -> AttendeeStatus] /\ open' \subseteq Gates
    BY <1>2 DEF RowInv, TypeOK, WriteVoid
  <1>4. \A a \in Attendees, d \in Dates :
          /\ row[a][d].st # "none" => row'[a][d].st # "none"
          /\ row'[a][d].st = "SUCCESS" <=> inside'[a][d] > 0
    BY VoidEffect, RowFields DEF RowInv, EntriesRecorded, CheckedIn
  <1>5. Go(h, Idle) /\ UNCHANGED <<open, lock, crashes>>
    BY DEF WriteVoid, Finish
  <1>6. QED BY <1>3, <1>4, <1>5, VoidEffect, RowInvFramed, LockOK, IdleFormed

LEMMA CrashRow ==
    ASSUME RowInv, NEW h \in Handlers, Crash(h)
    PROVE  RowInv'
  <1>1. crashes' \in 0..MaxCrashes
    BY LockOK DEF Crash
  <1>2. QED BY <1>1, RowInvMemory, LockOK, IdleFormed DEF Crash, Finish

(* Steps that leave rows, requests and counts alone. *)
LEMMA OutsideRow ==
    ASSUME RowInv,
           \/ \E a \in Attendees, s \in Statuses : SetStatus(a, s)
           \/ \E g \in Gates : SwitchGate(g)
           \/ \E k \in Keys : Expire(k)
    PROVE  RowInv'
  <1>1. UNCHANGED <<row, request, inside, crashes>>
    BY DEF SetStatus, SwitchGate, Expire
  <1>2. status' \in [Attendees -> AttendeeStatus] /\ open' \subseteq Gates
    BY DEF SetStatus, SwitchGate, Expire, RowInv, TypeOK
  <1>3. lock' \in [Keys -> Handlers \cup {Nobody}]
    BY LockOK DEF SetStatus, SwitchGate, Expire
  <1>4. TypeOK'
    BY <1>1, <1>2, <1>3 DEF RowInv, TypeOK
  <1>5. VoidsHaveRows' /\ EntriesRecorded'
    BY <1>1 DEF RowInv, VoidsHaveRows, EntriesRecorded, CheckedIn
  <1>6. QED BY <1>4, <1>5 DEF RowInv

LEMMA InitRow == Init => RowInv
  <1> SUFFICES ASSUME Init PROVE RowInv
    OBVIOUS
  <1>1. NoRow \in Row /\ NoRow.st = "none"
    BY DEF NoRow, Row
  <1>2. TypeOK
    BY <1>1, IdleOK DEF Init, TypeOK, AttendeeStatus
  <1>3. VoidsHaveRows
    BY IdleFormed DEF Init, VoidsHaveRows
  <1>4. EntriesRecorded
    BY <1>1 DEF Init, EntriesRecorded, CheckedIn
  <1>5. QED BY <1>2, <1>3, <1>4 DEF RowInv

LEMMA NextRow == RowInv /\ [Next]_vars => RowInv'
  <1> SUFFICES ASSUME RowInv, [Next]_vars PROVE RowInv'
    OBVIOUS
  <1>1. CASE UNCHANGED vars
    BY <1>1 DEF vars, RowInv, TypeOK, VoidsHaveRows, EntriesRecorded, CheckedIn
  <1>2. ASSUME NEW h \in Handlers, NEW a \in Attendees, NEW d \in Dates,
               \/ BeginVoid(h, a, d)
               \/ \E g \in Gates : BeginScan(h, a, g, d) \/ BeginDesk(h, a, g, d)
        PROVE  RowInv'
    BY <1>2, BeginVoidRow, BeginScanRow
  <1>3. ASSUME NEW h \in Handlers, Step(h) PROVE RowInv'
    BY <1>3, ScanReadsRow, WriteRow_Row, WriteVoidRow DEF Step
  <1>4. ASSUME NEW h \in Handlers, Crash(h) PROVE RowInv'
    BY <1>4, CrashRow
  <1>5. QED BY <1>1, <1>2, <1>3, <1>4, OutsideRow DEF Next

(* The part of the invariant that needs no lock. *)
THEOREM RowInvariant == Spec => []RowInv
  <1>1. Init => RowInv
    BY InitRow
  <1>2. RowInv /\ [Next]_vars => RowInv'
    BY NextRow
  <1>3. QED BY <1>1, <1>2, PTL DEF Spec

(* Requests, rows and keys stay well formed, whatever the gates, the desk, *)
(* reversals, a failing lock and restarts do.                              *)
THEOREM CheckinTypes == Spec => []TypeOK
  <1>1. RowInv => TypeOK
    BY DEF RowInv
  <1>2. QED BY <1>1, RowInvariant, PTL

(* processCheckin, manualCheckin and voidCheckin never leave an entry      *)
(* without its SUCCESS row or a SUCCESS row without an entry, even where   *)
(* the lock fails: the unique index and the reversal see to it.            *)
THEOREM EntriesAreRecorded == Spec => []EntriesRecorded
  <1>1. RowInv => EntriesRecorded
    BY DEF RowInv
  <1>2. QED BY <1>1, RowInvariant, PTL

-----------------------------------------------------------------------------
(* A full gate overshoots by the requests in flight at most.  What is      *)
(* inductive: the entries at a gate and the requests past its capacity     *)
(* check together never exceed all but one of its places and all requests. *)

Entered(g, d) == {a \in Attendees : CheckedIn(a, d) /\ row[a][d].gate = g}

PastCapacity == {"lock", "check", "find", "write", "deskFind", "deskWrite"}
InFlight(g, d) == {h \in Handlers : /\ request[h].at \in PastCapacity
                                    /\ request[h].gate = g /\ request[h].day = d}

Fits(g, d) ==
  Cardinality(Entered(g, d)) + Cardinality(InFlight(g, d)) <= Capacity - 1 + Cardinality(Handlers)

GatesFit == Capacity > 0 => \A g \in Limited, d \in Dates : Fits(g, d)

LEMMA Finite ==
    ASSUME NEW g, NEW d
    PROVE  /\ IsFiniteSet(Entered(g, d)) /\ Cardinality(Entered(g, d)) \in Nat
           /\ IsFiniteSet(InFlight(g, d)) /\ Cardinality(InFlight(g, d)) \in Nat
           /\ Cardinality(InFlight(g, d)) <= Cardinality(Handlers)
           /\ Cardinality(Handlers) \in Nat
  <1>1. Entered(g, d) \in SUBSET Attendees /\ InFlight(g, d) \in SUBSET Handlers
    BY DEF Entered, InFlight
  <1>2. IsFiniteSet(Entered(g, d)) /\ IsFiniteSet(InFlight(g, d))
    BY <1>1, FS_Subset, FiniteAssumption
  <1>3. Cardinality(InFlight(g, d)) <= Cardinality(Handlers)
    BY <1>1, FS_Subset, FiniteAssumption
  <1>4. QED BY <1>2, <1>3, FS_CardinalityType, FiniteAssumption

LEMMA FinitePrime ==
    ASSUME NEW g, NEW d
    PROVE  /\ IsFiniteSet(Entered(g, d)') /\ Cardinality(Entered(g, d)') \in Nat
           /\ IsFiniteSet(InFlight(g, d)') /\ Cardinality(InFlight(g, d)') \in Nat
           /\ Cardinality(InFlight(g, d)') <= Cardinality(Handlers)
  <1>1. Entered(g, d)' \in SUBSET Attendees /\ InFlight(g, d)' \in SUBSET Handlers
    BY DEF Entered, InFlight
  <1>2. IsFiniteSet(Entered(g, d)') /\ IsFiniteSet(InFlight(g, d)')
    BY <1>1, FS_Subset, FiniteAssumption
  <1>3. Cardinality(InFlight(g, d)') <= Cardinality(Handlers)
    BY <1>1, FS_Subset, FiniteAssumption
  <1>4. QED BY <1>2, <1>3, FS_CardinalityType

(* Entries go, requests end: the sum does not grow. *)
LEMMA FitsShrunk ==
    ASSUME NEW g, NEW d, Fits(g, d),
           Entered(g, d)' \subseteq Entered(g, d), InFlight(g, d)' \subseteq InFlight(g, d)
    PROVE  Fits(g, d)'
  <1>1. /\ Cardinality(Entered(g, d)') <= Cardinality(Entered(g, d))
        /\ Cardinality(InFlight(g, d)') <= Cardinality(InFlight(g, d))
    BY Finite, FS_Subset
  <1>2. Cardinality(Entered(g, d)) \in Nat /\ Cardinality(InFlight(g, d)) \in Nat
    BY Finite
  <1>3. Cardinality(Entered(g, d)') \in Nat /\ Cardinality(InFlight(g, d)') \in Nat
    BY FinitePrime
  <1>4. Cardinality(Handlers) \in Nat
    BY Finite
  <1>5. QED BY <1>1, <1>2, <1>3, <1>4 DEF Fits

(* A request that enters becomes an entry. *)
LEMMA FitsEntered ==
    ASSUME NEW g, NEW d, Fits(g, d), NEW a, NEW h \in InFlight(g, d),
           Entered(g, d)' \subseteq Entered(g, d) \cup {a},
           InFlight(g, d)' \subseteq InFlight(g, d) \ {h}
    PROVE  Fits(g, d)'
  <1>1. /\ IsFiniteSet(Entered(g, d)) /\ Cardinality(Entered(g, d)) \in Nat
        /\ IsFiniteSet(InFlight(g, d)) /\ Cardinality(InFlight(g, d)) \in Nat
        /\ Cardinality(Handlers) \in Nat
    BY Finite
  <1>2. /\ IsFiniteSet(Entered(g, d) \cup {a})
        /\ Cardinality(Entered(g, d) \cup {a}) <= Cardinality(Entered(g, d)) + 1
    <2>1. PICK E : E = Entered(g, d)
      OBVIOUS
    <2>2. /\ IsFiniteSet(E \cup {a})
          /\ Cardinality(E \cup {a}) = IF a \in E THEN Cardinality(E) ELSE Cardinality(E) + 1
      BY <1>1, <2>1, FS_AddElement
    <2>3. QED BY <1>1, <2>1, <2>2
  <1>3. /\ IsFiniteSet(InFlight(g, d) \ {h})
        /\ Cardinality(InFlight(g, d) \ {h}) = Cardinality(InFlight(g, d)) - 1
    BY <1>1, FS_RemoveElement
  <1>4. Cardinality(Entered(g, d)') <= Cardinality(Entered(g, d) \cup {a})
    BY <1>2, FS_Subset
  <1>5. Cardinality(InFlight(g, d)') <= Cardinality(InFlight(g, d) \ {h})
    BY <1>3, FS_Subset
  <1>6. Cardinality(Entered(g, d)') \in Nat /\ Cardinality(InFlight(g, d)') \in Nat
    BY FinitePrime
  <1>7. Cardinality(Entered(g, d) \cup {a}) \in Nat
    BY <1>2, FS_CardinalityType
  <1>8. QED BY <1>1, <1>2, <1>3, <1>4, <1>5, <1>6, <1>7 DEF Fits

(* A request that found room at the gate, or that passed no gate. *)
LEMMA FitsBegun ==
    ASSUME TypeOK, GatesFit, NEW h \in Handlers, NEW r, Go(h, r), UNCHANGED row,
           r.at \in PastCapacity /\ Capacity > 0 => HasRoom(r.gate, r.day)
    PROVE  GatesFit'
  <1> SUFFICES ASSUME Capacity > 0, NEW g \in Limited, NEW d \in Dates PROVE Fits(g, d)'
    BY DEF GatesFit
  <1>1. Fits(g, d)
    BY DEF GatesFit
  <1>2. Entered(g, d)' = Entered(g, d)
    BY DEF Entered, CheckedIn
  <1>3. CASE r.at \in PastCapacity /\ r.gate = g /\ r.day = d
    <2>1. Cardinality(Entered(g, d)) < Capacity
      BY <1>3 DEF HasRoom, CountAt, Entered
    <2>2. Cardinality(Entered(g, d)) \in Nat /\ Cardinality(Handlers) \in Nat
      BY Finite
    <2>3. Cardinality(InFlight(g, d)') \in Nat /\ Cardinality(InFlight(g, d)') <= Cardinality(Handlers)
      BY FinitePrime
    <2>4. QED BY <1>2, <2>1, <2>2, <2>3 DEF Fits
  <1>4. CASE ~(r.at \in PastCapacity /\ r.gate = g /\ r.day = d)
    <2>1. InFlight(g, d)' \subseteq InFlight(g, d)
      BY <1>4 DEF InFlight, Go, TypeOK
    <2>2. QED BY <1>1, <1>2, <2>1, FitsShrunk
  <1>5. QED BY <1>3, <1>4

(* A request goes on towards the same gate, or ends, and no row changes. *)
LEMMA FitsMoved ==
    ASSUME TypeOK, GatesFit, NEW h \in Handlers, NEW r, Go(h, r), UNCHANGED row,
           r.at \in PastCapacity => /\ request[h].at \in PastCapacity
                                    /\ r.gate = request[h].gate /\ r.day = request[h].day
    PROVE  GatesFit'
  <1> SUFFICES ASSUME Capacity > 0, NEW g \in Limited, NEW d \in Dates PROVE Fits(g, d)'
    BY DEF GatesFit
  <1>1. Fits(g, d)
    BY DEF GatesFit
  <1>2. Entered(g, d)' = Entered(g, d)
    BY DEF Entered, CheckedIn
  <1>3. InFlight(g, d)' \subseteq InFlight(g, d)
    BY DEF InFlight, Go, TypeOK
  <1>4. QED BY <1>1, <1>2, <1>3, FitsShrunk

LEMMA NothingPast == "idle" \notin PastCapacity /\ "void" \notin PastCapacity /\ Idle.at \notin PastCapacity
  BY IdleOK DEF PastCapacity

LEMMA BeginFits ==
    ASSUME RowInv, GatesFit, NEW h \in Handlers, NEW a \in Attendees, NEW d \in Dates,
           \/ BeginVoid(h, a, d)
           \/ \E g \in Gates : BeginScan(h, a, g, d) \/ BeginDesk(h, a, g, d)
    PROVE  GatesFit'
  <1>0. TypeOK
    BY DEF RowInv
  <1>1. CASE BeginVoid(h, a, d)
    <2>1. PICK r : r = [Idle EXCEPT !.at = "void", !.who = a, !.day = d, !.status = status[a]]
      OBVIOUS
    <2>2. r.at = "void"
      BY <2>1 DEF Idle
    <2>3. Go(h, r) /\ UNCHANGED row
      BY <1>1, <2>1 DEF BeginVoid
    <2>4. r.at \notin PastCapacity
      BY <2>2, NothingPast
    <2>5. QED BY <1>0, <2>3, <2>4, FitsMoved
  <1>2. ASSUME NEW g \in Gates, BeginScan(h, a, g, d) PROVE GatesFit'
    <2>1. PICK r : r = [at |-> "lock", who |-> a, gate |-> g, day |-> d,
                        locked |-> FALSE, seen |-> "none", status |-> "ACTIVE"]
      OBVIOUS
    <2>2. Go(h, r) /\ UNCHANGED row /\ HasRoom(g, d)
      BY <1>2, <2>1 DEF BeginScan
    <2>3. r.gate = g /\ r.day = d
      BY <2>1
    <2>4. QED BY <1>0, <2>2, <2>3, FitsBegun
  <1>3. ASSUME NEW g \in Gates, BeginDesk(h, a, g, d) PROVE GatesFit'
    <2>1. PICK r : r = [at |-> "deskFind", who |-> a, gate |-> g, day |-> d,
                        locked |-> FALSE, seen |-> "none", status |-> "ACTIVE"]
      OBVIOUS
    <2>2. Go(h, r) /\ UNCHANGED row /\ DeskHasRoom(g, d)
      BY <1>3, <2>1 DEF BeginDesk
    <2>3. r.gate = g /\ r.day = d
      BY <2>1
    <2>4. Capacity > 0 => HasRoom(g, d)
      BY <2>2 DEF DeskHasRoom
    <2>5. QED BY <1>0, <2>2, <2>3, <2>4, FitsBegun
  <1>4. QED BY <1>1, <1>2, <1>3

(* The steps that only read, and those that end a request. *)
LEMMA ReadsFit ==
    ASSUME RowInv, GatesFit, NEW h \in Handlers,
           \/ AcquireLock(h) \/ LockHeld(h) \/ LockUnavailable(h) \/ CheckExisting(h)
           \/ FindRecord(h) \/ FindForDesk(h) \/ Crash(h)
    PROVE  GatesFit'
  <1>0. TypeOK /\ request[h] \in Request
    BY DEF RowInv, TypeOK
  <1>1. CASE LockHeld(h) \/ Crash(h) \/ (CheckExisting(h) /\ Answer(h))
    <2>1. Go(h, Idle) /\ UNCHANGED row
      BY <1>1 DEF LockHeld, Crash, CheckExisting, Answer, Finish
    <2>2. QED BY <1>0, <2>1, NothingPast, FitsMoved
  <1>2. CASE ~(LockHeld(h) \/ Crash(h) \/ (CheckExisting(h) /\ Answer(h)))
    <2>1. PICK x \in PastCapacity, l \in BOOLEAN, s \in {"none", "SUCCESS", "VOIDED"} :
            /\ Go(h, [request[h] EXCEPT !.at = x, !.locked = l, !.seen = s])
            /\ UNCHANGED row /\ request[h].at \in PastCapacity
      <3>1. CASE AcquireLock(h)
        <4>1. [request[h] EXCEPT !.at = "check", !.locked = TRUE]
                = [request[h] EXCEPT !.at = "check", !.locked = TRUE, !.seen = request[h].seen]
          BY <1>0 DEF Request
        <4>2. request[h].seen \in {"none", "SUCCESS", "VOIDED"}
          BY <1>0 DEF Request
        <4>3. QED BY <3>1, <4>1, <4>2 DEF AcquireLock, PastCapacity
      <3>2. CASE LockUnavailable(h)
        <4>1. [request[h] EXCEPT !.at = "check"]
                = [request[h] EXCEPT !.at = "check", !.locked = request[h].locked, !.seen = request[h].seen]
          BY <1>0 DEF Request
        <4>2. request[h].seen \in {"none", "SUCCESS", "VOIDED"} /\ request[h].locked \in BOOLEAN
          BY <1>0 DEF Request
        <4>3. QED BY <3>2, <4>1, <4>2 DEF LockUnavailable, PastCapacity
      <3>3. CASE CheckExisting(h)
        <4>1. [request[h] EXCEPT !.at = "find"]
                = [request[h] EXCEPT !.at = "find", !.locked = request[h].locked, !.seen = request[h].seen]
          BY <1>0 DEF Request
        <4>2. request[h].seen \in {"none", "SUCCESS", "VOIDED"} /\ request[h].locked \in BOOLEAN
          BY <1>0 DEF Request
        <4>3. Go(h, [request[h] EXCEPT !.at = "find"])
          BY <1>2, <3>3 DEF CheckExisting
        <4>4. QED BY <3>3, <4>1, <4>2, <4>3 DEF CheckExisting, PastCapacity
      <3>4. CASE FindRecord(h) \/ FindForDesk(h)
        <4>1. PICK s : s = row[request[h].who][request[h].day].st
          OBVIOUS
        <4>2. request[h].at # "idle"
          BY <3>4 DEF FindRecord, FindForDesk
        <4>3. s \in {"none", "SUCCESS", "VOIDED"}
          BY <1>0, <4>1, <4>2, RequestFields, RowFields
        <4>4. ASSUME NEW x PROVE [request[h] EXCEPT !.at = x, !.seen = s]
                = [request[h] EXCEPT !.at = x, !.locked = request[h].locked, !.seen = s]
          BY <1>0 DEF Request
        <4>5. request[h].locked \in BOOLEAN
          BY <1>0 DEF Request
        <4>6. \E x \in PastCapacity : Go(h, [request[h] EXCEPT !.at = x, !.seen = s])
          BY <3>4, <4>1 DEF FindRecord, FindForDesk, PastCapacity
        <4>7. UNCHANGED row /\ request[h].at \in PastCapacity
          BY <3>4 DEF FindRecord, FindForDesk, PastCapacity
        <4>8. PICK x \in PastCapacity : Go(h, [request[h] EXCEPT !.at = x, !.seen = s])
          BY <4>6
        <4>9. Go(h, [request[h] EXCEPT !.at = x, !.locked = request[h].locked, !.seen = s])
          BY <4>4, <4>8
        <4>10. QED BY <4>3, <4>5, <4>7, <4>9
      <3>5. QED BY <1>2, <3>1, <3>2, <3>3, <3>4
    <2>2. PICK r : r = [request[h] EXCEPT !.at = x, !.locked = l, !.seen = s]
      OBVIOUS
    <2>3. r.gate = request[h].gate /\ r.day = request[h].day
      BY <1>0, <2>2 DEF Request
    <2>4. QED BY <1>0, <2>1, <2>2, <2>3, FitsMoved
  <1>3. QED BY <1>1, <1>2

(* The row written names the request's own gate. *)
LEMMA AdmitGate ==
    ASSUME TypeOK, NEW h \in Handlers, request[h].at \notin {"idle", "void"}, Admit(request[h])
    PROVE  row'[request[h].who][request[h].day].gate = request[h].gate
  <1>1. PICK w \in Attendees, x \in Dates, g \in Gates :
          w = request[h].who /\ x = request[h].day /\ g = request[h].gate
    BY RequestFields
  <1>2. row' = [row EXCEPT ![w] = [row[w] EXCEPT ![x] = [st |-> "SUCCESS", gate |-> g]]]
    BY <1>1 DEF Admit, TypeOK
  <1>3. row[w] \in [Dates -> Row]
    BY DEF TypeOK
  <1>4. QED BY <1>1, <1>2, <1>3 DEF TypeOK

LEMMA WriteFits ==
    ASSUME RowInv, GatesFit, NEW h \in Handlers, WriteScan(h) \/ WriteDesk(h)
    PROVE  GatesFit'
  <1>0. TypeOK /\ request[h].at \in {"write", "deskWrite"}
    BY DEF RowInv, WriteScan, WriteDesk
  <1>1. Go(h, Idle) /\ WriteRow(request[h])
    BY DEF WriteScan, WriteDesk, Answer, Finish
  <1>2. CASE UNCHANGED row
    BY <1>0, <1>1, <1>2, NothingPast, FitsMoved
  <1>3. CASE Admit(request[h])
    <2> SUFFICES ASSUME Capacity > 0, NEW g \in Limited, NEW d \in Dates PROVE Fits(g, d)'
      BY DEF GatesFit
    <2>1. Fits(g, d)
      BY DEF GatesFit
    <2>2. PICK w \in Attendees, x \in Dates : w = request[h].who /\ x = request[h].day
      BY <1>0, RequestFields
    <2>3. \A a \in Attendees, e \in Dates : ~(a = w /\ e = x) => row'[a][e] = row[a][e]
      BY <1>0, <1>3, <2>2, AdmitEffect
    <2>4. row'[w][x].gate = request[h].gate
      BY <1>0, <1>3, <2>2, AdmitGate
    <2>5. InFlight(g, d)' \subseteq InFlight(g, d) \ {h}
      BY <1>0, <1>1, NothingPast DEF InFlight, Go, TypeOK
    <2>6. CASE request[h].gate = g /\ x = d
      <3>1. h \in InFlight(g, d)
        BY <1>0, <2>2, <2>6 DEF InFlight, PastCapacity
      <3>2. Entered(g, d)' \subseteq Entered(g, d) \cup {w}
        BY <2>3 DEF Entered, CheckedIn
      <3>3. QED BY <2>1, <2>5, <3>1, <3>2, FitsEntered
    <2>7. CASE ~(request[h].gate = g /\ x = d)
      <3>1. Entered(g, d)' \subseteq Entered(g, d)
        BY <2>3, <2>4, <2>7 DEF Entered, CheckedIn
      <3>2. QED BY <2>1, <2>5, <3>1, FitsShrunk
    <2>8. QED BY <2>6, <2>7
  <1>4. QED BY <1>1, <1>2, <1>3 DEF WriteRow

LEMMA VoidFits ==
    ASSUME RowInv, GatesFit, NEW h \in Handlers, WriteVoid(h)
    PROVE  GatesFit'
  <1> SUFFICES ASSUME Capacity > 0, NEW g \in Limited, NEW d \in Dates PROVE Fits(g, d)'
    BY DEF GatesFit
  <1>1. Fits(g, d)
    BY DEF GatesFit
  <1>2. Entered(g, d)' \subseteq Entered(g, d)
    BY VoidEffect DEF Entered, CheckedIn
  <1>3. Go(h, Idle)
    BY DEF WriteVoid, Finish
  <1>4. InFlight(g, d)' \subseteq InFlight(g, d)
    BY <1>3, NothingPast DEF InFlight, Go, RowInv, TypeOK
  <1>5. QED BY <1>1, <1>2, <1>4, FitsShrunk

LEMMA UntouchedFits ==
    ASSUME GatesFit, UNCHANGED <<row, request>>
    PROVE  GatesFit'
  BY DEF GatesFit, Fits, Entered, InFlight, CheckedIn

LEMMA InitFits == Init => GatesFit
  <1> SUFFICES ASSUME Init, Capacity > 0, NEW g \in Limited, NEW d \in Dates PROVE Fits(g, d)
    BY DEF GatesFit
  <1>1. Entered(g, d) = {}
    BY DEF Init, Entered, CheckedIn, NoRow
  <1>2. InFlight(g, d) = {}
    BY NothingPast DEF Init, InFlight
  <1>3. Cardinality(Entered(g, d)) = 0 /\ Cardinality(InFlight(g, d)) = 0
    BY <1>1, <1>2, FS_EmptySet
  <1>4. Cardinality(Handlers) \in Nat
    BY Finite
  <1>5. QED BY <1>3, <1>4 DEF Fits

LEMMA NextFits == RowInv /\ GatesFit /\ [Next]_vars => GatesFit'
  <1> SUFFICES ASSUME RowInv, GatesFit, [Next]_vars PROVE GatesFit'
    OBVIOUS
  <1>1. CASE UNCHANGED vars
    BY <1>1, UntouchedFits DEF vars
  <1>2. ASSUME NEW h \in Handlers, NEW a \in Attendees, NEW d \in Dates,
               \/ BeginVoid(h, a, d)
               \/ \E g \in Gates : BeginScan(h, a, g, d) \/ BeginDesk(h, a, g, d)
        PROVE  GatesFit'
    BY <1>2, BeginFits
  <1>3. ASSUME NEW h \in Handlers, Step(h) PROVE GatesFit'
    BY <1>3, ReadsFit, WriteFits, VoidFits DEF Step
  <1>4. ASSUME NEW h \in Handlers, Crash(h) PROVE GatesFit'
    BY <1>4, ReadsFit
  <1>5. ASSUME \/ \E a \in Attendees, s \in Statuses : SetStatus(a, s)
               \/ \E g \in Gates : SwitchGate(g)
               \/ \E k \in Keys : Expire(k)
        PROVE  GatesFit'
    BY <1>5, UntouchedFits DEF SetStatus, SwitchGate, Expire
  <1>6. QED BY <1>1, <1>2, <1>3, <1>4, <1>5 DEF Next

(* The capacity check of processCheckin and manualCheckin is outside their *)
(* transactions, but a gate takes in no more beyond its last place than    *)
(* the other requests then in flight, whatever the lock does.              *)
THEOREM OvershootAlwaysBounded == Spec => []OvershootBounded
  <1>1. Init => RowInv /\ GatesFit
    BY InitRow, InitFits
  <1>2. (RowInv /\ GatesFit) /\ [Next]_vars => (RowInv /\ GatesFit)'
    BY NextRow, NextFits
  <1>3. ASSUME GatesFit PROVE OvershootBounded
    <2> SUFFICES ASSUME Capacity > 0, NEW g \in Limited, NEW d \in Dates
                 PROVE  CountAt(g, d) <= Capacity + Cardinality(Handlers) - 1
      BY DEF OvershootBounded
    <2>1. Fits(g, d)
      BY <1>3 DEF GatesFit
    <2>2. /\ Cardinality(Entered(g, d)) \in Nat /\ Cardinality(InFlight(g, d)) \in Nat
          /\ Cardinality(Handlers) \in Nat
      BY Finite
    <2>3. CountAt(g, d) = Cardinality(Entered(g, d))
      BY DEF CountAt, Entered
    <2>4. QED BY <2>1, <2>2, <2>3 DEF Fits
  <1>4. QED BY <1>1, <1>2, <1>3, PTL DEF Spec

-----------------------------------------------------------------------------
(* With a reliable lock and without the desk, a pass lets one person in.   *)

Reliable == ~Lossy /\ ~Desk

LEMMA SameKey ==
    ASSUME NEW r, NEW q, r.who = q.who, r.day = q.day
    PROVE  LockKey(r) = LockKey(q)
  BY DEF LockKey

(* The key of the scan at work under h. *)
LEMMA WorkingKey ==
    ASSUME TypeOK, NEW h \in Handlers, Working(h)
    PROVE  LockKey(request[h]) \in Keys /\ request[h].who \in Attendees
           /\ request[h].day \in Dates
  BY KeyOK, RequestFields DEF Working

(* A step of h that takes no key from the other scans leaves them as they  *)
(* are: each still holds its own.                                          *)
LEMMA ExclusiveFramed ==
    ASSUME RowInv, Exclusive, NEW h \in Handlers, NEW r, Go(h, r), r \in Request,
           r.at \in {"check", "find", "write"} => r.locked /\ lock'[LockKey(r)] = h,
           \A k \in Keys : lock[k] \in Handlers \ {h} => lock'[k] = lock[k]
    PROVE  Exclusive'
  <1>1. request'[h] = r /\ \A g \in Handlers \ {h} : request'[g] = request[g]
    BY DEF Go, RowInv, TypeOK
  <1> SUFFICES ASSUME NEW g \in Handlers, request'[g].at \in {"check", "find", "write"}
               PROVE  request'[g].locked /\ lock'[LockKey(request'[g])] = g
    BY DEF Exclusive, Working, LockKey
  <1>2. CASE g = h
    BY <1>1, <1>2
  <1>3. CASE g # h
    <2>1. request'[g] = request[g] /\ Working(g)
      BY <1>1, <1>3 DEF Working
    <2>2. request[g].locked /\ lock[LockKey(request[g])] = g
      BY <2>1 DEF Exclusive
    <2>3. lock'[LockKey(request[g])] = g
      BY <1>3, <2>1, <2>2, WorkingKey DEF RowInv
    <2>4. QED BY <2>1, <2>2, <2>3
  <1>4. QED BY <1>2, <1>3

(* A step of h that lets nobody in keeps what the other scans have read.   *)
LEMMA NotYetInFramed ==
    ASSUME RowInv, NotYetIn, NEW h \in Handlers, NEW r, Go(h, r), r \in Request,
           r.at \in {"find", "write"} =>
             \A d \in Dates : d = r.day \/ r.who \in AnyDay => row'[r.who][d].st # "SUCCESS",
           \A g \in Handlers \ {h} : request[g].at \in {"find", "write"} =>
             \A d \in Dates : d = request[g].day \/ request[g].who \in AnyDay
                                => row'[request[g].who][d].st # "SUCCESS"
    PROVE  NotYetIn'
  <1>1. request'[h] = r /\ \A g \in Handlers \ {h} : request'[g] = request[g]
    BY DEF Go, RowInv, TypeOK
  <1> SUFFICES ASSUME NEW g \in Handlers, request'[g].at \in {"find", "write"},
                      NEW d \in Dates, d = request'[g].day \/ request'[g].who \in AnyDay
               PROVE  row'[request'[g].who][d].st # "SUCCESS"
    BY DEF NotYetIn, CheckedIn
  <1>2. CASE g = h
    BY <1>1, <1>2
  <1>3. CASE g # h
    BY <1>1, <1>3
  <1>4. QED BY <1>2, <1>3

LEMMA NoDeskFramed ==
    ASSUME RowInv, NoDesk, NEW h \in Handlers, NEW r, Go(h, r),
           r.at \notin {"deskFind", "deskWrite"}
    PROVE  NoDesk'
  BY DEF NoDesk, Go, RowInv, TypeOK

(* A step of h that changes no row and no count. *)
LEMMA EntryInvMemory ==
    ASSUME EntryInv, RowInv', NEW h \in Handlers, NEW r, Go(h, r), r \in Request,
           r.at \in {"check", "find", "write"} => r.locked /\ lock'[LockKey(r)] = h,
           r.at \notin {"deskFind", "deskWrite"},
           r.at \in {"find", "write"} =>
             \A d \in Dates : d = r.day \/ r.who \in AnyDay => row[r.who][d].st # "SUCCESS",
           \A k \in Keys : lock[k] \in Handlers \ {h} => lock'[k] = lock[k],
           UNCHANGED <<row, inside>>
    PROVE  EntryInv'
  <1>1. Exclusive' /\ NoDesk'
    BY ExclusiveFramed, NoDeskFramed DEF EntryInv
  <1>2. NotYetIn'
    <2>1. \A g \in Handlers \ {h} : request[g].at \in {"find", "write"} =>
             \A d \in Dates : d = request[g].day \/ request[g].who \in AnyDay
                                => row'[request[g].who][d].st # "SUCCESS"
      BY DEF EntryInv, NotYetIn, CheckedIn
    <2>2. r.at \in {"find", "write"} =>
             \A d \in Dates : d = r.day \/ r.who \in AnyDay => row'[r.who][d].st # "SUCCESS"
      OBVIOUS
    <2>3. QED BY <2>1, <2>2, NotYetInFramed DEF EntryInv
  <1>3. AdmittedOnce'
    BY DEF EntryInv, AdmittedOnce
  <1>4. QED BY <1>1, <1>2, <1>3 DEF EntryInv

(* An answer releases no key but the request's own. *)
LEMMA ReleasedOwn ==
    ASSUME TypeOK, NEW h \in Handlers, request[h].at # "idle"
    PROVE  \A k \in Keys : lock[k] \in Handlers \ {h} => Released(h)[k] = lock[k]
  <1>1. PICK k \in Keys : k = LockKey(request[h])
    BY KeyOK
  <1>2. lock \in [Keys -> Handlers \cup {Nobody}]
    BY DEF TypeOK
  <1>3. QED BY <1>1, <1>2 DEF Released

(* Two scans past the lock never have the same key. *)
LEMMA OneAtWork ==
    ASSUME Exclusive, NEW g \in Handlers, NEW h \in Handlers, Working(g), Working(h),
           LockKey(request[g]) = LockKey(request[h])
    PROVE  g = h
  BY DEF Exclusive

-----------------------------------------------------------------------------
LEMMA BeginEntry ==
    ASSUME Reliable, EntryInv, RowInv', NEW h \in Handlers,
           NEW a \in Attendees, NEW d \in Dates,
           \/ BeginVoid(h, a, d)
           \/ \E g \in Gates : BeginScan(h, a, g, d) \/ BeginDesk(h, a, g, d)
    PROVE  EntryInv' /\ UNCHANGED inside
  <1>1. UNCHANGED <<row, lock, inside>>
    BY DEF BeginVoid, BeginScan, BeginDesk
  <1>2. CASE BeginVoid(h, a, d)
    <2>1. PICK r : r = [Idle EXCEPT !.at = "void", !.who = a, !.day = d, !.status = status[a]]
      OBVIOUS
    <2>2. r.at = "void" /\ r \in Request
      BY <2>1 DEF Idle, Request, Places, EntryInv, RowInv, TypeOK
    <2>3. Go(h, r)
      BY <1>2, <2>1 DEF BeginVoid
    <2>4. QED BY <1>1, <2>2, <2>3, EntryInvMemory
  <1>3. CASE \E g \in Gates : BeginScan(h, a, g, d)
    <2>1. PICK g \in Gates : BeginScan(h, a, g, d)
      BY <1>3
    <2>2. PICK r : r = [at |-> "lock", who |-> a, gate |-> g, day |-> d,
                        locked |-> FALSE, seen |-> "none", status |-> "ACTIVE"]
      OBVIOUS
    <2>3. r.at = "lock" /\ r \in Request
      BY <2>2 DEF Request, Places, AttendeeStatus
    <2>4. Go(h, r)
      BY <2>1, <2>2 DEF BeginScan
    <2>5. QED BY <1>1, <2>3, <2>4, EntryInvMemory
  <1>4. ~\E g \in Gates : BeginDesk(h, a, g, d)
    BY DEF BeginDesk, Reliable
  <1>5. QED BY <1>2, <1>3, <1>4

(* The steps of a scan before its write. *)
LEMMA ScanReadsEntry ==
    ASSUME Reliable, EntryInv, RowInv', NEW h \in Handlers,
           \/ AcquireLock(h) \/ LockHeld(h) \/ LockUnavailable(h)
           \/ CheckExisting(h) \/ FindRecord(h) \/ FindForDesk(h)
    PROVE  EntryInv' /\ UNCHANGED inside
  <1> USE IdleOK
  <1>0. Idle.at \notin {"check", "find", "write", "deskFind", "deskWrite"}
    OBVIOUS
  <1>1. PICK r \in Request : r = request[h]
    BY RequestFields DEF EntryInv, RowInv
  <1>2. /\ UNCHANGED <<row, inside>>
        /\ r.at # "idle" /\ TypeOK
    BY <1>1 DEF AcquireLock, LockHeld, LockUnavailable, CheckExisting, FindRecord, FindForDesk,
                EntryInv, RowInv
  <1>3. CASE AcquireLock(h)
    <2>1. PICK k \in Keys : k = LockKey(r)
      BY <1>1, <1>2, KeyOK
    <2>2. PICK q : q = [r EXCEPT !.at = "check", !.locked = TRUE]
      OBVIOUS
    <2>3. q \in Request /\ q.at = "check" /\ q.locked /\ LockKey(q) = k
      BY <2>1, <2>2 DEF Request, Places, LockKey
    <2>4. lock[k] = Nobody /\ lock' = [lock EXCEPT ![k] = h] /\ Go(h, q)
      BY <1>1, <1>3, <2>1, <2>2 DEF AcquireLock
    <2>5. lock'[k] = h /\ \A j \in Keys : lock[j] \in Handlers \ {h} => lock'[j] = lock[j]
      BY <1>2, <2>4 DEF TypeOK
    <2>6. QED BY <1>2, <2>3, <2>4, <2>5, EntryInvMemory
  <1>4. CASE LockHeld(h)
    BY <1>0, <1>2, <1>4, EntryInvMemory DEF LockHeld, Finish
  <1>5. ~LockUnavailable(h)
    BY DEF LockUnavailable, Reliable
  <1>6. CASE CheckExisting(h)
    <2>1. CASE Answer(h)
      BY <1>0, <1>1, <1>2, <2>1, ReleasedOwn, EntryInvMemory DEF Answer, Finish
    <2>2. CASE ~Answer(h)
      <3>1. PICK q : q = [r EXCEPT !.at = "find"]
        OBVIOUS
      <3>2. /\ Go(h, q) /\ UNCHANGED lock
            /\ \A d \in Dates : d = r.day \/ r.who \in AnyDay => row[r.who][d].st # "SUCCESS"
        BY <1>1, <1>6, <2>2, <3>1 DEF CheckExisting, CheckedIn
      <3>3. /\ q \in Request /\ q.at = "find" /\ q.locked = r.locked
            /\ q.who = r.who /\ q.day = r.day /\ LockKey(q) = LockKey(r)
        BY <3>1 DEF Request, Places, LockKey
      <3>4. r.locked /\ lock[LockKey(r)] = h
        BY <1>1, <1>6 DEF CheckExisting, EntryInv, Exclusive, Working
      <3>5. QED BY <1>2, <3>2, <3>3, <3>4, EntryInvMemory
    <2>3. QED BY <2>1, <2>2
  <1>7. CASE FindRecord(h)
    <2>1. PICK v \in {"none", "SUCCESS", "VOIDED"} : v = row[r.who][r.day].st
      BY <1>1, <1>2, RequestFields, RowFields
    <2>2. PICK q : q = [r EXCEPT !.at = "write", !.seen = v]
      OBVIOUS
    <2>3. Go(h, q) /\ UNCHANGED lock /\ r.at = "find"
      BY <1>1, <1>7, <2>1, <2>2 DEF FindRecord
    <2>4. /\ q \in Request /\ q.at = "write" /\ q.locked = r.locked
          /\ q.who = r.who /\ q.day = r.day /\ LockKey(q) = LockKey(r)
      BY <2>2 DEF Request, Places, LockKey
    <2>5. r.locked /\ lock[LockKey(r)] = h
      BY <1>1, <2>3 DEF EntryInv, Exclusive, Working
    <2>6. \A d \in Dates : d = r.day \/ r.who \in AnyDay => row[r.who][d].st # "SUCCESS"
      BY <1>1, <2>3 DEF EntryInv, NotYetIn, CheckedIn
    <2>7. QED BY <1>2, <2>3, <2>4, <2>5, <2>6, EntryInvMemory
  <1>8. ~FindForDesk(h)
    BY DEF FindForDesk, EntryInv, NoDesk
  <1>9. QED BY <1>3, <1>4, <1>5, <1>6, <1>7, <1>8

(* The write of a scan: what the transaction read is still so, because no  *)
(* other scan of the pass can be past the lock.                            *)
LEMMA WriteScanEntry ==
    ASSUME Reliable, EntryInv, RowInv', NEW h \in Handlers, WriteScan(h)
    PROVE  EntryInv' /\ (UNCHANGED inside \/ Entry!Next)
  <1> USE IdleOK
  <1>1. /\ request[h].at = "write" /\ WriteRow(request[h]) /\ Go(h, Idle)
        /\ lock' = Released(h) /\ TypeOK
    BY DEF WriteScan, Answer, Finish, EntryInv, RowInv
  <1>2. \A k \in Keys : lock[k] \in Handlers \ {h} => lock'[k] = lock[k]
    BY <1>1, ReleasedOwn
  <1>3. CASE UNCHANGED <<row, inside>>
    BY <1>1, <1>2, <1>3, EntryInvMemory
  <1>4. CASE /\ ~UNCHANGED <<row, inside>>
             /\ \A a \in Attendees, d \in Dates :
                  IF a = request[h].who /\ d = request[h].day
                    THEN row'[a][d].st = "SUCCESS" /\ inside'[a][d] = inside[a][d] + 1
                    ELSE row'[a][d] = row[a][d] /\ inside'[a][d] = inside[a][d]
    <2>1. PICK w \in Attendees, x \in Dates : w = request[h].who /\ x = request[h].day
      BY <1>1, RequestFields
    <2>2. \A d \in Dates : d = x \/ w \in AnyDay => row[w][d].st # "SUCCESS"
      BY <1>1, <2>1 DEF EntryInv, NotYetIn, CheckedIn
    <2>3. \A d \in Dates : d = x \/ w \in AnyDay => inside[w][d] = 0
      BY <1>1, <2>2, RowFields DEF EntryInv, RowInv, EntriesRecorded, CheckedIn
    <2>4. AdmittedOnce'
      BY <1>4, <2>1, <2>3 DEF EntryInv, AdmittedOnce
    <2>5. Exclusive' /\ NoDesk'
      BY <1>1, <1>2, ExclusiveFramed, NoDeskFramed DEF EntryInv
    <2>6. ASSUME NEW g \in Handlers \ {h}, request[g].at \in {"find", "write"},
                 NEW d \in Dates, d = request[g].day \/ request[g].who \in AnyDay
          PROVE  row'[request[g].who][d].st # "SUCCESS"
      <3>1. row[request[g].who][d].st # "SUCCESS" /\ request[g].who \in Attendees
        BY <1>1, <2>6, RequestFields DEF EntryInv, NotYetIn, CheckedIn
      <3>2. ~(request[g].who = w /\ d = x)
        <4>1. SUFFICES ASSUME request[g].who = w, d = x PROVE FALSE
          OBVIOUS
        <4>2. LockKey(request[g]) = LockKey(request[h])
          BY <2>1, <2>6, <4>1 DEF LockKey
        <4>3. Working(g) /\ Working(h)
          BY <1>1, <2>6 DEF Working
        <4>4. QED BY <4>2, <4>3, <2>6, OneAtWork DEF EntryInv
      <3>3. row'[request[g].who][d] = row[request[g].who][d]
        BY <1>4, <2>1, <3>1, <3>2
      <3>4. QED BY <3>1, <3>3
    <2>7. NotYetIn'
      BY <1>1, <2>6, NotYetInFramed DEF EntryInv
    <2>8. Entry!Enter(w, x)
      <3>1. Admit(request[h])
        BY <1>1, <1>4 DEF WriteRow
      <3>2. /\ inside[w] \in [Dates -> Nat] /\ inside[w][x] + 1 = 1
            /\ inside' = [inside EXCEPT ![w] = [inside[w] EXCEPT ![x] = inside[w][x] + 1]]
        BY <1>1, <2>1, <2>3, <3>1 DEF Admit, TypeOK
      <3>3. inside' = [inside EXCEPT ![w] = [inside[w] EXCEPT ![x] = 1]]
        BY <3>2
      <3>4. inside' = [inside EXCEPT ![w][x] = 1]
        BY <1>1, <3>3 DEF TypeOK
      <3>5. QED BY <2>3, <3>4 DEF Entry!Enter
    <2>9. QED BY <2>1, <2>4, <2>5, <2>7, <2>8 DEF EntryInv, Entry!Next
  <1>5. QED BY <1>1, <1>3, <1>4, WriteRowEffect

(* A reversal takes an entry back, or finds it taken back. *)
LEMMA WriteVoidEntry ==
    ASSUME Reliable, EntryInv, RowInv', NEW h \in Handlers, WriteVoid(h)
    PROVE  EntryInv' /\ (UNCHANGED inside \/ Entry!Next)
  <1> USE IdleOK
  <1>1. /\ request[h].at = "void" /\ Go(h, Idle) /\ UNCHANGED lock
        /\ TypeOK /\ RowInv
    BY DEF WriteVoid, Finish, EntryInv, RowInv
  <1>2. PICK w \in Attendees, x \in Dates : w = request[h].who /\ x = request[h].day
    BY <1>1, RequestFields
  <1>3. \A a \in Attendees, d \in Dates :
          IF a = w /\ d = x
            THEN row'[a][d].st = "VOIDED" /\ inside'[a][d] = 0
            ELSE row'[a][d] = row[a][d] /\ inside'[a][d] = inside[a][d]
    BY <1>1, <1>2, VoidEffect
  <1>4. AdmittedOnce'
    BY <1>3 DEF EntryInv, AdmittedOnce
  <1>5. Exclusive' /\ NoDesk'
    BY <1>1, ExclusiveFramed, NoDeskFramed DEF EntryInv
  <1>6. NotYetIn'
    <2>1. ASSUME NEW g \in Handlers \ {h}, request[g].at \in {"find", "write"},
                 NEW d \in Dates, d = request[g].day \/ request[g].who \in AnyDay
          PROVE  row'[request[g].who][d].st # "SUCCESS"
      <3>1. row[request[g].who][d].st # "SUCCESS" /\ request[g].who \in Attendees
        BY <1>1, <2>1, RequestFields DEF EntryInv, NotYetIn, CheckedIn
      <3>2. QED BY <1>3, <3>1
    <2>2. QED BY <1>1, <2>1, NotYetInFramed DEF EntryInv
  <1>7. inside' = [inside EXCEPT ![w] = [inside[w] EXCEPT ![x] = 0]]
    BY <1>1, <1>2 DEF WriteVoid, TypeOK
  <1>8. inside[w] \in [Dates -> Nat] /\ inside[w][x] \in {0, 1}
    <2>1. inside[w] \in [Dates -> Nat] /\ inside[w][x] \in Nat
      BY <1>1 DEF TypeOK
    <2>2. inside[w][x] <= 1
      BY DEF EntryInv, AdmittedOnce
    <2>3. QED BY <2>1, <2>2
  <1>9. CASE inside[w][x] = 0
    <2>1. [inside[w] EXCEPT ![x] = 0] = inside[w]
      BY <1>8, <1>9
    <2>2. UNCHANGED inside
      BY <1>1, <1>7, <2>1 DEF TypeOK
    <2>3. QED BY <1>1, <1>4, <1>5, <1>6, <2>2 DEF EntryInv
  <1>10. CASE inside[w][x] = 1
    <2>1. inside' = [inside EXCEPT ![w][x] = 0]
      BY <1>1, <1>7 DEF TypeOK
    <2>2. Entry!Reverse(w, x)
      BY <1>10, <2>1 DEF Entry!Reverse
    <2>3. QED BY <1>4, <1>5, <1>6, <2>2 DEF EntryInv, Entry!Next
  <1>11. QED BY <1>8, <1>9, <1>10

LEMMA CrashEntry ==
    ASSUME EntryInv, RowInv', NEW h \in Handlers, Crash(h)
    PROVE  EntryInv' /\ UNCHANGED inside
  BY IdleOK, EntryInvMemory DEF Crash, Finish

(* A key runs out only when its holder is gone. *)
LEMMA OutsideEntry ==
    ASSUME Reliable, EntryInv, RowInv',
           \/ \E a \in Attendees, s \in Statuses : SetStatus(a, s)
           \/ \E g \in Gates : SwitchGate(g)
           \/ \E k \in Keys : Expire(k)
    PROVE  EntryInv' /\ UNCHANGED inside
  <1>1. UNCHANGED <<row, request, inside>>
    BY DEF SetStatus, SwitchGate, Expire
  <1>2. NotYetIn' /\ NoDesk' /\ AdmittedOnce'
    BY <1>1 DEF EntryInv, NotYetIn, NoDesk, AdmittedOnce, CheckedIn
  <1>3. Exclusive'
    <2> SUFFICES ASSUME NEW g \in Handlers, Working(g)
                 PROVE  lock'[LockKey(request[g])] = g
      BY <1>1 DEF EntryInv, Exclusive, Working, LockKey
    <2>1. PICK j \in Keys : j = LockKey(request[g])
      BY WorkingKey DEF EntryInv, RowInv
    <2>2. request[g].locked /\ lock[j] = g
      BY <2>1 DEF EntryInv, Exclusive
    <2>3. CASE UNCHANGED lock
      BY <2>1, <2>2, <2>3
    <2>4. CASE \E k \in Keys : Expire(k)
      <3>1. PICK k \in Keys : Expire(k)
        BY <2>4
      <3>2. HolderAtWork(j)
        BY <2>1, <2>2 DEF HolderAtWork
      <3>3. k # j
        BY <3>1, <3>2 DEF Expire, Reliable
      <3>4. lock'[j] = lock[j]
        BY <3>1, <3>3 DEF Expire, EntryInv, RowInv, TypeOK
      <3>5. QED BY <2>1, <2>2, <3>4
    <2>5. QED BY <2>3, <2>4 DEF SetStatus, SwitchGate
  <1>4. QED BY <1>1, <1>2, <1>3 DEF EntryInv

LEMMA InitEntry == Init => EntryInv /\ Entry!Init
  <1>1. Init => RowInv
    BY InitRow
  <1>2. Init => Exclusive /\ NotYetIn /\ NoDesk
    BY IdleOK DEF Init, Exclusive, Working, NotYetIn, NoDesk
  <1>3. Init => AdmittedOnce /\ Entry!Init
    BY DEF Init, AdmittedOnce, Entry!Init
  <1>4. QED BY <1>1, <1>2, <1>3 DEF EntryInv

LEMMA NextEntry ==
    ASSUME Reliable, EntryInv, [Next]_vars
    PROVE  EntryInv' /\ [Entry!Next]_inside
  <1>1. RowInv'
    BY NextRow DEF EntryInv
  <1>2. CASE UNCHANGED vars
    BY <1>1, <1>2 DEF vars, EntryInv, Exclusive, Working, NotYetIn, NoDesk, AdmittedOnce,
                      CheckedIn, LockKey
  <1>3. ASSUME NEW h \in Handlers, NEW a \in Attendees, NEW d \in Dates,
               \/ BeginVoid(h, a, d)
               \/ \E g \in Gates : BeginScan(h, a, g, d) \/ BeginDesk(h, a, g, d)
        PROVE  EntryInv' /\ UNCHANGED inside
    BY <1>1, <1>3, BeginEntry
  <1>4. ASSUME NEW h \in Handlers, Step(h)
        PROVE  EntryInv' /\ (UNCHANGED inside \/ Entry!Next)
    <2>1. ~WriteDesk(h)
      BY DEF WriteDesk, EntryInv, NoDesk
    <2>2. QED BY <1>1, <1>4, <2>1, ScanReadsEntry, WriteScanEntry, WriteVoidEntry DEF Step
  <1>5. ASSUME NEW h \in Handlers, Crash(h) PROVE EntryInv' /\ UNCHANGED inside
    BY <1>1, <1>5, CrashEntry
  <1>6. QED BY <1>1, <1>2, <1>3, <1>4, <1>5, OutsideEntry DEF Next

(* With the lock of redis.service.ts at work, an admission is granted once *)
(* per pass and date, once in all for an Any Day pass, until reversed.     *)
THEOREM AdmittedOnceWithLock == ASSUME Reliable PROVE Spec => []AdmittedOnce
  <1>1. Init => EntryInv
    BY InitEntry
  <1>2. EntryInv /\ [Next]_vars => EntryInv'
    BY NextEntry
  <1>3. EntryInv => AdmittedOnce
    BY DEF EntryInv
  <1>4. QED BY <1>1, <1>2, <1>3, PTL DEF Spec

(* processCheckin with its lock and its reversals grants exactly what the  *)
(* abstract gate grants, for every number of scanners and restarts.        *)
THEOREM ScansImplementGateEntry == ASSUME Reliable PROVE Spec => ImplementsGateEntry
  <1>1. Init => EntryInv /\ Entry!Init
    BY InitEntry
  <1>2. EntryInv /\ [Next]_vars => EntryInv' /\ [Entry!Next]_inside
    BY NextEntry
  <1>3. QED BY <1>1, <1>2, PTL DEF Spec, ImplementsGateEntry, Entry!Spec
=============================================================================

------------------------------ MODULE Checkin ------------------------------
(***************************************************************************)
(* Admission at the gates: processCheckin of apps/api/src/checkin/         *)
(* checkin.service.ts with the lock of redis.service.ts, and the help      *)
(* desk's manualCheckin and voidCheckin of helpdesk.service.ts.            *)
(*                                                                         *)
(* A handler's reads before its lock or transaction are one step; inside   *)
(* a transaction every statement is a step, because at READ COMMITTED each *)
(* sees what has been committed before it.  The date of a scan is whatever *)
(* the settings name when it starts, or the date a super administrator     *)
(* simulates, so any date may come.  Refusals that precede every read of   *)
(* a check-in (rate limit, unknown token, gate assignment, VIP gate) leave *)
(* the tables alone: the scan just does not begin.                         *)
(***************************************************************************)
EXTENDS Integers, FiniteSets

CONSTANTS Attendees, Dates, Gates,
          Handlers,   \* requests in flight
          AnyDay,     \* attendees with an Any Day pass
          Employees,  \* attendees linked to an employee
          Booked,     \* booking days of the others; empty means every date
          Limited,    \* gates with capacityEnabled and blockWhenFull
          Capacity,   \* total_capacity of those
          Statuses,   \* attendee statuses administrators set
          Desk,       \* manual check-ins happen
          Voids,      \* reversals happen
          Lossy,      \* Redis may be down, and a lock outlive its 5 seconds
          MaxCrashes, \* bound: requests lost to a restart
          Nobody

AttendeeStatus == {"ACTIVE", "PENDING", "SUSPENDED", "REVOKED"}

ASSUME PassesAssumption == /\ AnyDay \subseteq Attendees /\ Employees \subseteq Attendees
                           /\ Booked \in [Attendees -> SUBSET Dates]
ASSUME GatesAssumption == Limited \subseteq Gates /\ Capacity \in Nat
ASSUME SwitchesAssumption == /\ {Desk, Voids, Lossy} \subseteq BOOLEAN
                             /\ Statuses \subseteq AttendeeStatus /\ MaxCrashes \in Nat
ASSUME FiniteAssumption == IsFiniteSet(Attendees) /\ IsFiniteSet(Handlers)
ASSUME NobodyAssumption == Nobody \notin Attendees \cup Dates \cup Gates \cup Handlers

VARIABLES status,  \* attendees.status
          row,     \* daily_checkins: at most one row per attendee and date
          open,    \* gates where event control lets people be scanned
          lock,    \* the request whose token each lock:checkin key holds
          request, \* requests between two of their steps
          inside,  \* history: entries granted since the last reversal
          crashes

vars == <<status, row, open, lock, request, inside, crashes>>

Row     == {x \in [st : {"none", "SUCCESS", "VOIDED"}, gate : Gates \cup {Nobody}] :
              x.st # "none" => x.gate # Nobody}
Places  == {"idle", "lock", "check", "find", "write", "deskFind", "deskWrite", "void"}
(* locked: the scan got its token; seen: what the transaction last read    *)
(* of the row; status: the attendee's, read before a reversal.             *)
Request == [at : Places, who : Attendees \cup {Nobody}, gate : Gates \cup {Nobody},
            day : Dates \cup {Nobody}, locked : BOOLEAN,
            seen : {"none", "SUCCESS", "VOIDED"}, status : AttendeeStatus]
(* A key without a date is an Any Day pass's. *)
Keys == Attendees \X (Dates \cup {Nobody})

Idle == [at |-> "idle", who |-> Nobody, gate |-> Nobody, day |-> Nobody,
         locked |-> FALSE, seen |-> "none", status |-> "ACTIVE"]
NoRow == [st |-> "none", gate |-> Nobody]

(* Rows, locks and requests are well formed; a handler in flight knows the *)
(* pass, the date and, except for a reversal, the gate.                    *)
TypeOK == /\ status \in [Attendees -> AttendeeStatus]
          /\ row \in [Attendees -> [Dates -> Row]]
          /\ open \subseteq Gates
          /\ lock \in [Keys -> Handlers \cup {Nobody}]
          /\ request \in [Handlers -> Request]
          /\ \A h \in Handlers : LET r == request[h] IN
               /\ r.at # "idle" => r.who \in Attendees /\ r.day \in Dates
               /\ r.at \notin {"idle", "void"} => r.gate \in Gates
          /\ inside \in [Attendees -> [Dates -> Nat]]
          /\ crashes \in 0..MaxCrashes

Init == /\ status = [a \in Attendees |-> "ACTIVE"]
        /\ row = [a \in Attendees |-> [d \in Dates |-> NoRow]]
        /\ open = Gates
        /\ lock = [k \in Keys |-> Nobody]
        /\ request = [h \in Handlers |-> Idle]
        /\ inside = [a \in Attendees |-> [d \in Dates |-> 0]]
        /\ crashes = 0

-----------------------------------------------------------------------------
(* Helpers *)

CheckedIn(a, d) == row[a][d].st = "SUCCESS"

Idling(h) == request[h].at = "idle"
Go(h, r)  == request' = [request EXCEPT ![h] = r]
Finish(h) == Go(h, Idle)

(* Mutant: an Any Day pass is locked date by date like the others. *)
LockKeyByDate(r) == <<r.who, r.day>>

LockKey(r) == <<r.who, IF r.who \in AnyDay THEN Nobody ELSE r.day>>

(* releaseLock deletes the key only while it holds the request's own token.*)
Released(h) == IF request[h].locked /\ lock[LockKey(request[h])] = h
                 THEN [lock EXCEPT ![LockKey(request[h])] = Nobody] ELSE lock

(* The request answers, and its finally block releases the lock. *)
Answer(h) == Finish(h) /\ lock' = Released(h)

CountAt(g, d) == Cardinality({a \in Attendees : CheckedIn(a, d) /\ row[a][d].gate = g})

(* Mutant: the gate counts as full one entry too late. *)
HasRoomTooLate(g, d) == g \in Limited => CountAt(g, d) <= Capacity

HasRoom(g, d) == g \in Limited => CountAt(g, d) < Capacity

(* The desk takes capacity 0 for no limit. *)
DeskHasRoom(g, d) == Capacity = 0 \/ HasRoom(g, d)

ScanDateOK(a, d) == a \in AnyDay \/ Booked[a] = {} \/ d \in Booked[a]
(* The desk looks at the booking of employees and their families only. *)
DeskDateOK(a, d) == a \in Employees => Booked[a] = {} \/ d \in Booked[a]

(* Mutant: the UPDATE after a reversal leaves the gate out. *)
AdmitNowhere(r) == /\ row' = [row EXCEPT ![r.who][r.day] =
                                [st |-> "SUCCESS",
                                 gate |-> IF r.seen = "VOIDED" THEN Nobody ELSE r.gate]]
                   /\ inside' = [inside EXCEPT ![r.who][r.day] = @ + 1]

(* The row becomes SUCCESS at the gate: one more entry is granted. *)
Admit(r) == /\ row' = [row EXCEPT ![r.who][r.day] = [st |-> "SUCCESS", gate |-> r.gate]]
            /\ inside' = [inside EXCEPT ![r.who][r.day] = @ + 1]

(* Mutant: a unique violation is answered as a success. *)
WriteRowRegardless(r) == IF r.seen = "none" /\ row[r.who][r.day].st # "none"
                           THEN /\ inside' = [inside EXCEPT ![r.who][r.day] = @ + 1]
                                /\ UNCHANGED row
                           ELSE Admit(r)

(* UPDATE of the row found, or INSERT, which the unique index refuses when *)
(* another transaction has inserted meanwhile.                             *)
WriteRow(r) == IF r.seen = "none" /\ row[r.who][r.day].st # "none"
                 THEN UNCHANGED <<row, inside>> ELSE Admit(r)

-----------------------------------------------------------------------------
(* processCheckin *)

(* Event control, gate, capacity, pass and booking are read. *)
BeginScan(h, a, g, d) ==
  /\ Idling(h)
  /\ g \in open /\ HasRoom(g, d)
  /\ status[a] = "ACTIVE" /\ ScanDateOK(a, d)
  /\ Go(h, [at |-> "lock", who |-> a, gate |-> g, day |-> d,
            locked |-> FALSE, seen |-> "none", status |-> "ACTIVE"])
  /\ UNCHANGED <<status, row, open, lock, inside, crashes>>

(* Mutant: SET without NX. *)
AcquireLockAnyway(h) ==
  LET r == request[h] IN
  /\ r.at = "lock"
  /\ lock' = [lock EXCEPT ![LockKey(r)] = h]
  /\ Go(h, [r EXCEPT !.at = "check", !.locked = TRUE])
  /\ UNCHANGED <<status, row, open, inside, crashes>>

(* SET NX: ACQUIRED. *)
AcquireLock(h) ==
  LET r == request[h] IN
  /\ r.at = "lock" /\ lock[LockKey(r)] = Nobody
  /\ lock' = [lock EXCEPT ![LockKey(r)] = h]
  /\ Go(h, [r EXCEPT !.at = "check", !.locked = TRUE])
  /\ UNCHANGED <<status, row, open, inside, crashes>>

(* HELD: the scan is answered ALREADY_CHECKED_IN. *)
LockHeld(h) ==
  LET r == request[h] IN
  /\ r.at = "lock" /\ lock[LockKey(r)] # Nobody
  /\ Finish(h)
  /\ UNCHANGED <<status, row, open, lock, inside, crashes>>

(* UNAVAILABLE: the scan goes on without a lock. *)
LockUnavailable(h) ==
  /\ Lossy /\ request[h].at = "lock"
  /\ Go(h, [request[h] EXCEPT !.at = "check"])
  /\ UNCHANGED <<status, row, open, lock, inside, crashes>>

(* First read of the transaction: a SUCCESS row of the date, or of any     *)
(* date for an Any Day pass, makes the scan a duplicate.                   *)
CheckExisting(h) ==
  LET r == request[h] IN
  /\ r.at = "check"
  /\ IF \E d \in Dates : (d = r.day \/ r.who \in AnyDay) /\ CheckedIn(r.who, d)
       THEN Answer(h)
       ELSE Go(h, [r EXCEPT !.at = "find"]) /\ UNCHANGED lock
  /\ UNCHANGED <<status, row, open, inside, crashes>>

(* Second read: any row of the date, to update instead of insert. *)
FindRecord(h) ==
  LET r == request[h] IN
  /\ r.at = "find"
  /\ Go(h, [r EXCEPT !.at = "write", !.seen = row[r.who][r.day].st])
  /\ UNCHANGED <<status, row, open, lock, inside, crashes>>

(* A violation of the unique index is answered ALREADY_CHECKED_IN. *)
WriteScan(h) ==
  /\ request[h].at = "write"
  /\ WriteRow(request[h]) /\ Answer(h)
  /\ UNCHANGED <<status, open, crashes>>

-----------------------------------------------------------------------------
(* manualCheckin: no lock, and the duplicate guard before the transaction *)

BeginDesk(h, a, g, d) ==
  /\ Desk /\ Idling(h)
  /\ g \in open /\ DeskHasRoom(g, d)
  /\ status[a] = "ACTIVE" /\ DeskDateOK(a, d)
  /\ ~CheckedIn(a, d)
  /\ Go(h, [at |-> "deskFind", who |-> a, gate |-> g, day |-> d,
            locked |-> FALSE, seen |-> "none", status |-> "ACTIVE"])
  /\ UNCHANGED <<status, row, open, lock, inside, crashes>>

FindForDesk(h) ==
  LET r == request[h] IN
  /\ r.at = "deskFind"
  /\ Go(h, [r EXCEPT !.at = "deskWrite", !.seen = row[r.who][r.day].st])
  /\ UNCHANGED <<status, row, open, lock, inside, crashes>>

WriteDesk(h) ==
  /\ request[h].at = "deskWrite"
  /\ WriteRow(request[h]) /\ Finish(h)
  /\ UNCHANGED <<status, open, lock, crashes>>

-----------------------------------------------------------------------------
(* voidCheckin *)

(* The check-in and its attendee are read before the transaction. *)
BeginVoid(h, a, d) ==
  /\ Voids /\ Idling(h)
  /\ CheckedIn(a, d)
  /\ Go(h, [Idle EXCEPT !.at = "void", !.who = a, !.day = d, !.status = status[a]])
  /\ UNCHANGED <<status, row, open, lock, inside, crashes>>

(* No other row of the date can remain SUCCESS: there is only this one. *)
WriteVoid(h) ==
  LET r == request[h] IN
  /\ r.at = "void"
  /\ row' = [row EXCEPT ![r.who][r.day].st = "VOIDED"]
  /\ inside' = [inside EXCEPT ![r.who][r.day] = 0]
  /\ status' = [status EXCEPT ![r.who] =
                  IF r.status \in {"SUSPENDED", "REVOKED"} THEN @ ELSE "ACTIVE"]
  /\ Finish(h)
  /\ UNCHANGED <<open, lock, crashes>>

-----------------------------------------------------------------------------
(* Administrators, time and restarts *)

SetStatus(a, s) ==
  /\ s # status[a]
  /\ status' = [status EXCEPT ![a] = s]
  /\ UNCHANGED <<row, open, lock, request, inside, crashes>>

(* Opening or pausing a gate, closing the event, an emergency stop. *)
SwitchGate(g) ==
  /\ open' = IF g \in open THEN open \ {g} ELSE open \cup {g}
  /\ UNCHANGED <<status, row, lock, request, inside, crashes>>

(* The request that holds the key is still at work under it. *)
HolderAtWork(k) == \E h \in Handlers : lock[k] = h /\ request[h].locked /\ LockKey(request[h]) = k

(* Mutant: the lock is set without a time to live. *)
ExpireNever(k) == FALSE /\ UNCHANGED vars

(* The key's 5 seconds are over. *)
Expire(k) ==
  /\ lock[k] # Nobody /\ (Lossy \/ ~HolderAtWork(k))
  /\ lock' = [lock EXCEPT ![k] = Nobody]
  /\ UNCHANGED <<status, row, open, request, inside, crashes>>

(* The process restarts: nothing of the transaction stays, but the key.    *)
Crash(h) ==
  /\ ~Idling(h) /\ crashes < MaxCrashes
  /\ crashes' = crashes + 1
  /\ Finish(h)
  /\ UNCHANGED <<status, row, open, lock, inside>>

-----------------------------------------------------------------------------
Step(h) == \/ AcquireLock(h) \/ LockHeld(h) \/ LockUnavailable(h)
           \/ CheckExisting(h) \/ FindRecord(h) \/ WriteScan(h)
           \/ FindForDesk(h) \/ WriteDesk(h) \/ WriteVoid(h)

Next == \/ \E h \in Handlers :
             \/ \E a \in Attendees, d \in Dates :
                  \/ BeginVoid(h, a, d)
                  \/ \E g \in Gates : BeginScan(h, a, g, d) \/ BeginDesk(h, a, g, d)
             \/ Step(h)
             \/ Crash(h)
        \/ \E a \in Attendees, s \in Statuses : SetStatus(a, s)
        \/ \E g \in Gates : SwitchGate(g)
        \/ \E k \in Keys : Expire(k)

Spec == Init /\ [][Next]_vars

(* Requests go on until they answer, keys run out, and a visitor who is    *)
(* turned away presents the pass again.                                    *)
Fairness == /\ \A h \in Handlers : WF_vars(Step(h))
            /\ \A k \in Keys : WF_vars(Expire(k))
            /\ \A a \in Attendees, d \in Dates :
                 SF_vars(\E h \in Handlers, g \in Gates : BeginScan(h, a, g, d))

FairSpec == Spec /\ Fairness

-----------------------------------------------------------------------------
(* One entry per pass and date until it is reversed, where the lock works  *)
(* and the desk, which takes none, is closed.                              *)
AdmittedOnce == \A a \in Attendees, d \in Dates : inside[a][d] <= 1

(* The counts of the reports miss nobody: whoever was let in and not       *)
(* reversed has a SUCCESS row, and nobody else has.                        *)
EntriesRecorded == \A a \in Attendees, d \in Dates : CheckedIn(a, d) <=> inside[a][d] > 0

Entry == INSTANCE GateEntry

(* Scanners with a reliable lock, with reversals and restarts at any       *)
(* moment, grant exactly the entries the abstract gate grants.             *)
ImplementsGateEntry == Entry!Spec

(* A full gate lets in no more than the scans that were in flight together *)
(* when its last place was free: capacity checks overshoot, but by a bound *)
(* that does not grow with the queue.                                      *)
OvershootBounded ==
  Capacity > 0 => \A g \in Limited, d \in Dates :
                    CountAt(g, d) <= Capacity + Cardinality(Handlers) - 1

(* "Do NOT resurrect a SUSPENDED or REVOKED attendee back to ACTIVE" *)
VoidKeepsSuspension ==
  [][\A h \in Handlers : WriteVoid(h) =>
       \A a \in Attendees : status[a] # "ACTIVE" => status'[a] = status[a]]_vars

CanEnter(a, d) == /\ status[a] = "ACTIVE" /\ ScanDateOK(a, d)
                  /\ \E g \in open : HasRoom(g, d)

(* A visitor whose pass stays valid at an open gate with room gets in in   *)
(* the end, also when a request died holding the pass's lock.              *)
VisitorGetsIn ==
  \A a \in Attendees, d \in Dates :
    <>[]CanEnter(a, d) => <>(\E e \in Dates : CheckedIn(a, e))
=============================================================================

------------------------- MODULE EventControlProofs -------------------------
(***************************************************************************)
(* What EventControl keeps for every set of attendees, gates and requests. *)
(*                                                                         *)
(* That a stop holds rests on the order of its writes: a request is barred *)
(* only while the stop itself is set (BarredWhileStopped), so what it      *)
(* reads of the stop first decides, whatever becomes of the scanning       *)
(* switch afterwards.                                                      *)
(***************************************************************************)
EXTENDS EventControl, TLAPS

USE HandlerAssumption, NowhereAssumption, BoundAssumption

Tables ==
  /\ set \in Settings /\ legacy \in BOOLEAN
  /\ gate \in [Gates -> GateRow]
  /\ entry \in [Attendees -> Gates \cup {Nowhere}]
  /\ \A a \in Attendees : entry[a] # Nowhere => Exists(entry[a])
  /\ logged \subseteq {g \in Gates : Exists(g)}
  /\ entries \in [Attendees -> 0..MaxEntries]
  /\ erased \in [Attendees -> 0..MaxEntries]
  /\ over \in [Attendees -> 0..MaxEntries]
  /\ expect \in [known : BOOLEAN, set : Settings]
  /\ faults \in 0..MaxFaults
  /\ EntriesAccounted

(* What handler h may remember: doors enter, administrators do the rest;   *)
(* past the read of the stop a barred request knows of it, unless it read  *)
(* the old key; a removal not forced has counted no entry.                 *)
Good(h, j) ==
  /\ j \in Job
  /\ h \in Doors => j.at \in Entering \cup {"idle"}
  /\ h \in Admins => j.at \notin Entering /\ ~j.barred
  /\ j.at \in Entering => \E a \in Attendees, g \in Gates : j.who = {a} /\ j.gates = {g}
  /\ j.at = "scanning" /\ j.barred => j.flag \/ (j.manual /\ legacy)
  /\ j.at \in {"gate", "check", "enter"} /\ j.barred => j.manual /\ legacy
  /\ j.at = "remove" /\ ~j.force => j.counted = {}

BarredWhileStopped == \A h \in Handlers : job[h].barred => set.emergency

SafeInv == /\ Tables
           /\ job \in [Handlers -> Job]
           /\ \A h \in Handlers : Good(h, job[h])
           /\ BarredWhileStopped

-----------------------------------------------------------------------------
(* Facts about handlers *)

LEMMA IdleGood ==
    ASSUME NEW h \in Handlers
    PROVE  Good(h, Idle) /\ ~Idle.barred /\ Idle.at = "idle"
  BY DEF Good, Idle, Job, Entering, Controls, Handlers

(* A step of one handler: the tables stay good, a stop stays set.          *)
LEMMA SafeFramed ==
    ASSUME SafeInv, Tables', UNCHANGED legacy, NEW h \in Handlers, NEW j, Go(h, j), Good(h, j),
           j.barred => set'.emergency, set.emergency => set'.emergency
    PROVE  SafeInv'
  <1>1. job' \in [Handlers -> Job]
    BY DEF SafeInv, Go, Good
  <1>2. job'[h] = j /\ \A k \in Handlers \ {h} : job'[k] = job[k]
    BY DEF SafeInv, Go
  <1>3. \A k \in Handlers : Good(k, job[k])'
    <2> SUFFICES ASSUME NEW k \in Handlers PROVE Good(k, job[k])'
      OBVIOUS
    <2>1. Good(k, job'[k])
      <3>1. CASE k = h
        BY <1>2, <3>1
      <3>2. CASE k # h
        BY <1>2, <3>2 DEF SafeInv
      <3>3. QED BY <3>1, <3>2
    <2>2. QED BY <2>1 DEF Good
  <1>4. BarredWhileStopped'
    <2> SUFFICES ASSUME NEW k \in Handlers, job'[k].barred PROVE set'.emergency
      BY DEF BarredWhileStopped
    <2>1. CASE k = h
      BY <1>2, <2>1
    <2>2. CASE k # h
      BY <1>2, <2>2 DEF SafeInv, BarredWhileStopped
    <2>3. QED BY <2>1, <2>2
  <1>5. QED BY <1>1, <1>3, <1>4 DEF SafeInv

(* A step that writes no table but the logs of existing gates.             *)
LEMMA SafeMemory ==
    ASSUME SafeInv, NEW h \in Handlers, NEW j, Go(h, j), Good(h, j), j.barred => set.emergency,
           UNCHANGED <<set, legacy, gate, entry, entries, erased, over>>,
           logged' \subseteq {g \in Gates : Exists(g)},
           expect' \in [known : BOOLEAN, set : Settings], faults' \in 0..MaxFaults
    PROVE  SafeInv'
  <1>1. Tables'
    BY DEF SafeInv, Tables, Exists, EntriesAccounted
  <1>2. QED BY <1>1, SafeFramed

(* Being refused. *)
LEMMA SafeRefused ==
    ASSUME SafeInv, NEW h \in Handlers, Refuse(h),
           UNCHANGED <<set, legacy, gate, entry, entries, erased, over, expect, faults>>
    PROVE  SafeInv'
  <1>1. logged' \subseteq {g \in Gates : Exists(g)}
    BY DEF Refuse, SafeInv, Tables, Good, Job
  <1>2. Go(h, Idle)
    BY DEF Refuse, Finish
  <1>3. expect' \in [known : BOOLEAN, set : Settings] /\ faults' \in 0..MaxFaults
    BY DEF SafeInv, Tables
  <1>4. QED BY <1>1, <1>2, <1>3, IdleGood, SafeMemory

LEMMA OutcomeType ==
    ASSUME NEW s \in Settings, NEW c \in Controls
    PROVE  Outcome(c, s) \in Settings
  BY DEF Outcome, Settings, Controls

LEMMA ExpectType ==
    ASSUME SafeInv, NEW h \in Handlers, NEW c \in Controls, Expect(h, c)
    PROVE  expect' \in [known : BOOLEAN, set : Settings]
  BY OutcomeType DEF Expect, SafeInv, Tables, Unknown, Normal, Settings

LEMMA SafeInit == Init => SafeInv
  <1> SUFFICES ASSUME Init PROVE SafeInv
    OBVIOUS
  <1>1. Tables
    BY DEF Init, Tables, Normal, Settings, GateRow, NoGate, EntriesAccounted
  <1>2. \A h \in Handlers : job[h] = Idle
    BY DEF Init
  <1>3. job \in [Handlers -> Job] /\ \A h \in Handlers : Good(h, job[h])
    BY <1>2, IdleGood DEF Init, Good
  <1>4. BarredWhileStopped
    BY <1>2, IdleGood DEF BarredWhileStopped
  <1>5. QED BY <1>1, <1>3, <1>4 DEF SafeInv

-----------------------------------------------------------------------------
(* Every step keeps it *)

LEMMA EntryBegins ==
    ASSUME SafeInv, NEW h \in Doors, NEW a \in Attendees, NEW g \in Gates, NEW manual \in BOOLEAN,
           BeginEntry(h, a, g, manual)
    PROVE  SafeInv'
  <1>1. PICK j : j = [Idle EXCEPT !.at = "status", !.who = {a}, !.gates = {g},
                                  !.manual = manual, !.barred = set.emergency]
    OBVIOUS
  <1>2. /\ j.at = "status" /\ j.who = {a} /\ j.gates = {g} /\ j.barred = set.emergency
        /\ set.emergency \in BOOLEAN
    BY <1>1 DEF Idle, SafeInv, Tables, Settings
  <1>3. j \in Job
    BY <1>1, <1>2 DEF Idle, Job, Entering
  <1>4. Good(h, j)
    BY <1>2, <1>3 DEF Good, Entering
  <1>5. Go(h, j) /\ h \in Handlers
    BY <1>1 DEF BeginEntry, Handlers
  <1>6. QED BY <1>2, <1>4, <1>5, SafeMemory DEF BeginEntry, SafeInv, Tables

(* The door's steps before its write. *)
LEMMA DoorReads ==
    ASSUME SafeInv, NEW h \in Handlers,
           \/ ReadStatus(h) \/ ReadEmergency(h) \/ ReadScanning(h)
           \/ (\E g \in Gates : ReadGate(h, g)) \/ \E a \in Attendees : CheckEntry(h, a)
    PROVE  SafeInv'
  <1> DEFINE j == job[h]
  <1>1. /\ Good(h, j) /\ (j.barred => set.emergency) /\ set.emergency \in BOOLEAN
        /\ logged \subseteq {g \in Gates : Exists(g)}
        /\ expect \in [known : BOOLEAN, set : Settings] /\ faults \in 0..MaxFaults
    BY DEF SafeInv, Tables, BarredWhileStopped, Settings
  <1>2. j.at \in Entering /\ UNCHANGED <<set, legacy, gate, entry, entries, erased, over, expect, faults>>
    BY DEF ReadStatus, ReadEmergency, ReadScanning, ReadGate, CheckEntry, Entering
  <1>3. CASE Refuse(h)
    BY <1>2, <1>3, SafeRefused
  <1>4. ASSUME NEW r, Go(h, r), UNCHANGED logged, Good(h, r), r.barred = j.barred
        PROVE  SafeInv'
    BY <1>1, <1>2, <1>4, SafeMemory
  <1>5. CASE ReadStatus(h) /\ ~Refuse(h)
    <2>1. PICK r : r = [j EXCEPT !.at = "emergency"]
      OBVIOUS
    <2>2. Go(h, r) /\ UNCHANGED logged /\ r.barred = j.barred
      BY <1>1, <1>5, <2>1 DEF ReadStatus, Good, Job
    <2>3. Good(h, r)
      BY <1>1, <1>2, <2>1 DEF Good, Job, Entering
    <2>4. QED BY <1>4, <2>2, <2>3
  <1>6. CASE ReadEmergency(h) /\ ~Refuse(h)
    <2>1. PICK stopped \in BOOLEAN :
             /\ stopped = set.emergency \/ (j.manual /\ legacy)
             /\ Go(h, [j EXCEPT !.at = "scanning", !.flag = stopped]) /\ UNCHANGED logged
      BY <1>1, <1>6 DEF ReadEmergency
    <2>2. PICK r : r = [j EXCEPT !.at = "scanning", !.flag = stopped]
      OBVIOUS
    <2>3. Go(h, r) /\ r.barred = j.barred /\ r.flag = stopped /\ r.manual = j.manual
      BY <1>1, <2>1, <2>2 DEF Good, Job
    <2>4. Good(h, r)
      BY <1>1, <1>2, <2>1, <2>2, <2>3 DEF Good, Job, Entering
    <2>5. QED BY <1>4, <2>1, <2>3, <2>4
  <1>7. CASE ReadScanning(h) /\ ~Refuse(h)
    <2>1. PICK r : r = [j EXCEPT !.at = "gate"]
      OBVIOUS
    <2>2. Go(h, r) /\ UNCHANGED logged /\ r.barred = j.barred /\ ~j.flag /\ j.at = "scanning"
      BY <1>1, <1>7, <2>1 DEF ReadScanning, Good, Job
    <2>3. Good(h, r)
      BY <1>1, <1>2, <2>1, <2>2 DEF Good, Job, Entering
    <2>4. QED BY <1>4, <2>2, <2>3
  <1>8. CASE (\E g \in Gates : ReadGate(h, g)) /\ ~Refuse(h)
    <2>1. PICK r : r = [j EXCEPT !.at = IF j.manual THEN "check" ELSE "enter"]
      OBVIOUS
    <2>2. Go(h, r) /\ UNCHANGED logged /\ r.barred = j.barred /\ j.at = "gate"
      BY <1>1, <1>8, <2>1 DEF ReadGate, Good, Job
    <2>3. Good(h, r)
      BY <1>1, <1>2, <2>1, <2>2 DEF Good, Job, Entering
    <2>4. QED BY <1>4, <2>2, <2>3
  <1>9. CASE \E a \in Attendees : CheckEntry(h, a)
    <2>1. PICK a \in Attendees : CheckEntry(h, a)
      BY <1>9
    <2>2. CASE Finish(h)
      BY <1>1, <1>2, <2>1, <2>2, IdleGood, SafeMemory DEF Finish, CheckEntry
    <2>3. CASE ~Finish(h)
      <3>1. PICK r : r = [j EXCEPT !.at = "enter"]
        OBVIOUS
      <3>2. Go(h, r) /\ UNCHANGED logged /\ r.barred = j.barred /\ j.at = "check"
        BY <1>1, <2>1, <2>3, <3>1 DEF CheckEntry, Good, Job
      <3>3. Good(h, r)
        BY <1>1, <1>2, <3>1, <3>2 DEF Good, Job, Entering
      <3>4. QED BY <1>4, <3>2, <3>3
    <2>4. QED BY <2>2, <2>3
  <1>10. QED BY <1>3, <1>5, <1>6, <1>7, <1>8, <1>9

LEMMA EntryWritten ==
    ASSUME SafeInv, NEW h \in Handlers, NEW a \in Attendees, NEW g \in Gates, Enter(h, a, g)
    PROVE  SafeInv'
  <1> DEFINE free == entry[a] = Nowhere
  <1>1. CASE ~(Exists(g) /\ (free \/ job[h].manual))
    BY <1>1, SafeRefused DEF Enter
  <1>2. CASE Exists(g) /\ (free \/ job[h].manual)
    <2>1. /\ Exists(g) /\ entries[a] < MaxEntries
          /\ entry' = [entry EXCEPT ![a] = g]
          /\ entries' = [entries EXCEPT ![a] = @ + 1]
          /\ over' = IF free THEN over ELSE [over EXCEPT ![a] = @ + 1]
          /\ logged' = logged \cup {g} /\ Go(h, Idle)
          /\ UNCHANGED <<set, legacy, gate, erased, expect, faults>>
      BY <1>2 DEF Enter, Write, Finish
    <2>2. \A b \in Attendees : /\ entries[b] \in 0..MaxEntries /\ erased[b] \in 0..MaxEntries
                               /\ over[b] \in 0..MaxEntries
      BY DEF SafeInv, Tables
    <2>3. \A b \in Attendees : /\ entries'[b] \in 0..MaxEntries /\ over'[b] \in 0..MaxEntries
                               /\ entries'[b] = erased'[b] + over'[b]
                                                  + (IF entry'[b] = Nowhere THEN 0 ELSE 1)
      <3> SUFFICES ASSUME NEW b \in Attendees
                   PROVE  /\ entries'[b] \in 0..MaxEntries /\ over'[b] \in 0..MaxEntries
                          /\ entries'[b] = erased'[b] + over'[b]
                                             + (IF entry'[b] = Nowhere THEN 0 ELSE 1)
        OBVIOUS
      <3>1. entries[b] = erased[b] + over[b] + (IF entry[b] = Nowhere THEN 0 ELSE 1)
        BY DEF SafeInv, Tables, EntriesAccounted
      <3>2. CASE b # a
        BY <2>1, <2>2, <3>1, <3>2 DEF SafeInv, Tables
      <3>3. CASE b = a /\ free
        BY <2>1, <2>2, <3>1, <3>3 DEF SafeInv, Tables
      <3>4. CASE b = a /\ ~free
        <4>1. over'[b] = over[b] + 1 /\ entries'[b] = entries[b] + 1 /\ entry'[b] = g
          BY <2>1, <3>4 DEF SafeInv, Tables
        <4>2. QED BY <2>1, <2>2, <3>1, <3>4, <4>1
      <3>5. QED BY <3>2, <3>3, <3>4
    <2>4. entries' \in [Attendees -> 0..MaxEntries] /\ over' \in [Attendees -> 0..MaxEntries]
      BY <2>1, <2>3 DEF SafeInv, Tables
    <2>5. /\ entry' \in [Attendees -> Gates \cup {Nowhere}]
          /\ (\A b \in Attendees : entry[b] # Nowhere => Exists(entry[b]))'
      BY <2>1 DEF SafeInv, Tables, Exists
    <2>6. Tables'
      BY <2>1, <2>3, <2>4, <2>5 DEF SafeInv, Tables, Exists, EntriesAccounted
    <2>7. QED BY <2>1, <2>6, IdleGood, SafeFramed
  <1>3. QED BY <1>1, <1>2

(* Toggles and the stop: no gate and no entry changes.                     *)
LEMMA ControlSteps ==
    ASSUME SafeInv, NEW k \in Handlers, NEW j, Go(k, j), Good(k, j), ~j.barred,
           set' \in Settings, set.emergency => set'.emergency,
           expect' \in [known : BOOLEAN, set : Settings],
           UNCHANGED <<legacy, gate, entry, logged, entries, erased, over, faults>>
    PROVE  SafeInv'
  <1>1. Tables'
    BY DEF SafeInv, Tables, Exists, EntriesAccounted
  <1>2. QED BY <1>1, SafeFramed

LEMMA AdminNotDoor ==
    ASSUME NEW k \in Admins
    PROVE  k \in Handlers /\ k \notin Doors
  BY DEF Handlers

LEMMA ControlsBegin ==
    ASSUME SafeInv, NEW k \in Admins,
           (\E c \in Controls : BeginToggle(k, c)) \/ EmergencyStop(k)
    PROVE  SafeInv'
  <1>1. set \in Settings /\ set.closed \in BOOLEAN /\ set.scanning \in BOOLEAN
    BY DEF SafeInv, Tables, Settings
  <1>2. CASE \E c \in Controls : BeginToggle(k, c)
    <2>1. PICK c \in Controls : BeginToggle(k, c)
      BY <1>2
    <2>2. PICK j : j = [Idle EXCEPT !.at = c,
                          !.flag = IF c = "toggleStatus" THEN set.closed ELSE set.scanning]
      OBVIOUS
    <2>3. Good(k, j) /\ ~j.barred
      BY <1>1, <2>2, AdminNotDoor DEF Good, Idle, Job, Entering, Controls
    <2>4. Go(k, j) /\ expect' \in [known : BOOLEAN, set : Settings]
      BY <2>1, <2>2, AdminNotDoor, ExpectType DEF BeginToggle
    <2>5. QED BY <1>1, <2>1, <2>3, <2>4, AdminNotDoor, ControlSteps DEF BeginToggle
  <1>3. CASE EmergencyStop(k)
    <2>1. PICK j : j = [Idle EXCEPT !.at = "emergencyStop"]
      OBVIOUS
    <2>2. Good(k, j) /\ ~j.barred
      BY <2>1, AdminNotDoor DEF Good, Idle, Job, Entering, Controls
    <2>3. Go(k, j) /\ expect' \in [known : BOOLEAN, set : Settings]
      BY <1>3, <2>1, AdminNotDoor, ExpectType DEF EmergencyStop, Controls
    <2>4. set' \in Settings /\ set'.emergency
      BY <1>1, <1>3 DEF EmergencyStop, Settings
    <2>5. QED BY <1>3, <2>2, <2>3, <2>4, AdminNotDoor, ControlSteps DEF EmergencyStop
  <1>4. QED BY <1>2, <1>3

LEMMA ControlsWrite ==
    ASSUME SafeInv, NEW k \in Handlers, WriteToggle(k) \/ WriteScanning(k)
    PROVE  SafeInv'
  <1>1. set \in Settings /\ job[k] \in Job /\ expect \in [known : BOOLEAN, set : Settings]
    BY DEF SafeInv, Tables
  <1>2. set' \in Settings /\ set'.emergency = set.emergency
    BY <1>1 DEF WriteToggle, WriteScanning, Settings, Job
  <1>3. Go(k, Idle) /\ UNCHANGED <<legacy, gate, entry, logged, entries, erased, over, expect, faults>>
    BY DEF WriteToggle, WriteScanning, Finish
  <1>4. QED BY <1>1, <1>2, <1>3, IdleGood, ControlSteps

(* A resume lets the requests at the doors go. *)
LEMMA ResumeStep ==
    ASSUME SafeInv, NEW k \in Admins, EmergencyResume(k)
    PROVE  SafeInv'
  <1>1. expect' \in [known : BOOLEAN, set : Settings]
    BY AdminNotDoor, ExpectType DEF EmergencyResume, Controls
  <1>2. Tables'
    <2>1. set' \in Settings
      BY DEF EmergencyResume, SafeInv, Tables, Settings
    <2>2. QED BY <1>1, <2>1 DEF EmergencyResume, SafeInv, Tables, Exists, EntriesAccounted
  <1>3. PICK r : r = [Idle EXCEPT !.at = "emergencyResume"]
    OBVIOUS
  <1>4. Good(k, r) /\ ~r.barred
    BY <1>3, AdminNotDoor DEF Good, Idle, Job, Entering, Controls
  <1>5. \A h \in Handlers : job'[h] = IF h = k THEN r ELSE [job[h] EXCEPT !.barred = FALSE]
    BY <1>3 DEF EmergencyResume
  <1>6. \A h \in Handlers : Good(h, job'[h]) /\ ~job'[h].barred
    <2> SUFFICES ASSUME NEW h \in Handlers PROVE Good(h, job'[h]) /\ ~job'[h].barred
      OBVIOUS
    <2>1. CASE h = k
      BY <1>4, <1>5, <2>1
    <2>2. CASE h # k
      <3>1. job'[h] = [job[h] EXCEPT !.barred = FALSE] /\ Good(h, job[h])
        BY <1>5, <2>2 DEF SafeInv
      <3>2. PICK q : q = job'[h]
        OBVIOUS
      <3>3. q \in Job /\ ~q.barred /\ q = [job[h] EXCEPT !.barred = FALSE]
        BY <3>1, <3>2 DEF Good, Job
      <3>4. QED BY <3>1, <3>2, <3>3 DEF Good, Job
    <2>3. QED BY <2>1, <2>2
  <1>7. \A h \in Handlers : Good(h, job[h])'
    BY <1>6 DEF Good, EmergencyResume
  <1>8. job' \in [Handlers -> Job]
    <2>1. job' = [h \in Handlers |-> job'[h]]
      BY DEF EmergencyResume
    <2>2. QED BY <1>6, <2>1 DEF Good
  <1>9. QED BY <1>2, <1>6, <1>7, <1>8 DEF SafeInv, BarredWhileStopped

(* A gate comes or changes, none goes. *)
LEMMA GateKept ==
    ASSUME SafeInv, NEW g \in Gates, NEW row \in GateRow, row.st \in {"ACTIVE", "INACTIVE"},
           gate' = [gate EXCEPT ![g] = row],
           UNCHANGED <<set, legacy, entry, logged, entries, erased, over, expect, faults>>
    PROVE  Tables'
  <1>1. gate' \in [Gates -> GateRow] /\ \A x \in Gates : Exists(x) => Exists(x)'
    BY DEF SafeInv, Tables, Exists
  <1>2. QED BY <1>1 DEF SafeInv, Tables, EntriesAccounted

LEMMA SafeStill ==
    ASSUME SafeInv, Tables', UNCHANGED <<set, legacy, job>>
    PROVE  SafeInv'
  BY DEF SafeInv, Good, BarredWhileStopped

LEMMA GateForms ==
    ASSUME SafeInv, NEW g \in Gates,
           \/ Create(g)
           \/ \E st \in {"ACTIVE", "INACTIVE"}, b, p \in BOOLEAN : Update(g, st, b, p)
    PROVE  SafeInv'
  <1>1. gate \in [Gates -> GateRow]
    BY DEF SafeInv, Tables
  <1>2. PICK row \in GateRow : row.st \in {"ACTIVE", "INACTIVE"} /\ gate' = [gate EXCEPT ![g] = row]
    <2>1. CASE Create(g)
      BY <1>1, <2>1 DEF Create, GateRow
    <2>2. CASE \E st \in {"ACTIVE", "INACTIVE"}, b, p \in BOOLEAN : Update(g, st, b, p)
      BY <2>2 DEF Update, GateRow
    <2>3. QED BY <2>1, <2>2
  <1>3. UNCHANGED <<set, legacy, entry, logged, job, entries, erased, over, expect, faults>>
    BY DEF Create, Update
  <1>4. QED BY <1>2, <1>3, GateKept, SafeStill

(* Reads of a gate's flag, and a removal's count. *)
LEMMA AdminReads ==
    ASSUME SafeInv, NEW k \in Admins,
           \/ \E g \in Gates : BeginToggleGate(k, g)
           \/ \E gs \in SUBSET Gates, b \in BOOLEAN : BeginRemove(k, gs, b)
    PROVE  SafeInv'
  <1>1. /\ expect \in [known : BOOLEAN, set : Settings] /\ faults \in 0..MaxFaults
        /\ logged \subseteq {g \in Gates : Exists(g)} /\ gate \in [Gates -> GateRow]
    BY DEF SafeInv, Tables
  <1>2. ASSUME NEW j, Go(k, j), Good(k, j), ~j.barred,
               UNCHANGED <<set, legacy, gate, entry, logged, entries, erased, over, expect, faults>>
        PROVE  SafeInv'
    BY <1>1, <1>2, AdminNotDoor, SafeMemory
  <1>3. CASE \E g \in Gates : BeginToggleGate(k, g)
    <2>1. PICK g \in Gates : BeginToggleGate(k, g)
      BY <1>3
    <2>2. PICK j : /\ Go(k, j)
                   /\ \/ j = [Idle EXCEPT !.at = "toggleGate", !.gates = {g}, !.flag = gate[g].open]
                      \/ j = [Idle EXCEPT !.at = "toggleActive", !.gates = {g},
                                          !.flag = (gate[g].st = "ACTIVE")]
      BY <2>1 DEF BeginToggleGate
    <2>3. gate[g].open \in BOOLEAN
      BY <1>1 DEF GateRow
    <2>4. j \in Job /\ j.at \in {"toggleGate", "toggleActive"} /\ ~j.barred
      <3>1. CASE j = [Idle EXCEPT !.at = "toggleGate", !.gates = {g}, !.flag = gate[g].open]
        BY <2>3, <3>1 DEF Idle, Job
      <3>2. CASE j = [Idle EXCEPT !.at = "toggleActive", !.gates = {g},
                                  !.flag = (gate[g].st = "ACTIVE")]
        BY <3>2 DEF Idle, Job
      <3>3. QED BY <2>2, <3>1, <3>2
    <2>5. Good(k, j)
      BY <2>4, AdminNotDoor DEF Good, Entering
    <2>6. QED BY <1>2, <2>1, <2>2, <2>4, <2>5 DEF BeginToggleGate
  <1>4. CASE \E gs \in SUBSET Gates, b \in BOOLEAN : BeginRemove(k, gs, b)
    <2>1. PICK gs \in SUBSET Gates, b \in BOOLEAN : BeginRemove(k, gs, b)
      BY <1>4
    <2>2. PICK old : old = {g \in gs : HasHistory(g) /\ ~b}
      OBVIOUS
    <2>3. PICK c : c = UNION {Inside(g) : g \in gs \ old}
      OBVIOUS
    <2>4. c \subseteq Attendees /\ (~b => c = {})
      BY <2>2, <2>3 DEF Inside, HasHistory
    <2>5. PICK j : j = [Idle EXCEPT !.at = "remove", !.kept = old, !.force = b,
                                    !.gates = gs \ old, !.counted = c]
      OBVIOUS
    <2>6. Good(k, j) /\ ~j.barred
      BY <2>2, <2>4, <2>5, AdminNotDoor DEF Good, Idle, Job, Entering, Controls
    <2>7. Go(k, j)
      BY <2>1, <2>2, <2>3, <2>5 DEF BeginRemove
    <2>8. QED BY <1>2, <2>1, <2>6, <2>7 DEF BeginRemove
  <1>5. QED BY <1>3, <1>4

(* A gate's flag is written, or a gate with a history is deactivated.      *)
LEMMA GateWrites ==
    ASSUME SafeInv, NEW k \in Handlers, NEW g \in Gates, WriteToggleGate(k, g) \/ Deactivate(k, g)
    PROVE  SafeInv'
  <1>1. /\ gate \in [Gates -> GateRow] /\ job[k] \in Job /\ Good(k, job[k])
        /\ (job[k].barred => set.emergency)
    BY DEF SafeInv, Tables, BarredWhileStopped
  <1>2. UNCHANGED <<set, legacy, entry, logged, entries, erased, over, expect, faults>>
    BY DEF WriteToggleGate, Deactivate
  <1>3. Tables'
    <2>1. CASE gate' = gate
      BY <1>2, <2>1 DEF SafeInv, Tables, Exists, EntriesAccounted
    <2>2. CASE gate' # gate
      <3>1. PICK row \in GateRow : /\ row.st \in {"ACTIVE", "INACTIVE"}
                                   /\ gate' = [gate EXCEPT ![g] = row]
        <4>1. CASE WriteToggleGate(k, g)
          BY <1>1, <2>2, <4>1 DEF WriteToggleGate, GateRow, Job, Exists
        <4>2. CASE Deactivate(k, g)
          BY <1>1, <2>2, <4>2 DEF Deactivate, GateRow, Exists
        <4>3. QED BY <4>1, <4>2
      <3>2. QED BY <1>2, <3>1, GateKept
    <2>3. QED BY <2>1, <2>2
  <1>4. CASE Go(k, Idle)
    BY <1>2, <1>3, <1>4, IdleGood, SafeFramed
  <1>5. CASE ~Go(k, Idle)
    <2>1. PICK j : j = [job[k] EXCEPT !.kept = @ \ {g}]
      OBVIOUS
    <2>2. Go(k, j)
      BY <1>5, <2>1 DEF WriteToggleGate, Deactivate, Finish
    <2>3. j \in Job
      BY <1>1, <2>1 DEF Job
    <2>4. Good(k, j) /\ j.barred = job[k].barred
      BY <1>1, <2>1, <2>3 DEF Good, Job
    <2>5. QED BY <1>1, <1>2, <1>3, <2>2, <2>4, SafeFramed
  <1>6. QED BY <1>4, <1>5

(* The entries a removal takes are the ones it writes down.                *)
LEMMA GatesRemoved ==
    ASSUME SafeInv, NEW k \in Handlers, Remove(k)
    PROVE  SafeInv'
  <1> DEFINE gs == {g \in job[k].gates : Exists(g)}
             out == {a \in Attendees : entry[a] \in gs}
  <1>1. /\ gate' = [g \in Gates |-> IF g \in gs THEN [NoGate EXCEPT !.st = "gone"] ELSE gate[g]]
        /\ entry' = [a \in Attendees |-> IF a \in out THEN Nowhere ELSE entry[a]]
        /\ erased' = [a \in Attendees |-> IF a \in out THEN erased[a] + 1 ELSE erased[a]]
        /\ logged' = logged \ gs /\ Go(k, Idle)
        /\ UNCHANGED <<set, legacy, entries, over, expect, faults>>
    BY DEF Remove, Finish
  <1>2. /\ gate \in [Gates -> GateRow] /\ entry \in [Attendees -> Gates \cup {Nowhere}]
        /\ entries \in [Attendees -> 0..MaxEntries] /\ erased \in [Attendees -> 0..MaxEntries]
        /\ over \in [Attendees -> 0..MaxEntries]
        /\ logged \subseteq {g \in Gates : Exists(g)} /\ EntriesAccounted
        /\ \A a \in Attendees : entry[a] # Nowhere => Exists(entry[a])
    BY DEF SafeInv, Tables
  <1>3. \A g \in Gates \ gs : gate'[g] = gate[g]
    BY <1>1
  <1>4. gate' \in [Gates -> GateRow]
    <2>1. [NoGate EXCEPT !.st = "gone"] \in GateRow
      BY DEF NoGate, GateRow
    <2>2. QED BY <1>1, <1>2, <2>1
  <1>5. \A g \in Gates : Exists(g) /\ g \notin gs => Exists(g)'
    BY <1>3 DEF Exists
  <1>6. /\ entry' \in [Attendees -> Gates \cup {Nowhere}]
        /\ logged' \subseteq {g \in Gates : Exists(g)'}
        /\ \A a \in Attendees : entry'[a] # Nowhere => Exists(entry[a])' /\ entry'[a] = entry[a]
    BY <1>1, <1>2, <1>5
  <1>7. \A a \in Attendees : /\ erased'[a] \in 0..MaxEntries
                             /\ entries[a] = erased'[a] + over[a] + (IF entry'[a] = Nowhere THEN 0 ELSE 1)
    <2> SUFFICES ASSUME NEW a \in Attendees
                 PROVE  /\ erased'[a] \in 0..MaxEntries
                        /\ entries[a] = erased'[a] + over[a] + (IF entry'[a] = Nowhere THEN 0 ELSE 1)
      OBVIOUS
    <2>1. /\ entries[a] \in 0..MaxEntries /\ erased[a] \in 0..MaxEntries /\ over[a] \in 0..MaxEntries
          /\ entries[a] = erased[a] + over[a] + (IF entry[a] = Nowhere THEN 0 ELSE 1)
      BY <1>2 DEF EntriesAccounted
    <2>2. CASE a \in out
      <3>1. entry[a] # Nowhere /\ entry'[a] = Nowhere /\ erased'[a] = erased[a] + 1
        BY <1>1, <2>2, NowhereAssumption DEF SafeInv, Job
      <3>2. QED BY <2>1, <3>1
    <2>3. CASE a \notin out
      BY <1>1, <2>1, <2>3
    <2>4. QED BY <2>2, <2>3
  <1>8. erased' \in [Attendees -> 0..MaxEntries]
    BY <1>1, <1>7
  <1>9. (\A a \in Attendees : entry[a] # Nowhere => Exists(entry[a]))'
    BY <1>6 DEF Exists
  <1>10. Tables'
    BY <1>1, <1>4, <1>6, <1>7, <1>8, <1>9 DEF SafeInv, Tables, Exists, EntriesAccounted
  <1>11. QED BY <1>1, <1>10, IdleGood, SafeFramed

LEMMA Lost ==
    ASSUME SafeInv, NEW k \in Admins, Lose(k)
    PROVE  SafeInv'
  <1>1. /\ expect' \in [known : BOOLEAN, set : Settings] /\ faults' \in 0..MaxFaults
        /\ logged \subseteq {g \in Gates : Exists(g)}
    BY DEF Lose, SafeInv, Tables, Unknown, Normal, Settings
  <1>2. Go(k, Idle) /\ UNCHANGED <<set, legacy, gate, entry, logged, entries, erased, over>>
    BY DEF Lose, Finish
  <1>3. QED BY <1>1, <1>2, AdminNotDoor, IdleGood, SafeMemory

(* The invariant is inductive. *)
LEMMA SafeNext == SafeInv /\ [Next]_vars => SafeInv'
  <1> SUFFICES ASSUME SafeInv, [Next]_vars PROVE SafeInv'
    OBVIOUS
  <1>1. CASE \E d \in Doors, a \in Attendees, g \in Gates, b \in BOOLEAN : BeginEntry(d, a, g, b)
    BY <1>1, EntryBegins
  <1>2. ASSUME NEW k \in Admins,
               \/ \E c \in Controls : BeginToggle(k, c)
               \/ EmergencyStop(k) \/ EmergencyResume(k)
               \/ \E g \in Gates : BeginToggleGate(k, g)
               \/ \E gs \in SUBSET Gates, b \in BOOLEAN : BeginRemove(k, gs, b)
               \/ Lose(k)
        PROVE  SafeInv'
    BY <1>2, ControlsBegin, ResumeStep, AdminReads, Lost
  <1>3. ASSUME NEW g \in Gates,
               \/ Create(g)
               \/ \E st \in {"ACTIVE", "INACTIVE"}, b, p \in BOOLEAN : Update(g, st, b, p)
        PROVE  SafeInv'
    BY <1>3, GateForms
  <1>4. ASSUME NEW h \in Handlers, Step(h) PROVE SafeInv'
    BY <1>4, DoorReads, EntryWritten, ControlsWrite, GateWrites, GatesRemoved DEF Step
  <1>5. CASE UNCHANGED vars
    BY <1>5 DEF SafeInv, Tables, Good, Exists, EntriesAccounted, BarredWhileStopped, vars
  <1>6. QED BY <1>1, <1>2, <1>3, <1>4, <1>5 DEF Next

LEMMA SafeAlways == Spec => []SafeInv
  BY SafeInit, SafeNext, PTL DEF Spec

-----------------------------------------------------------------------------
(* Every row and every request in flight is well formed, and every entry's *)
(* gate exists, whatever removals come between a scan's reads and its      *)
(* write.                                                                  *)
THEOREM TypeCorrect == Spec => []TypeOK
  <1>1. SafeInv => TypeOK
    BY DEF SafeInv, Tables, Good, TypeOK
  <1>2. QED BY <1>1, SafeAlways, PTL

(* A stop holds against every request that comes during it, but for a help *)
(* desk that may read the old key.                                         *)
THEOREM StopAlwaysHolds == Spec => []StopHolds
  <1>1. SafeInv => StopHolds
    BY DEF SafeInv, Good, StopHolds, Handlers
  <1>2. QED BY <1>1, SafeAlways, PTL

(* Every entry granted is on record or went with its gate.                 *)
THEOREM EntriesAlwaysAccounted == Spec => []EntriesAccounted
  <1>1. SafeInv => EntriesAccounted
    BY DEF SafeInv, Tables
  <1>2. QED BY <1>1, SafeAlways, PTL

-----------------------------------------------------------------------------
(* Only a removal takes an entry. *)
LEMMA EntriesTaken ==
    ASSUME SafeInv, [Next]_vars, NEW a \in Attendees, entry[a] # Nowhere, entry'[a] = Nowhere
    PROVE  \E k \in Handlers : job[k].at = "remove" /\ entry[a] \in job[k].gates
  <1>1. entry \in [Attendees -> Gates \cup {Nowhere}]
    BY DEF SafeInv, Tables
  <1>2. ASSUME NEW h \in Handlers, NEW b \in Attendees, NEW g \in Gates, Enter(h, b, g)
        PROVE  FALSE
    BY <1>1, <1>2, NowhereAssumption DEF Enter, Write
  <1>3. ASSUME UNCHANGED entry PROVE FALSE
    BY <1>3
  <1>4. ASSUME NEW h \in Handlers, Step(h) PROVE Remove(h)
    BY <1>2, <1>3, <1>4 DEF Step, ReadStatus, ReadEmergency, ReadScanning, ReadGate, CheckEntry,
          WriteToggleGate, Deactivate, WriteToggle, WriteScanning
  <1>5. PICK h \in Handlers : Remove(h)
    BY <1>3, <1>4 DEF Next, vars, BeginEntry, BeginToggle, EmergencyStop, EmergencyResume, BeginToggleGate,
          BeginRemove, Lose, Create, Update
  <1>6. QED BY <1>1, <1>5 DEF Remove

(* A removal that was not forced takes no entry it counted.                *)
THEOREM HistoryAlwaysKept == Spec => HistoryKept
  <1>1. ASSUME SafeInv, [Next]_vars, NEW a \in Attendees, entry[a] # Nowhere, entry'[a] = Nowhere
        PROVE  \E k \in Admins : /\ job[k].at = "remove" /\ entry[a] \in job[k].gates
                                 /\ job[k].force \/ a \notin job[k].counted
    <2>1. PICK k \in Handlers : job[k].at = "remove" /\ entry[a] \in job[k].gates
      BY <1>1, EntriesTaken
    <2>2. Good(k, job[k])
      BY <1>1 DEF SafeInv
    <2>3. k \in Admins
      BY <2>1, <2>2 DEF Good, Handlers, Entering
    <2>4. QED BY <2>1, <2>2, <2>3 DEF Good
  <1>2. SafeInv /\ [Next]_vars =>
          [\A a \in Attendees : entry[a] # Nowhere /\ entry'[a] = Nowhere =>
             \E k \in Admins : /\ job[k].at = "remove" /\ entry[a] \in job[k].gates
                               /\ job[k].force \/ a \notin job[k].counted]_vars
    BY <1>1
  <1>3. QED BY <1>2, SafeAlways, PTL DEF Spec, HistoryKept

-----------------------------------------------------------------------------
(* Controls in order *)

(* The settings once control k has written what it holds.                  *)
Written(k) ==
  CASE job[k].at = "toggleStatus"    -> [set EXCEPT !.closed = ~job[k].flag]
    [] job[k].at = "toggleScanning"  -> [set EXCEPT !.scanning = ~job[k].flag]
    [] job[k].at = "emergencyStop"   -> [set EXCEPT !.scanning = FALSE]
    [] job[k].at = "emergencyResume" -> [set EXCEPT !.scanning = TRUE]

(* While the outcome is known at most one control is under way, and what   *)
(* it has left to write leads there.                                       *)
OrderInv == expect.known =>
  /\ \A k, m \in Admins : Controlling(k) /\ Controlling(m) => k = m
  /\ \A k \in Admins : Controlling(k) => expect.set = Written(k)
  /\ (\A k \in Admins : ~Controlling(k)) => set = expect.set

(* A control begins: alone, its outcome is known.                          *)
LEMMA OrderBegins ==
    ASSUME SafeInv, NEW k \in Admins,
           (\E c \in Controls : BeginToggle(k, c)) \/ EmergencyStop(k) \/ EmergencyResume(k)
    PROVE  OrderInv'
  <1>1. PICK c \in Controls :
           /\ Expect(k, c) /\ job'[k].at = c
           /\ expect'.known => expect'.set = Outcome(c, set)
           /\ \A m \in Handlers \ {k} : job'[m].at = job[m].at /\ job'[m].flag = job[m].flag
    <2>1. job \in [Handlers -> Job] /\ k \in Handlers
      BY AdminNotDoor DEF SafeInv
    <2>2. CASE \E c \in Controls : BeginToggle(k, c)
      <3>1. PICK c \in Controls : BeginToggle(k, c)
        BY <2>2
      <3>2. Expect(k, c) /\ job'[k].at = c /\ \A m \in Handlers \ {k} : job'[m] = job[m]
        BY <2>1, <3>1 DEF BeginToggle, Go, Idle
      <3>3. QED BY <3>2 DEF Expect, Unknown
    <2>3. CASE EmergencyStop(k)
      BY <2>1, <2>3 DEF EmergencyStop, Go, Idle, Expect, Unknown, Controls
    <2>4. CASE EmergencyResume(k)
      BY <2>1, <2>4 DEF EmergencyResume, Idle, Expect, Unknown, Controls, Job
    <2>5. QED BY <2>2, <2>3, <2>4
  <1>2. SUFFICES ASSUME expect'.known PROVE OrderInv'
    BY DEF OrderInv
  <1>3. Alone(k) /\ expect'.set = Outcome(c, set)
    BY <1>1, <1>2 DEF Expect, Unknown
  <1>4. \A m \in Admins : Controlling(m)' => m = k
    BY <1>1, <1>3, AdminNotDoor DEF Alone, Controlling
  <1>5. Controlling(k)'
    BY <1>1 DEF Controlling
  <1>6. Written(k)' = Outcome(c, set)
    <2>1. /\ set \in Settings /\ job \in [Handlers -> Job] /\ k \in Handlers
      BY AdminNotDoor DEF SafeInv, Tables
    <2>2. CASE \E x \in Controls : BeginToggle(k, x)
      <3>1. PICK x \in Controls : BeginToggle(k, x)
        BY <2>2
      <3>2. /\ x = c /\ c \in {"toggleStatus", "toggleScanning"} /\ set' = set
            /\ job'[k].flag = IF c = "toggleStatus" THEN set.closed ELSE set.scanning
        BY <1>1, <2>1, <3>1 DEF BeginToggle, Go, Idle
      <3>3. QED BY <1>1, <2>1, <3>2 DEF Written, Outcome, Settings
    <2>3. CASE EmergencyStop(k)
      <3>1. c = "emergencyStop" /\ set' = [set EXCEPT !.emergency = TRUE]
        BY <1>1, <2>1, <2>3 DEF EmergencyStop, Go, Idle
      <3>2. QED BY <1>1, <2>1, <3>1 DEF Written, Outcome, Settings
    <2>4. CASE EmergencyResume(k)
      <3>1. c = "emergencyResume" /\ set' = [set EXCEPT !.emergency = FALSE]
        BY <1>1, <2>1, <2>4 DEF EmergencyResume, Idle
      <3>2. QED BY <1>1, <2>1, <3>1 DEF Written, Outcome, Settings
    <2>5. QED BY <2>2, <2>3, <2>4
  <1>7. QED BY <1>3, <1>4, <1>5, <1>6 DEF OrderInv

(* A step that is no control's leaves them where they were.                *)
LEMMA OrderStill ==
    ASSUME OrderInv, UNCHANGED <<set, expect>>,
           \A k \in Admins : \/ job'[k].at = job[k].at /\ job'[k].flag = job[k].flag
                             \/ ~Controlling(k) /\ ~Controlling(k)'
    PROVE  OrderInv'
  <1>1. \A k \in Admins : Controlling(k)' <=> Controlling(k)
    BY DEF Controlling
  <1>2. \A k \in Admins : Controlling(k) => Written(k)' = Written(k)
    BY DEF Written
  <1>3. QED BY <1>1, <1>2 DEF OrderInv

LEMMA OrderNext == SafeInv /\ OrderInv /\ [Next]_vars => OrderInv'
  <1> SUFFICES ASSUME SafeInv, OrderInv, [Next]_vars PROVE OrderInv'
    OBVIOUS
  <1> DEFINE Aside(h) == ~Controlling(h) /\ ~(job'[h].at \in Controls)
  <1>1. job \in [Handlers -> Job]
    BY DEF SafeInv
  <1>2. ASSUME NEW h \in Handlers, NEW j, Go(h, j), UNCHANGED <<set, expect>>,
               job[h].at \notin Controls, j.at \notin Controls
        PROVE  OrderInv'
    <2>1. job'[h] = j /\ \A k \in Handlers \ {h} : job'[k] = job[k]
      BY <1>1, <1>2 DEF Go
    <2>2. \A k \in Admins : \/ job'[k].at = job[k].at /\ job'[k].flag = job[k].flag
                            \/ ~Controlling(k) /\ ~Controlling(k)'
      BY <1>2, <2>1, AdminNotDoor DEF Controlling
    <2>3. QED BY <1>2, <2>2, OrderStill
  <1>3. CASE \E d \in Doors, a \in Attendees, g \in Gates, b \in BOOLEAN : BeginEntry(d, a, g, b)
    BY <1>2, <1>3 DEF BeginEntry, Idling, Idle, Controls, Handlers
  <1>4. ASSUME NEW k \in Admins,
               (\E c \in Controls : BeginToggle(k, c)) \/ EmergencyStop(k) \/ EmergencyResume(k)
        PROVE  OrderInv'
    BY <1>4, OrderBegins
  <1>5. ASSUME NEW k \in Admins,
               \/ \E g \in Gates : BeginToggleGate(k, g)
               \/ \E gs \in SUBSET Gates, b \in BOOLEAN : BeginRemove(k, gs, b)
        PROVE  OrderInv'
    <2>1. CASE \E g \in Gates : BeginToggleGate(k, g)
      BY <1>2, <2>1, AdminNotDoor DEF BeginToggleGate, Idling, Idle, Controls
    <2>2. CASE \E gs \in SUBSET Gates, b \in BOOLEAN : BeginRemove(k, gs, b)
      BY <1>2, <2>2, AdminNotDoor DEF BeginRemove, Idling, Idle, Controls
    <2>3. QED BY <1>5, <2>1, <2>2
  <1>6. ASSUME NEW k \in Admins, Lose(k) PROVE OrderInv'
    <2>1. CASE Controlling(k)
      BY <1>6, <2>1 DEF Lose, Unknown, OrderInv
    <2>2. CASE ~Controlling(k)
      BY <1>2, <1>6, <2>2, AdminNotDoor DEF Lose, Finish, Controlling, Idle, Controls
    <2>3. QED BY <2>1, <2>2
  <1>7. ASSUME NEW g \in Gates,
               \/ Create(g)
               \/ \E st \in {"ACTIVE", "INACTIVE"}, b, p \in BOOLEAN : Update(g, st, b, p)
        PROVE  OrderInv'
    BY <1>7, OrderStill DEF Create, Update
  <1>8. ASSUME NEW h \in Handlers, WriteToggle(h) \/ WriteScanning(h) PROVE OrderInv'
    <2>1. h \in Admins
      BY <1>8 DEF SafeInv, Good, WriteToggle, WriteScanning, Entering, Handlers
    <2>2. Controlling(h) /\ set' = Written(h) /\ expect' = expect
      BY <1>8 DEF WriteToggle, WriteScanning, Controlling, Controls, Written
    <2>3. ~Controlling(h)' /\ \A k \in Admins \ {h} : job'[k] = job[k]
      BY <1>1, <1>8, <2>1, AdminNotDoor
         DEF WriteToggle, WriteScanning, Finish, Go, Controlling, Controls, Idle
    <2>4. CASE expect.known
      <3>1. \A k \in Admins : ~Controlling(k)'
        BY <2>1, <2>2, <2>3, <2>4 DEF OrderInv, Controlling
      <3>2. set' = expect'.set
        BY <2>1, <2>2, <2>4 DEF OrderInv
      <3>3. QED BY <3>1, <3>2 DEF OrderInv
    <2>5. CASE ~expect.known
      BY <2>2, <2>5 DEF OrderInv
    <2>6. QED BY <2>4, <2>5
  <1>9. ASSUME NEW h \in Handlers, Step(h), ~WriteToggle(h), ~WriteScanning(h) PROVE OrderInv'
    <2>1. /\ UNCHANGED <<set, expect>> /\ job[h].at \notin Controls
          /\ \E j : Go(h, j) /\ j.at \notin Controls
      <3>1. job[h] \in Job
        BY <1>1
      <3>2. CASE ReadStatus(h) \/ ReadEmergency(h) \/ ReadScanning(h)
        <4>1. \A p \in {"emergency", "gate", "check", "enter"} : [job[h] EXCEPT !.at = p].at = p
          BY <3>1 DEF Job
        <4>2. \A b \in BOOLEAN : [job[h] EXCEPT !.at = "scanning", !.flag = b].at = "scanning"
          BY <3>1 DEF Job
        <4>3. set.emergency \in BOOLEAN
          BY DEF SafeInv, Tables, Settings
        <4>4. Idle.at \notin Controls /\ \A p \in {"emergency", "gate", "scanning", "check", "enter"} : p \notin Controls
          BY DEF Idle, Controls
        <4>5. CASE ReadStatus(h)
          BY <4>1, <4>4, <4>5 DEF ReadStatus, Refuse, Finish, Controls
        <4>6. CASE ReadEmergency(h)
          BY <4>2, <4>3, <4>4, <4>6 DEF ReadEmergency, Refuse, Finish, Controls
        <4>7. CASE ReadScanning(h)
          BY <4>1, <4>4, <4>7 DEF ReadScanning, Refuse, Finish, Controls
        <4>8. QED BY <3>2, <4>5, <4>6, <4>7
      <3>3. CASE \E g \in Gates : ReadGate(h, g) \/ WriteToggleGate(h, g) \/ Deactivate(h, g)
        BY <3>1, <3>3 DEF ReadGate, WriteToggleGate, Deactivate, Refuse, Finish, Idle, Controls, Job
      <3>4. CASE \E g \in Gates : \E a \in Attendees : Enter(h, a, g)
        BY <3>1, <3>4 DEF Enter, Refuse, Finish, Idle, Controls, Job
      <3>5. CASE Remove(h)
        BY <3>1, <3>5 DEF Remove, Finish, Idle, Controls
      <3>6. CASE \E a \in Attendees : CheckEntry(h, a)
        <4>1. [job[h] EXCEPT !.at = "enter"].at = "enter" /\ "enter" \notin Controls
          BY <3>1 DEF Job, Controls
        <4>2. /\ job[h].at = "check" /\ UNCHANGED <<set, expect>>
              /\ Go(h, [job[h] EXCEPT !.at = "enter"]) \/ Go(h, Idle)
          BY <3>6 DEF CheckEntry, Finish
        <4>3. Idle.at \notin Controls /\ "check" \notin Controls
          BY DEF Idle, Controls
        <4>4. QED BY <4>1, <4>2, <4>3
      <3>7. QED BY <1>9, <3>2, <3>3, <3>4, <3>5, <3>6 DEF Step
    <2>2. QED BY <1>2, <2>1
  <1>10. CASE UNCHANGED vars
    BY <1>10, OrderStill DEF vars
  <1>11. QED BY <1>3, <1>4, <1>5, <1>6, <1>7, <1>8, <1>9, <1>10 DEF Next

(* Controls that do not overlap and are not cut off leave the settings     *)
(* they answered.                                                          *)
THEOREM ControlsAlwaysInOrder == Spec => []ControlsInOrder
  <1>1. Init => OrderInv
    BY DEF Init, OrderInv, Controlling, Controls, Idle, Handlers
  <1>2. OrderInv => ControlsInOrder
    BY DEF OrderInv, ControlsInOrder
  <1>3. QED BY <1>1, <1>2, OrderNext, SafeAlways, PTL DEF Spec
=============================================================================

---------------------------- MODULE EventControl ----------------------------
(***************************************************************************)
(* The event's switches and its gates, and the entries they let through:   *)
(* event-control.service.ts, gates.service.ts, and what processCheckin of  *)
(* checkin.service.ts and manualCheckin of helpdesk.service.ts read of     *)
(* them before they write an entry.                                        *)
(*                                                                         *)
(* The switches are rows of the settings table, read and written one at a  *)
(* time; whatever a handler reads before it writes is a step of its own.   *)
(* One event date.  Who may use a gate, its capacity and the lock between  *)
(* two scans are in Checkin; here a scan that finds an entry is refused,   *)
(* at the write, and a help desk writes over one that came after its       *)
(* check.  A log of a scan keeps its gate alive like an entry does.        *)
(***************************************************************************)
EXTENDS Naturals, FiniteSets

CONSTANTS Attendees, Gates,
          Doors,      \* scanners' and help desks' requests
          Admins,     \* administrators' requests
          Nowhere,
          MaxEntries, \* bound: entries granted to an attendee
          MaxFaults   \* bound: administrators' requests lost half-way

ASSUME HandlerAssumption == Doors \cap Admins = {}
ASSUME NowhereAssumption == Nowhere \notin Gates
ASSUME BoundAssumption == MaxEntries \in Nat /\ MaxFaults \in Nat

Handlers == Doors \cup Admins
Settings == [closed : BOOLEAN, emergency : BOOLEAN, scanning : BOOLEAN]
GateRow == [st : {"none", "ACTIVE", "INACTIVE", "gone"}, open : BOOLEAN, paused : BOOLEAN]
Controls == {"toggleStatus", "toggleScanning", "emergencyStop", "emergencyResume"}
Entering == {"status", "emergency", "scanning", "gate", "check", "enter"}
(* flag: what the handler read; kept: gates to deactivate and not remove;  *)
(* manual: a help desk's entry.  History: barred, a stop was in force when *)
(* the request came and has been ever since; counted, the attendees whose  *)
(* entries a removal counted at the gates it takes.                        *)
Job == [at : {"idle", "toggleGate", "toggleActive", "remove"} \cup Entering \cup Controls,
        who : SUBSET Attendees, gates : SUBSET Gates, kept : SUBSET Gates, flag : BOOLEAN, force : BOOLEAN,
        manual : BOOLEAN, barred : BOOLEAN, counted : SUBSET Attendees]

VARIABLES set,     \* settings: event_control.*
          legacy,  \* the migration left a setting emergency_stop = 'false'
          gate,    \* gates
          entry,   \* daily_checkins: the gate of an attendee's entry
          logged,  \* gates that scan logs name
          job,     \* handlers between two of their steps
          entries, \* history: entries granted to each attendee
          erased,  \* history: entries a removed gate took with it
          over,    \* history: entries a help desk wrote over
          expect,  \* history: the settings if the controls came one by one
          faults

vars == <<set, legacy, gate, entry, logged, job, entries, erased, over, expect, faults>>

Idle == [at |-> "idle", who |-> {}, gates |-> {}, kept |-> {}, flag |-> FALSE, force |-> FALSE,
         manual |-> FALSE, barred |-> FALSE, counted |-> {}]
Normal == [closed |-> FALSE, emergency |-> FALSE, scanning |-> TRUE]
Unknown == [known |-> FALSE, set |-> Normal]
NoGate == [st |-> "none", open |-> TRUE, paused |-> FALSE]
Exists(g) == gate[g].st \in {"ACTIVE", "INACTIVE"}

(* Rows and handlers are well formed; an entry's gate exists (a foreign    *)
(* key); a request at the door is about one attendee and one gate.         *)
TypeOK == /\ set \in Settings /\ legacy \in BOOLEAN
          /\ gate \in [Gates -> GateRow]
          /\ entry \in [Attendees -> Gates \cup {Nowhere}]
          /\ \A a \in Attendees : entry[a] # Nowhere => Exists(entry[a])
          /\ logged \subseteq {g \in Gates : Exists(g)}
          /\ job \in [Handlers -> Job]
          /\ \A h \in Handlers : job[h].at \in Entering =>
               \E a \in Attendees, g \in Gates : job[h].who = {a} /\ job[h].gates = {g}
          /\ entries \in [Attendees -> 0..MaxEntries]
          /\ erased \in [Attendees -> 0..MaxEntries]
          /\ over \in [Attendees -> 0..MaxEntries]
          /\ expect \in [known : BOOLEAN, set : Settings]
          /\ faults \in 0..MaxFaults

Init == /\ set = Normal
        /\ legacy \in BOOLEAN
        /\ gate = [g \in Gates |-> NoGate]
        /\ entry = [a \in Attendees |-> Nowhere]
        /\ logged = {}
        /\ job = [h \in Handlers |-> Idle]
        /\ entries = [a \in Attendees |-> 0]
        /\ erased = [a \in Attendees |-> 0]
        /\ over = [a \in Attendees |-> 0]
        /\ expect = [known |-> TRUE, set |-> Normal]
        /\ faults = 0

-----------------------------------------------------------------------------
(* Helpers *)

Idling(h) == job[h].at = "idle"
Go(h, j)  == job' = [job EXCEPT ![h] = j]
Finish(h) == Go(h, Idle)
Inside(g) == {a \in Attendees : entry[a] = g}

(* Refused, with a scan log if the gate exists; a help desk's refusal is   *)
(* an error and logs nothing.                                              *)
Refuse(h) == /\ Finish(h)
             /\ logged' = IF job[h].manual THEN logged
                          ELSE logged \cup {g \in job[h].gates : Exists(g)}

-----------------------------------------------------------------------------
(* processCheckin and manualCheckin: the switches, the gate, the entry *)

BeginEntry(h, a, g, manual) ==
  /\ Idling(h)
  /\ Go(h, [Idle EXCEPT !.at = "status", !.who = {a}, !.gates = {g},
                        !.manual = manual, !.barred = set.emergency])
  /\ UNCHANGED <<set, legacy, gate, entry, logged, entries, erased, over, expect, faults>>

ReadStatus(h) ==
  /\ job[h].at = "status"
  /\ IF set.closed THEN Refuse(h) ELSE Go(h, [job[h] EXCEPT !.at = "emergency"]) /\ UNCHANGED logged
  /\ UNCHANGED <<set, legacy, gate, entry, entries, erased, over, expect, faults>>

(* The help desk asks for either of two keys and takes the row that comes  *)
(* first, which may be the old one.                                        *)
ReadEmergency(h) ==
  /\ job[h].at = "emergency"
  /\ \E stopped \in IF job[h].manual /\ legacy THEN {set.emergency, FALSE} ELSE {set.emergency} :
       IF job[h].manual /\ stopped
         THEN Refuse(h)
         ELSE Go(h, [job[h] EXCEPT !.at = "scanning", !.flag = stopped]) /\ UNCHANGED logged
  /\ UNCHANGED <<set, legacy, gate, entry, entries, erased, over, expect, faults>>

(* Mutant: only the setting the console shows is looked at. *)
ReadScanningOnly(h) ==
  /\ job[h].at = "scanning"
  /\ IF ~set.scanning THEN Refuse(h)
                      ELSE Go(h, [job[h] EXCEPT !.at = "gate"]) /\ UNCHANGED logged
  /\ UNCHANGED <<set, legacy, gate, entry, entries, erased, over, expect, faults>>

ReadScanning(h) ==
  /\ job[h].at = "scanning"
  /\ IF job[h].flag \/ ~set.scanning THEN Refuse(h)
                                     ELSE Go(h, [job[h] EXCEPT !.at = "gate"]) /\ UNCHANGED logged
  /\ UNCHANGED <<set, legacy, gate, entry, entries, erased, over, expect, faults>>

(* A scan does not look at the gate's status, the help desk does. *)
ReadGate(h, g) ==
  /\ job[h].at = "gate" /\ job[h].gates = {g}
  /\ IF /\ Exists(g) /\ gate[g].open /\ ~gate[g].paused
        /\ job[h].manual => gate[g].st = "ACTIVE"
       THEN /\ Go(h, [job[h] EXCEPT !.at = IF job[h].manual THEN "check" ELSE "enter"])
            /\ UNCHANGED logged
       ELSE Refuse(h)
  /\ UNCHANGED <<set, legacy, gate, entry, entries, erased, over, expect, faults>>

(* The help desk looks for an entry before its transaction ... *)
CheckEntry(h, a) ==
  /\ job[h].at = "check" /\ job[h].who = {a}
  /\ IF entry[a] = Nowhere THEN Go(h, [job[h] EXCEPT !.at = "enter"]) ELSE Finish(h)
  /\ UNCHANGED <<set, legacy, gate, entry, logged, entries, erased, over, expect, faults>>

Write(a, g) == /\ entries[a] < MaxEntries
               /\ entry' = [entry EXCEPT ![a] = g]
               /\ entries' = [entries EXCEPT ![a] = @ + 1]
               /\ over' = IF entry[a] = Nowhere THEN over ELSE [over EXCEPT ![a] = @ + 1]
               /\ logged' = logged \cup {g}

(* Mutant: a scan writes over an entry, too, and nobody notices. *)
EnterAgain(h, a, g) ==
  /\ job[h].at = "enter" /\ job[h].who = {a} /\ job[h].gates = {g}
  /\ IF Exists(g)
       THEN /\ entries[a] < MaxEntries
            /\ entry' = [entry EXCEPT ![a] = g]
            /\ entries' = [entries EXCEPT ![a] = @ + 1]
            /\ logged' = logged \cup {g}
            /\ Finish(h) /\ UNCHANGED over
       ELSE Refuse(h) /\ UNCHANGED <<entry, entries, over>>
  /\ UNCHANGED <<set, legacy, gate, erased, expect, faults>>

(* ... and in it updates whatever row there is; a scan inserts.  The row   *)
(* names a gate that exists, or the write fails.                           *)
Enter(h, a, g) ==
  /\ job[h].at = "enter" /\ job[h].who = {a} /\ job[h].gates = {g}
  /\ IF Exists(g) /\ (entry[a] = Nowhere \/ job[h].manual)
       THEN Write(a, g) /\ Finish(h)
       ELSE Refuse(h) /\ UNCHANGED <<entry, entries, over>>
  /\ UNCHANGED <<set, legacy, gate, erased, expect, faults>>

-----------------------------------------------------------------------------
(* The event's controls *)

Controlling(h) == job[h].at \in Controls
Alone(h) == \A k \in Admins \ {h} : ~Controlling(k)

(* What a control makes of the settings when nothing comes between.        *)
Outcome(control, s) ==
  CASE control = "toggleStatus"    -> [s EXCEPT !.closed = ~@]
    [] control = "toggleScanning"  -> [s EXCEPT !.scanning = ~@]
    [] control = "emergencyStop"   -> [s EXCEPT !.emergency = TRUE, !.scanning = FALSE]
    [] control = "emergencyResume" -> [s EXCEPT !.emergency = FALSE, !.scanning = TRUE]

Expect(h, control) ==
  expect' = IF Alone(h) THEN [known |-> TRUE, set |-> Outcome(control, set)] ELSE Unknown

(* A toggle reads the setting it negates ... *)
BeginToggle(k, control) ==
  /\ Idling(k) /\ control \in {"toggleStatus", "toggleScanning"}
  /\ Go(k, [Idle EXCEPT !.at = control,
              !.flag = IF control = "toggleStatus" THEN set.closed ELSE set.scanning])
  /\ Expect(k, control)
  /\ UNCHANGED <<set, legacy, gate, entry, logged, entries, erased, over, faults>>

(* Mutant: a toggle of the status always closes. *)
WriteToggleCloses(k) ==
  /\ job[k].at \in {"toggleStatus", "toggleScanning"}
  /\ set' = IF job[k].at = "toggleStatus" THEN [set EXCEPT !.closed = TRUE]
                                          ELSE [set EXCEPT !.scanning = ~job[k].flag]
  /\ Finish(k)
  /\ UNCHANGED <<legacy, gate, entry, logged, entries, erased, over, expect, faults>>

(* ... and writes what it negated. *)
WriteToggle(k) ==
  /\ job[k].at \in {"toggleStatus", "toggleScanning"}
  /\ set' = IF job[k].at = "toggleStatus" THEN [set EXCEPT !.closed = ~job[k].flag]
                                          ELSE [set EXCEPT !.scanning = ~job[k].flag]
  /\ Finish(k)
  /\ UNCHANGED <<legacy, gate, entry, logged, entries, erased, over, expect, faults>>

(* Stopping and resuming write the stop first ... *)
EmergencyStop(k) ==
  /\ Idling(k)
  /\ set' = [set EXCEPT !.emergency = TRUE]
  /\ Go(k, [Idle EXCEPT !.at = "emergencyStop"])
  /\ Expect(k, "emergencyStop")
  /\ UNCHANGED <<legacy, gate, entry, logged, entries, erased, over, faults>>

EmergencyResume(k) ==
  /\ Idling(k)
  /\ set' = [set EXCEPT !.emergency = FALSE]
  /\ job' = [h \in Handlers |-> IF h = k THEN [Idle EXCEPT !.at = "emergencyResume"]
                                         ELSE [job[h] EXCEPT !.barred = FALSE]]
  /\ Expect(k, "emergencyResume")
  /\ UNCHANGED <<legacy, gate, entry, logged, entries, erased, over, faults>>

(* ... then whether scanning is on, then the reason. *)
WriteScanning(k) ==
  /\ job[k].at \in {"emergencyStop", "emergencyResume"}
  /\ set' = [set EXCEPT !.scanning = (job[k].at = "emergencyResume")]
  /\ Finish(k)
  /\ UNCHANGED <<legacy, gate, entry, logged, entries, erased, over, expect, faults>>

-----------------------------------------------------------------------------
(* Gates *)

(* A gate of a name and number not in use; numbers are unique. *)
Create(g) ==
  /\ gate[g].st = "none"
  /\ gate' = [gate EXCEPT ![g] = [@ EXCEPT !.st = "ACTIVE"]]
  /\ UNCHANGED <<set, legacy, entry, logged, job, entries, erased, over, expect, faults>>

(* update, toggleOpen, toggleScanning: whatever the form says. *)
Update(g, st, open, paused) ==
  /\ Exists(g) /\ st \in {"ACTIVE", "INACTIVE"}
  /\ gate' = [gate EXCEPT ![g] = [st |-> st, open |-> open, paused |-> paused]]
  /\ UNCHANGED <<set, legacy, entry, logged, job, entries, erased, over, expect, faults>>

(* toggleGateOpen and toggleStatus read, negate and write. *)
BeginToggleGate(k, g) ==
  /\ Idling(k) /\ Exists(g)
  /\ \/ Go(k, [Idle EXCEPT !.at = "toggleGate", !.gates = {g}, !.flag = gate[g].open])
     \/ Go(k, [Idle EXCEPT !.at = "toggleActive", !.gates = {g}, !.flag = (gate[g].st = "ACTIVE")])
  /\ UNCHANGED <<set, legacy, gate, entry, logged, entries, erased, over, expect, faults>>

WriteToggleGate(k, g) ==
  LET j == job[k] IN
  /\ j.at \in {"toggleGate", "toggleActive"} /\ j.gates = {g}
  /\ gate' = IF ~Exists(g) THEN gate
             ELSE IF j.at = "toggleGate" THEN [gate EXCEPT ![g].open = ~j.flag]
             ELSE [gate EXCEPT ![g].st = IF j.flag THEN "INACTIVE" ELSE "ACTIVE"]
  /\ Finish(k)
  /\ UNCHANGED <<set, legacy, entry, logged, entries, erased, over, expect, faults>>

HasHistory(g) == Inside(g) # {} \/ g \in logged

(* Mutant: what was counted does not matter. *)
BeginRemoveAnyway(k, gs, force) ==
  /\ Idling(k) /\ gs # {} /\ \A g \in gs : Exists(g)
  /\ Go(k, [Idle EXCEPT !.at = "remove", !.force = force, !.gates = gs,
                        !.counted = UNION {Inside(g) : g \in gs}])
  /\ UNCHANGED <<set, legacy, gate, entry, logged, entries, erased, over, expect, faults>>

(* remove and bulkRemove count what hangs on each gate ... *)
BeginRemove(k, gs, force) ==
  LET old == {g \in gs : HasHistory(g) /\ ~force} IN
  /\ Idling(k) /\ gs # {} /\ \A g \in gs : Exists(g)
  /\ Go(k, [Idle EXCEPT !.at = "remove", !.kept = old, !.force = force, !.gates = gs \ old,
                        !.counted = UNION {Inside(g) : g \in gs \ old}])
  /\ UNCHANGED <<set, legacy, gate, entry, logged, entries, erased, over, expect, faults>>

(* ... deactivate those with a history, unless a super administrator       *)
(* insists (one gone meanwhile is an error and ends it) ...                *)
Deactivate(k, g) ==
  /\ job[k].at = "remove" /\ g \in job[k].kept
  /\ IF Exists(g) THEN /\ gate' = [gate EXCEPT ![g].st = "INACTIVE"]
                       /\ Go(k, [job[k] EXCEPT !.kept = @ \ {g}])
                  ELSE Finish(k) /\ UNCHANGED gate
  /\ UNCHANGED <<set, legacy, entry, logged, entries, erased, over, expect, faults>>

(* Mutant: the entries stay behind. *)
RemoveGateOnly(k) ==
  LET gs == {g \in job[k].gates : Exists(g)} IN
  /\ job[k].at = "remove" /\ job[k].kept = {}
  /\ gate' = [g \in Gates |-> IF g \in gs THEN [NoGate EXCEPT !.st = "gone"] ELSE gate[g]]
  /\ logged' = logged \ gs
  /\ Finish(k)
  /\ UNCHANGED <<set, legacy, entry, erased, over, entries, expect, faults>>

(* ... and the others go, with the entries then at them, in a transaction. *)
Remove(k) ==
  LET gs == {g \in job[k].gates : Exists(g)}
      out == {a \in Attendees : entry[a] \in gs} IN
  /\ job[k].at = "remove" /\ job[k].kept = {}
  /\ gate' = [g \in Gates |-> IF g \in gs THEN [NoGate EXCEPT !.st = "gone"] ELSE gate[g]]
  /\ entry' = [a \in Attendees |-> IF a \in out THEN Nowhere ELSE entry[a]]
  /\ erased' = [a \in Attendees |-> IF a \in out THEN erased[a] + 1 ELSE erased[a]]
  /\ logged' = logged \ gs
  /\ Finish(k)
  /\ UNCHANGED <<set, legacy, entries, over, expect, faults>>

-----------------------------------------------------------------------------
(* A restart, or a write that fails, between two settings. *)
Lose(k) ==
  /\ ~Idling(k) /\ faults < MaxFaults
  /\ Finish(k)
  /\ expect' = IF Controlling(k) THEN Unknown ELSE expect
  /\ faults' = faults + 1
  /\ UNCHANGED <<set, legacy, gate, entry, logged, entries, erased, over>>

-----------------------------------------------------------------------------
Step(h) == \/ ReadStatus(h) \/ ReadEmergency(h) \/ ReadScanning(h)
           \/ \E g \in Gates : \/ ReadGate(h, g) \/ WriteToggleGate(h, g) \/ Deactivate(h, g)
                              \/ \E a \in Attendees : Enter(h, a, g)
           \/ \E a \in Attendees : CheckEntry(h, a)
           \/ WriteToggle(h) \/ WriteScanning(h) \/ Remove(h)

Next == \/ \E d \in Doors, a \in Attendees, g \in Gates, b \in BOOLEAN : BeginEntry(d, a, g, b)
        \/ \E k \in Admins :
             \/ \E c \in Controls : BeginToggle(k, c)
             \/ EmergencyStop(k) \/ EmergencyResume(k)
             \/ \E g \in Gates : BeginToggleGate(k, g)
             \/ \E gs \in SUBSET Gates, b \in BOOLEAN : BeginRemove(k, gs, b)
             \/ Lose(k)
        \/ \E g \in Gates : \/ Create(g)
                           \/ \E st \in {"ACTIVE", "INACTIVE"}, b, p \in BOOLEAN : Update(g, st, b, p)
        \/ \E h \in Handlers : Step(h)

Spec == Init /\ [][Next]_vars

-----------------------------------------------------------------------------
(* "EMERGENCY STOP ACTIVATED: All entry scanning is immediately halted":   *)
(* no request that comes after a stop's first write and before a resume    *)
(* gets to write an entry, however stops, resumes and toggles interleave   *)
(* or are cut off, except at a help desk that may read the old key.        *)
StopHolds == \A d \in Doors : job[d].at = "enter" /\ job[d].barred => job[d].manual /\ legacy

(* Controls that do not overlap and are not cut off have the effect they   *)
(* answered; the settings are mixed only by controls that did.             *)
ControlsInOrder == expect.known /\ (\A k \in Admins : ~Controlling(k)) => set = expect.set

(* "has historical entry records and cannot be permanently deleted": a     *)
(* removal that was not forced takes no entry that was there when it       *)
(* counted, though it may take entries made since.                         *)
HistoryKept ==
  [][\A a \in Attendees : entry[a] # Nowhere /\ entry'[a] = Nowhere =>
       \E k \in Admins : /\ job[k].at = "remove" /\ entry[a] \in job[k].gates
                         /\ job[k].force \/ a \notin job[k].counted]_vars

(* Every entry granted is on record, was taken by the removal of its gate  *)
(* or written over by a help desk whose check came first: those alone let  *)
(* an attendee in a second time.                                           *)
EntriesAccounted ==
  \A a \in Attendees :
    entries[a] = erased[a] + over[a] + (IF entry[a] = Nowhere THEN 0 ELSE 1)
=============================================================================

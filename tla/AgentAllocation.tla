-------------------------- MODULE AgentAllocation --------------------------
(***************************************************************************)
(* Pass quotas of commercial agents: apps/api/src/commercial/              *)
(* commercial-agent.service.ts, with the two order deletions of            *)
(* commercial.service.ts that touch an agent's booking.                    *)
(*                                                                         *)
(* One pass type: rows of different pass types never meet in one UPDATE.   *)
(* A handler reads what it checks first (Begin...), awaits, and then runs  *)
(* its transaction (the action named after the method); other handlers'    *)
(* steps fall in between.  A transaction is one step: its guarded UPDATE   *)
(* takes the row lock and PostgreSQL re-evaluates the WHERE under it.      *)
(* A refused transaction leaves the tables alone and ends the handler.     *)
(***************************************************************************)
EXTENDS Integers, FiniteSets, Functions

CONSTANTS Agents,       \* ids the users table may hand to an agent
          OrderIds,     \* ids of offline orders
          Handlers,     \* requests in flight
          Quantities,   \* quantities a request may name
          MaxAllocated, \* bound: no administrator's grant takes a row above it
          MaxGranted,   \* bound: nor the net total of their grants above this
          NoAgent,      \* SQL NULL
          Archive       \* the 'Archived System Actor' user

ASSUME QuantitiesAssumption == Quantities \subseteq Nat \ {0}
ASSUME BoundsAssumption == MaxAllocated \in Nat /\ MaxGranted \in Nat
ASSUME OwnersAssumption == NoAgent \notin Agents \cup {Archive} /\ Archive \notin Agents
ASSUME FiniteAssumption == IsFiniteSet(Agents) /\ IsFiniteSet(OrderIds)

Owners == Agents \cup {Archive}

VARIABLES account,   \* users: role, parent_agent_id, is_active
          alloc,     \* agent_allocations: the row of each owner
          ledger,    \* sum of quantity_delta over a row's ALLOCATE, SUB_ALLOCATE, RECLAIM events
          order,     \* commercial_orders booked offline, each with its CONSUMPTION event
          request,   \* handlers between their checks and their transaction
          granted    \* history: what administrators granted less what they reclaimed

vars == <<account, alloc, ledger, order, request, granted>>

MASTER == "COMMERCIAL_AGENT"
SUB    == "COMMERCIAL_SUB_AGENT"
AgentRoles == {MASTER, SUB}

(* "none" is an id not handed out yet, "deleted" one whose user is gone;   *)
(* acted: some SUB_ALLOCATE, ALLOCATE or RECLAIM event names it performer; *)
(* nobody but a sub-agent has a parent.                                    *)
Account == {u \in [role : {"none", "deleted"} \cup AgentRoles,
                   parent : Agents \cup {NoAgent}, active : BOOLEAN, acted : BOOLEAN] :
              u.parent # NoAgent => u.role = SUB}
Row     == [exists : BOOLEAN, allocated : Int, booked : Int, sub : Int]
(* owner is the row the order's CONSUMPTION event hangs on, agent the      *)
(* order's agent_id.                                                       *)
Order   == [status : {"none", "PAID", "CANCELLED", "deleted"},
            agent : Agents \cup {NoAgent}, owner : Owners \cup {NoAgent},
            qty : Quantities \cup {0}]
Ops     == {"idle", "createSub", "book", "subAllocate", "reclaimSub", "allocate",
            "reclaim", "toggle", "delete"}
(* subs, row and orders are what deleteAgentAdmin read before its          *)
(* transaction; active what toggleAgentStatusAdmin read.                   *)
Request == [op : Ops, by : Agents \cup {NoAgent}, target : Agents \cup {NoAgent},
            qty : Quantities \cup {0}, subs : SUBSET Agents, row : BOOLEAN,
            orders : SUBSET OrderIds, active : BOOLEAN, super : BOOLEAN]

NoUser(role) == [role |-> role, parent |-> NoAgent, active |-> FALSE, acted |-> FALSE]
NewUser(role, p) == [role |-> role, parent |-> p, active |-> TRUE, acted |-> FALSE]
NoRow == [exists |-> FALSE, allocated |-> 0, booked |-> 0, sub |-> 0]
Idle  == [op |-> "idle", by |-> NoAgent, target |-> NoAgent, qty |-> 0,
          subs |-> {}, row |-> FALSE, orders |-> {}, active |-> FALSE,
          super |-> FALSE]

(* A handler past its checks knows whom it acts on, for whom, and how much.*)
Named(r) == /\ r.op \notin {"idle", "createSub"} => r.target \in Agents
            /\ r.op \in {"createSub", "subAllocate", "reclaimSub"} => r.by \in Agents
            /\ r.op \in {"subAllocate", "reclaimSub"} => r.by # r.target
            /\ r.op \in {"book", "subAllocate", "reclaimSub", "allocate", "reclaim"}
                 => r.qty \in Quantities

TypeOK == /\ account \in [Agents -> Account]
          /\ alloc \in [Owners -> Row]
          /\ ledger \in [Owners -> Int]
          /\ order \in [OrderIds -> Order]
          /\ request \in [Handlers -> Request] /\ \A h \in Handlers : Named(request[h])
          /\ granted \in Int

Init == /\ account = [a \in Agents |-> NoUser("none")]
        /\ alloc = [o \in Owners |-> NoRow]
        /\ ledger = [o \in Owners |-> 0]
        /\ order = [i \in OrderIds |->
                      [status |-> "none", agent |-> NoAgent, owner |-> NoAgent, qty |-> 0]]
        /\ request = [h \in Handlers |-> Idle]
        /\ granted = 0

-----------------------------------------------------------------------------
(* Helpers *)

Exists(a) == account[a].role \in AgentRoles

(* allocated_quantity - booked_quantity - sub_allocated_quantity *)
Available(o) == alloc[o].allocated - alloc[o].booked - alloc[o].sub

(* Mutant: the guard forgets what was handed to sub-agents. *)
CanTakeIgnoringSub(o, q) == alloc[o].exists /\ alloc[o].allocated - alloc[o].booked >= q

(* The WHERE clause of every guarded UPDATE that takes q from a row. *)
CanTake(o, q) == alloc[o].exists /\ Available(o) >= q

Start(h, r) == request[h] = Idle /\ request' = [request EXCEPT ![h] = r]
Finish(h)   == request' = [request EXCEPT ![h] = Idle]

(* What the transaction of a refused request does. *)
Refuse(h) == Finish(h) /\ UNCHANGED <<account, alloc, ledger, order, granted>>

(* INSERT ... ON CONFLICT DO UPDATE SET allocated_quantity = ... + q *)
Upserted(row, q) == [exists |-> TRUE, allocated |-> row.allocated + q,
                     booked |-> row.booked, sub |-> row.sub]

-----------------------------------------------------------------------------
(* Accounts *)

CreateAgentAdmin(a) ==
    /\ account[a].role = "none"
    /\ account' = [account EXCEPT ![a] = NewUser(MASTER, NoAgent)]
    /\ UNCHANGED <<alloc, ledger, order, request, granted>>

BeginCreateSubAgent(h, p) ==
    /\ account[p].role = MASTER /\ account[p].active /\ account[p].parent = NoAgent
    /\ Start(h, [Idle EXCEPT !.op = "createSub", !.by = p])
    /\ UNCHANGED <<account, alloc, ledger, order, granted>>

(* Mutant: the column without its foreign key. *)
CreateSubAgentOfAnyone(h, a) ==
    /\ request[h].op = "createSub"
    /\ account[a].role = "none"
    /\ account' = [account EXCEPT ![a] = NewUser(SUB, request[h].by)]
    /\ Finish(h)
    /\ UNCHANGED <<alloc, ledger, order, granted>>

(* The INSERT needs its parent_agent_id to exist still (foreign key). *)
CreateSubAgent(h, a) ==
    /\ request[h].op = "createSub"
    /\ \/ /\ Exists(request[h].by)
          /\ account[a].role = "none"
          /\ account' = [account EXCEPT ![a] = NewUser(SUB, request[h].by)]
          /\ Finish(h)
          /\ UNCHANGED <<alloc, ledger, order, granted>>
       \/ ~Exists(request[h].by) /\ Refuse(h)

BeginToggleAgentStatus(h, a) ==
    /\ Exists(a)
    /\ Start(h, [Idle EXCEPT !.op = "toggle", !.target = a, !.active = account[a].active])
    /\ UNCHANGED <<account, alloc, ledger, order, granted>>

ToggleAgentStatus(h) ==
    LET r == request[h] IN
    /\ r.op = "toggle"
    /\ \/ /\ Exists(r.target)
          /\ account' = [account EXCEPT ![r.target].active = ~r.active]
          /\ Finish(h)
          /\ UNCHANGED <<alloc, ledger, order, granted>>
       \/ ~Exists(r.target) /\ Refuse(h)

-----------------------------------------------------------------------------
(* Quota *)

BeginAllocateToAgent(h, a, q) ==
    /\ Exists(a)
    /\ Start(h, [Idle EXCEPT !.op = "allocate", !.target = a, !.qty = q])
    /\ UNCHANGED <<account, alloc, ledger, order, granted>>

(* The administrator may grant to a sub-agent too. *)
AllocateToAgent(h) ==
    LET a == request[h].target
        q == request[h].qty
    IN  /\ request[h].op = "allocate"
        /\ \/ /\ Exists(a)
              /\ alloc[a].allocated + q <= MaxAllocated /\ granted + q <= MaxGranted
              /\ alloc' = [alloc EXCEPT ![a] = Upserted(@, q)]
              /\ ledger' = [ledger EXCEPT ![a] = @ + q]
              /\ granted' = granted + q
              /\ Finish(h)
              /\ UNCHANGED <<account, order>>
           \/ ~Exists(a) /\ Refuse(h)

BeginReclaimFromAgent(h, a, q) ==
    /\ Exists(a)
    /\ Start(h, [Idle EXCEPT !.op = "reclaim", !.target = a, !.qty = q])
    /\ UNCHANGED <<account, alloc, ledger, order, granted>>

ReclaimFromAgent(h) ==
    LET a == request[h].target
        q == request[h].qty
    IN  /\ request[h].op = "reclaim"
        /\ \/ /\ CanTake(a, q)
              /\ alloc' = [alloc EXCEPT ![a].allocated = @ - q]
              /\ ledger' = [ledger EXCEPT ![a] = @ - q]
              /\ granted' = granted - q
              /\ Finish(h)
              /\ UNCHANGED <<account, order>>
           \/ ~CanTake(a, q) /\ Refuse(h)

(* The JWT guard admits an active master; the service checks the link. *)
BeginSubAllocate(h, p, a, q) ==
    /\ account[p].role = MASTER /\ account[p].active
    /\ Exists(a) /\ account[a].parent = p
    /\ Start(h, [Idle EXCEPT !.op = "subAllocate", !.by = p, !.target = a, !.qty = q])
    /\ UNCHANGED <<account, alloc, ledger, order, granted>>

(* Parent and child are written in one transaction, two ledger entries.    *)
(* A child deleted meanwhile fails the upsert's foreign key: all is undone.*)
SubAllocateToAgent(h) ==
    LET p == request[h].by
        a == request[h].target
        q == request[h].qty
        ok == CanTake(p, q) /\ Exists(a)
    IN  /\ request[h].op = "subAllocate"
        /\ \/ /\ ok
              /\ alloc' = [alloc EXCEPT ![p].sub = @ + q, ![a] = Upserted(@, q)]
              /\ ledger' = [ledger EXCEPT ![p] = @ - q, ![a] = @ + q]
              /\ account' = [account EXCEPT ![p].acted = TRUE]
              /\ Finish(h)
              /\ UNCHANGED <<order, granted>>
           \/ ~ok /\ Refuse(h)

BeginReclaimFromSubAgent(h, p, a, q) ==
    /\ account[p].role = MASTER /\ account[p].active
    /\ Exists(a) /\ account[a].parent = p
    /\ Start(h, [Idle EXCEPT !.op = "reclaimSub", !.by = p, !.target = a, !.qty = q])
    /\ UNCHANGED <<account, alloc, ledger, order, granted>>

(* What the second UPDATE of the reclaim takes off the parent's            *)
(* sub_allocated_quantity, and the delta of the event recorded for it.     *)
Returned(p, q) == IF alloc[p].sub >= q THEN q ELSE 0

(* Mutant: the parent's event is recorded even when its row was not updated.*)
ParentEventAlways(p, q) == q
ParentEvent(p, q) == Returned(p, q)

(* The second UPDATE is skipped without an error when the parent's         *)
(* sub_allocated_quantity does not cover q.  The child's event names the   *)
(* parent as performer: a parent deleted meanwhile fails the foreign key.  *)
ReclaimFromSubAgent(h) ==
    LET p == request[h].by
        a == request[h].target
        q == request[h].qty
        ok == CanTake(a, q) /\ Exists(p)
    IN  /\ request[h].op = "reclaimSub"
        /\ \/ /\ ok
              /\ alloc' = [alloc EXCEPT ![a].allocated = @ - q, ![p].sub = @ - Returned(p, q)]
              /\ ledger' = [ledger EXCEPT ![a] = @ - q, ![p] = @ + ParentEvent(p, q)]
              /\ account' = [account EXCEPT ![p].acted = TRUE]
              /\ Finish(h)
              /\ UNCHANGED <<order, granted>>
           \/ ~ok /\ Refuse(h)

-----------------------------------------------------------------------------
(* Bookings *)

BeginOfflineBooking(h, a, q) ==
    /\ Exists(a) /\ account[a].active
    /\ Start(h, [Idle EXCEPT !.op = "book", !.target = a, !.qty = q])
    /\ UNCHANGED <<account, alloc, ledger, order, granted>>

(* Order, CONSUMPTION event and q passes are created in the transaction    *)
(* that takes q from the row; too little quota refuses the whole booking.  *)
CreateOfflineBooking(h, i) ==
    LET a == request[h].target
        q == request[h].qty
    IN  /\ request[h].op = "book"
        /\ \/ /\ CanTake(a, q)
              /\ order[i].status = "none"
              /\ alloc' = [alloc EXCEPT ![a].booked = @ + q]
              /\ order' = [order EXCEPT ![i] =
                    [status |-> "PAID", agent |-> a, owner |-> a, qty |-> q]]
              /\ Finish(h)
              /\ UNCHANGED <<account, ledger, granted>>
           \/ ~CanTake(a, q) /\ Refuse(h)

(* Mutant: cancelling gives the quantity back while the order stays on the row.*)
CancelOrderReleasing(i) ==
    /\ order[i].status = "PAID" /\ order[i].owner # NoAgent
    /\ order' = [order EXCEPT ![i].status = "CANCELLED"]
    /\ alloc' = [alloc EXCEPT ![order[i].owner].booked = @ - order[i].qty]
    /\ UNCHANGED <<account, ledger, request, granted>>

(* A super administrator's delete of a paid order cancels it: its passes   *)
(* are revoked, the booked quantity stays taken.                           *)
CancelOrder(i) ==
    /\ order[i].status \in {"PAID", "CANCELLED"}
    /\ order' = [order EXCEPT ![i].status = "CANCELLED"]
    /\ UNCHANGED <<account, alloc, ledger, request, granted>>

(* Full Power removes the order with its CONSUMPTION event; the row keeps  *)
(* its booked quantity.                                                    *)
PurgeOrder(i) ==
    /\ order[i].status \in {"PAID", "CANCELLED"}
    /\ order' = [order EXCEPT ![i] =
          [status |-> "deleted", agent |-> NoAgent, owner |-> NoAgent, qty |-> order[i].qty]]
    /\ UNCHANGED <<account, alloc, ledger, request, granted>>

-----------------------------------------------------------------------------
(* Deletion of an agent *)

SubAgentsOf(a) == {s \in Agents : Exists(s) /\ account[s].parent = a}
OrdersOf(a)    == {i \in OrderIds : order[i].status \in {"PAID", "CANCELLED"}
                                    /\ order[i].agent = a}

(* Why a domain administrator is refused.                                  *)
HasHistory(a) ==
    \/ SubAgentsOf(a) # {} \/ OrdersOf(a) # {} \/ account[a].acted
    \/ alloc[a].allocated > 0 \/ alloc[a].booked > 0 \/ alloc[a].sub > 0

BeginDeleteAgent(h, a, isSuperAdmin) ==
    /\ Exists(a)
    /\ isSuperAdmin \/ ~HasHistory(a)
    /\ Start(h, [Idle EXCEPT !.op = "delete", !.target = a, !.subs = SubAgentsOf(a),
                             !.row = alloc[a].exists, !.orders = OrdersOf(a),
                             !.super = isSuperAdmin])
    /\ UNCHANGED <<account, alloc, ledger, order, granted>>

(* Mutant: the converted sub-agents keep their link. *)
AccountsWithoutUnlinking(a, subs) ==
    [x \in Agents |->
       IF x = a THEN NoUser("deleted")
       ELSE IF account[x].parent # a THEN account[x]
       ELSE [account[x] EXCEPT !.role = MASTER]]

(* What is left of the accounts: sub-agents become masters only when the   *)
(* snapshot had some; ON DELETE SET NULL clears the link of the others.    *)
AccountsWithout(a, subs) ==
    [x \in Agents |->
       IF x = a THEN NoUser("deleted")
       ELSE IF account[x].parent # a THEN account[x]
       ELSE [role |-> IF subs # {} THEN MASTER ELSE account[x].role, parent |-> NoAgent,
             active |-> account[x].active, acted |-> account[x].acted]]

(* Every row was inserted with an event, so deleteAgentAdmin's branch for  *)
(* a row without events has no state to run in.                            *)
(* The row of a deleted agent: re-owned by the archive user when that has  *)
(* none, else dropped after its events moved there; a row the snapshot did *)
(* not have goes with the user (ON DELETE CASCADE), and so do its events.  *)
ArchiveRow(a, seen) ==
    /\ alloc' = IF seen /\ ~alloc[Archive].exists
                THEN [alloc EXCEPT ![Archive] = alloc[a], ![a] = NoRow]
                ELSE [alloc EXCEPT ![a] = NoRow]
    /\ ledger' = IF seen
                 THEN [ledger EXCEPT ![Archive] = @ + ledger[a], ![a] = 0]
                 ELSE [ledger EXCEPT ![a] = 0]

(* The orders of a deleted agent keep their passes and lose the link. *)
DetachOrders(a, seen) ==
    order' = [i \in OrderIds |->
                IF order[i].agent # a THEN order[i]
                ELSE [status |-> order[i].status, agent |-> NoAgent,
                      owner |-> IF seen THEN Archive ELSE NoAgent, qty |-> order[i].qty]]

(* The transaction updates each order of the snapshot by id: one purged    *)
(* meanwhile makes it fail as a whole, as does a user already deleted.     *)
DeleteAgent(h) ==
    LET r == request[h]
        ok == /\ Exists(r.target)
              /\ \A i \in r.orders : order[i].status # "deleted"
    IN  /\ r.op = "delete"
        /\ \/ /\ ok
              /\ account' = AccountsWithout(r.target, r.subs)
              /\ ArchiveRow(r.target, r.row)
              /\ DetachOrders(r.target, r.row)
              /\ Finish(h)
              /\ UNCHANGED granted
           \/ ~ok /\ Refuse(h)

-----------------------------------------------------------------------------
BeginAdmin(h) ==
    \E a \in Agents :
       \/ BeginToggleAgentStatus(h, a)
       \/ \E super \in BOOLEAN : BeginDeleteAgent(h, a, super)
       \/ \E q \in Quantities : BeginAllocateToAgent(h, a, q) \/ BeginReclaimFromAgent(h, a, q)

BeginAgent(h) ==
    \E a \in Agents :
       \/ BeginCreateSubAgent(h, a)
       \/ \E q \in Quantities :
             \/ BeginOfflineBooking(h, a, q)
             \/ \E s \in Agents : BeginSubAllocate(h, a, s, q) \/ BeginReclaimFromSubAgent(h, a, s, q)

Transaction(h) ==
    \/ ToggleAgentStatus(h) \/ AllocateToAgent(h) \/ ReclaimFromAgent(h)
    \/ SubAllocateToAgent(h) \/ ReclaimFromSubAgent(h) \/ DeleteAgent(h)
    \/ \E a \in Agents : CreateSubAgent(h, a)
    \/ \E i \in OrderIds : CreateOfflineBooking(h, i)

-----------------------------------------------------------------------------
Next ==
    \/ \E a \in Agents : CreateAgentAdmin(a)
    \/ \E h \in Handlers : BeginAdmin(h) \/ BeginAgent(h) \/ Transaction(h)
    \/ \E i \in OrderIds : CancelOrder(i) \/ PurgeOrder(i)

Spec == Init /\ [][Next]_vars

-----------------------------------------------------------------------------
(* Properties *)

(* No row is ever oversold: what an agent has booked and handed to         *)
(* sub-agents stays within what it was allocated, whatever the order of    *)
(* bookings, sub-allocations and the three kinds of reclaim.  This is the  *)
(* CHECK constraint of the table; the guarded UPDATEs alone keep it, so    *)
(* the constraint never turns a request into a server error.               *)
NoOversell ==
    \A o \in Owners : /\ alloc[o].booked >= 0 /\ alloc[o].sub >= 0
                      /\ alloc[o].booked + alloc[o].sub <= alloc[o].allocated

(* Audit: the ALLOCATE, SUB_ALLOCATE and RECLAIM events on an agent's row  *)
(* add up to the quota the row holds for its own sales, at every moment.   *)
LedgerExplainsQuota ==
    \A a \in Agents : ledger[a] = alloc[a].allocated - alloc[a].sub

(* Audit: the bookings of a row cover the orders whose CONSUMPTION events  *)
(* hang on it; deleting orders only ever leaves booked_quantity above.     *)
BookingsCoverOrders ==
    \A a \in Agents :
        alloc[a].booked >= SumFunctionOnSet([i \in OrderIds |-> order[i].qty],
                                   {i \in OrderIds : order[i].owner = a})

(* "Agent hierarchy is strictly 1 level": a parent is a live master with   *)
(* no parent of its own, also when accounts are created and deleted while  *)
(* a sub-agent is being created.                                           *)
OneLevelHierarchy ==
    \A a \in Agents : LET p == account[a].parent IN
        p # NoAgent => /\ account[a].role = SUB
                       /\ account[p].role = MASTER /\ account[p].parent = NoAgent

(* Everything ever sold was granted and not withdrawn: all agents, the     *)
(* archive and the deleted accounts together implement one pool of passes. *)
Pool == INSTANCE PassPool WITH
            sold <- SumFunctionOnSet([i \in OrderIds |-> order[i].qty], OrderIds)
ImplementsPool == Pool!Spec

=============================================================================

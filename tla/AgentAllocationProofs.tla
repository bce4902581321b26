----------------------- MODULE AgentAllocationProofs -----------------------
(***************************************************************************)
(* What AgentAllocation keeps for every set of agents, orders, handlers    *)
(* and quantities.                                                         *)
(***************************************************************************)
EXTENDS AgentAllocation, SumTheorems

USE QuantitiesAssumption, OwnersAssumption DEF Owners

LEMMA QuantityIsPositive ==
    ASSUME NEW q \in Quantities
    PROVE  q \in Int /\ q > 0
  BY QuantitiesAssumption

LEMMA OwnerUpdates ==
    ASSUME NEW f \in [Owners -> Row], NEW g \in [Owners -> Int], NEW o \in Owners,
           NEW row \in Row, NEW n \in Int
    PROVE  /\ [f EXCEPT ![o] = row] \in [Owners -> Row]
           /\ [g EXCEPT ![o] = n] \in [Owners -> Int]
  OBVIOUS

(* The transactions and checks of one handler, as one list for the proofs. *)
LEMMA NextCases ==
    ASSUME Next
    PROVE  \/ \E a \in Agents : CreateAgentAdmin(a)
           \/ \E h \in Handlers : BeginAdmin(h) \/ BeginAgent(h)
           \/ \E h \in Handlers : Transaction(h)
           \/ \E i \in OrderIds : CancelOrder(i) \/ PurgeOrder(i)
  BY DEF Next

LEMMA BeginLeavesRows ==
    ASSUME NEW h \in Handlers, BeginAdmin(h) \/ BeginAgent(h)
    PROVE  UNCHANGED <<account, alloc, ledger, order, granted>>
  BY DEF BeginAdmin, BeginAgent, BeginToggleAgentStatus, BeginDeleteAgent,
         BeginAllocateToAgent, BeginReclaimFromAgent, BeginCreateSubAgent,
         BeginOfflineBooking, BeginSubAllocate, BeginReclaimFromSubAgent

-----------------------------------------------------------------------------
(* Typing *)

WellFormed == {r \in Request : Named(r)}
RequestsOK == request \in [Handlers -> WellFormed]

LEMMA TypedRequests ==
    request \in [Handlers -> Request] /\ (\A h \in Handlers : Named(request[h])) <=> RequestsOK
  BY DEF RequestsOK, WellFormed

LEMMA InitTypeOK == Init => TypeOK
  BY DEF Init, TypeOK, Named, Account, Row, Order, Request, Ops, NoUser, NoRow, Idle

LEMMA BeginTypeOK ==
    ASSUME TypeOK, NEW h \in Handlers, BeginAdmin(h) \/ BeginAgent(h)
    PROVE  RequestsOK'
  <1>1. ASSUME NEW r \in WellFormed, Start(h, r)
        PROVE  RequestsOK'
    BY <1>1, TypedRequests DEF Start, TypeOK, RequestsOK
  <1>2. CASE BeginAdmin(h)
    <2>1. PICK a \in Agents :
             \/ BeginToggleAgentStatus(h, a)
             \/ \E super \in BOOLEAN : BeginDeleteAgent(h, a, super)
             \/ \E q \in Quantities : BeginAllocateToAgent(h, a, q) \/ BeginReclaimFromAgent(h, a, q)
      BY <1>2 DEF BeginAdmin
    <2>2. CASE BeginToggleAgentStatus(h, a)
      <3>1. [Idle EXCEPT !.op = "toggle", !.target = a, !.active = account[a].active] \in WellFormed
        BY DEF Idle, WellFormed, Named, Request, Ops, TypeOK, Account
      <3>2. QED BY <2>2, <3>1, <1>1 DEF BeginToggleAgentStatus
    <2>3. ASSUME NEW super \in BOOLEAN, BeginDeleteAgent(h, a, super)
          PROVE  RequestsOK'
      <3> DEFINE subs == SubAgentsOf(a)
                 orders == OrdersOf(a)
                 row == alloc[a].exists
      <3>a. subs \in SUBSET Agents /\ orders \in SUBSET OrderIds /\ row \in BOOLEAN
        BY DEF SubAgentsOf, OrdersOf, TypeOK, Row
      <3> HIDE DEF subs, orders, row
      <3>b. [Idle EXCEPT !.op = "delete", !.target = a, !.subs = subs, !.row = row,
                         !.orders = orders, !.super = super] \in WellFormed
        BY <3>a DEF Idle, WellFormed, Named, Request, Ops
      <3>1. [Idle EXCEPT !.op = "delete", !.target = a, !.subs = SubAgentsOf(a),
                         !.row = alloc[a].exists, !.orders = OrdersOf(a),
                         !.super = super] \in WellFormed
        BY <3>b DEF subs, orders, row
      <3>2. QED BY <2>3, <3>1, <1>1 DEF BeginDeleteAgent
    <2>4. ASSUME NEW q \in Quantities,
                 BeginAllocateToAgent(h, a, q) \/ BeginReclaimFromAgent(h, a, q)
          PROVE  RequestsOK'
      <3>1. [Idle EXCEPT !.op = "allocate", !.target = a, !.qty = q] \in WellFormed
        BY DEF Idle, WellFormed, Named, Request, Ops
      <3>2. [Idle EXCEPT !.op = "reclaim", !.target = a, !.qty = q] \in WellFormed
        BY DEF Idle, WellFormed, Named, Request, Ops
      <3>3. QED BY <2>4, <3>1, <3>2, <1>1 DEF BeginAllocateToAgent, BeginReclaimFromAgent
    <2>5. QED BY <2>1, <2>2, <2>3, <2>4
  <1>3. CASE BeginAgent(h)
    <2>1. PICK a \in Agents :
             \/ BeginCreateSubAgent(h, a)
             \/ \E q \in Quantities :
                   \/ BeginOfflineBooking(h, a, q)
                   \/ \E s \in Agents : BeginSubAllocate(h, a, s, q)
                                        \/ BeginReclaimFromSubAgent(h, a, s, q)
      BY <1>3 DEF BeginAgent
    <2>2. CASE BeginCreateSubAgent(h, a)
      <3>1. [Idle EXCEPT !.op = "createSub", !.by = a] \in WellFormed
        BY DEF Idle, WellFormed, Named, Request, Ops
      <3>2. QED BY <2>2, <3>1, <1>1 DEF BeginCreateSubAgent
    <2>3. ASSUME NEW q \in Quantities, BeginOfflineBooking(h, a, q)
          PROVE  RequestsOK'
      <3>1. [Idle EXCEPT !.op = "book", !.target = a, !.qty = q] \in WellFormed
        BY DEF Idle, WellFormed, Named, Request, Ops
      <3>2. QED BY <2>3, <3>1, <1>1 DEF BeginOfflineBooking
    <2>4. ASSUME NEW q \in Quantities, NEW s \in Agents,
                 BeginSubAllocate(h, a, s, q) \/ BeginReclaimFromSubAgent(h, a, s, q)
          PROVE  RequestsOK'
      <3>a. a # s
        BY <2>4 DEF BeginSubAllocate, BeginReclaimFromSubAgent, TypeOK, Account, MASTER, SUB
      <3>1. [Idle EXCEPT !.op = "subAllocate", !.by = a, !.target = s, !.qty = q] \in WellFormed
        BY <3>a DEF Idle, WellFormed, Named, Request, Ops
      <3>2. [Idle EXCEPT !.op = "reclaimSub", !.by = a, !.target = s, !.qty = q] \in WellFormed
        BY <3>a DEF Idle, WellFormed, Named, Request, Ops
      <3>3. QED BY <2>4, <3>1, <3>2, <1>1 DEF BeginSubAllocate, BeginReclaimFromSubAgent
    <2>5. QED BY <2>1, <2>2, <2>3, <2>4
  <1>4. QED BY <1>2, <1>3

LEMMA FinishTypeOK ==
    ASSUME TypeOK, NEW h \in Handlers, Finish(h)
    PROVE  RequestsOK'
  <1>1. Idle \in WellFormed
    BY DEF Idle, WellFormed, Named, Request, Ops
  <1>2. QED BY <1>1, TypedRequests DEF Finish, TypeOK, RequestsOK

(* A row as it is after each kind of UPDATE. *)
LEMMA RowUpdates ==
    ASSUME NEW r \in Row, NEW q \in Int
    PROVE  /\ Upserted(r, q) \in Row
           /\ [r EXCEPT !.allocated = @ - q] \in Row
           /\ [r EXCEPT !.booked = @ + q] \in Row
           /\ [r EXCEPT !.sub = @ + q] \in Row
           /\ [r EXCEPT !.sub = @ - q] \in Row
  BY DEF Row, Upserted

LEMMA AccountUpdates ==
    ASSUME NEW r \in Account, NEW p \in Agents \cup {NoAgent}, NEW b \in BOOLEAN
    PROVE  /\ [r EXCEPT !.active = b] \in Account
           /\ [r EXCEPT !.acted = TRUE] \in Account
           /\ NewUser(MASTER, NoAgent) \in Account
           /\ NewUser(SUB, p) \in Account
           /\ NoUser("deleted") \in Account
  BY DEF Account, AgentRoles, MASTER, SUB, NewUser, NoUser

LEMMA TransactionTypeOK ==
    ASSUME TypeOK, NEW h \in Handlers, Transaction(h)
    PROVE  TypeOK'
  <1> DEFINE r == request[h]
  <1>a. r \in Request /\ Named(r)
    BY DEF TypeOK
  <1>b. ASSUME Finish(h), account' \in [Agents -> Account], alloc' \in [Owners -> Row],
               ledger' \in [Owners -> Int], order' \in [OrderIds -> Order], granted' \in Int
        PROVE  TypeOK'
    <2>1. RequestsOK'
      BY <1>b, FinishTypeOK
    <2>2. QED BY <1>b, <2>1 DEF TypeOK, RequestsOK, WellFormed
  <1>c. ASSUME Refuse(h) PROVE TypeOK'
    BY <1>b, <1>c DEF Refuse, TypeOK
  <1>2. CASE ToggleAgentStatus(h)
    <2>1. r.target \in Agents
      BY <1>2, <1>a DEF ToggleAgentStatus, Named
    <2>2. CASE Refuse(h)
      BY <2>2, <1>c
    <2>3. CASE /\ account' = [account EXCEPT ![r.target].active = ~r.active]
               /\ Finish(h) /\ UNCHANGED <<alloc, ledger, order, granted>>
      <3>1. r.active \in BOOLEAN
        BY <1>a DEF Request
      <3>a. account[r.target] \in Account
        BY <2>1 DEF TypeOK
      <3>b. [account[r.target] EXCEPT !.active = ~r.active] \in Account
        BY <3>1, <3>a DEF Account
      <3>2. account' \in [Agents -> Account]
        BY <2>1, <2>3, <3>b DEF TypeOK
      <3>3. QED BY <1>b, <2>3, <3>2 DEF TypeOK
    <2>4. QED BY <1>2, <2>2, <2>3 DEF ToggleAgentStatus
  <1>3. CASE AllocateToAgent(h)
    <2>1. r.target \in Agents /\ r.qty \in Int
      BY <1>3, <1>a, QuantityIsPositive DEF AllocateToAgent, Named
    <2>2. CASE Refuse(h)
      BY <2>2, <1>c
    <2>3. CASE ~Refuse(h)
      <3>1. alloc' = [alloc EXCEPT ![r.target] = Upserted(alloc[r.target], r.qty)]
        BY <1>3, <2>3 DEF AllocateToAgent
      <3>a. r.target \in Owners /\ alloc[r.target] \in Row
        BY <2>1 DEF TypeOK
      <3>b. Upserted(alloc[r.target], r.qty) \in Row
        BY <2>1, <3>a, RowUpdates
      <3>2. alloc' \in [Owners -> Row]
        BY <3>a, <3>b, <3>1, OwnerUpdates DEF TypeOK
      <3>3. ledger' \in [Owners -> Int] /\ granted' \in Int
        BY <1>3, <2>1, <2>3 DEF AllocateToAgent, TypeOK
      <3>4. QED BY <1>3, <1>b, <2>3, <3>2, <3>3 DEF AllocateToAgent, TypeOK
    <2>4. QED BY <2>2, <2>3
  <1>4. CASE ReclaimFromAgent(h)
    <2>1. r.target \in Agents /\ r.qty \in Int
      BY <1>4, <1>a, QuantityIsPositive DEF ReclaimFromAgent, Named
    <2>2. CASE Refuse(h)
      BY <2>2, <1>c
    <2>3. CASE ~Refuse(h)
      <3>1. alloc' \in [Owners -> Row]
        BY <1>4, <2>1, <2>3 DEF ReclaimFromAgent, TypeOK, Row
      <3>2. ledger' \in [Owners -> Int] /\ granted' \in Int
        BY <1>4, <2>1, <2>3 DEF ReclaimFromAgent, TypeOK
      <3>3. QED BY <1>4, <1>b, <2>3, <3>1, <3>2 DEF ReclaimFromAgent, TypeOK
    <2>4. QED BY <2>2, <2>3
  <1>5. CASE SubAllocateToAgent(h)
    <2>1. r.target \in Agents /\ r.by \in Agents /\ r.qty \in Int
      BY <1>5, <1>a, QuantityIsPositive DEF SubAllocateToAgent, Named
    <2>2. CASE Refuse(h)
      BY <2>2, <1>c
    <2>3. CASE ~Refuse(h)
      <3> DEFINE mid == [alloc EXCEPT ![r.by].sub = @ + r.qty]
      <3>1. mid \in [Owners -> Row]
        BY <2>1 DEF TypeOK, Row
      <3>2. alloc' = [mid EXCEPT ![r.target] = Upserted(mid[r.target], r.qty)]
        <4>1. alloc' = [alloc EXCEPT ![r.by].sub = @ + r.qty, ![r.target] = Upserted(@, r.qty)]
          BY <1>5, <2>3 DEF SubAllocateToAgent
        <4>2. r.by # r.target
          BY <1>5, <1>a DEF SubAllocateToAgent, Named
        <4>3. QED BY <2>1, <4>1, <4>2 DEF TypeOK
      <3>3. alloc' \in [Owners -> Row]
        <4> HIDE DEF mid
        <4>1. r.target \in Owners /\ mid[r.target] \in Row
          BY <2>1, <3>1
        <4>2. Upserted(mid[r.target], r.qty) \in Row
          BY <2>1, <4>1, RowUpdates
        <4>3. QED BY <3>1, <3>2, <4>1, <4>2, OwnerUpdates
      <3>4. ledger' \in [Owners -> Int]
        BY <1>5, <2>1, <2>3 DEF SubAllocateToAgent, TypeOK
      <3>5. account' \in [Agents -> Account]
        <4>1. account' = [account EXCEPT ![r.by].acted = TRUE]
          BY <1>5, <2>3 DEF SubAllocateToAgent
        <4>2. account[r.by] \in Account
          BY <2>1 DEF TypeOK
        <4>3. [account[r.by] EXCEPT !.acted = TRUE] \in Account
          BY <4>2, AccountUpdates
        <4>4. QED BY <2>1, <4>1, <4>3 DEF TypeOK
      <3>6. QED BY <1>5, <1>b, <2>3, <3>3, <3>4, <3>5 DEF SubAllocateToAgent, TypeOK
    <2>4. QED BY <2>2, <2>3
  <1>6. CASE ReclaimFromSubAgent(h)
    <2>1. r.target \in Agents /\ r.by \in Agents /\ r.qty \in Int
      BY <1>6, <1>a, QuantityIsPositive DEF ReclaimFromSubAgent, Named
    <2>2. CASE Refuse(h)
      BY <2>2, <1>c
    <2>3. CASE ~Refuse(h)
      <3> DEFINE returned == Returned(r.by, r.qty)
                 mid == [alloc EXCEPT ![r.target].allocated = @ - r.qty]
      <3>0. returned \in Int
        BY <2>1 DEF Returned
      <3>1. mid \in [Owners -> Row]
        BY <2>1 DEF TypeOK, Row
      <3>2. alloc' = [mid EXCEPT ![r.by].sub = @ - returned]
        BY <1>6, <2>3 DEF ReclaimFromSubAgent
      <3>3. ledger' = [ledger EXCEPT ![r.target] = @ - r.qty, ![r.by] = @ + returned]
        BY <1>6, <2>3 DEF ReclaimFromSubAgent, ParentEvent
      <3> HIDE DEF mid, returned
      <3>4. alloc' \in [Owners -> Row]
        BY <2>1, <3>0, <3>1, <3>2 DEF Row
      <3>5. ledger' \in [Owners -> Int]
        BY <2>1, <3>0, <3>3 DEF TypeOK
      <3>6. account' \in [Agents -> Account]
        <4>1. account' = [account EXCEPT ![r.by].acted = TRUE]
          BY <1>6, <2>3 DEF ReclaimFromSubAgent
        <4>2. account[r.by] \in Account
          BY <2>1 DEF TypeOK
        <4>3. [account[r.by] EXCEPT !.acted = TRUE] \in Account
          BY <4>2, AccountUpdates
        <4>4. QED BY <2>1, <4>1, <4>3 DEF TypeOK
      <3>7. QED BY <1>6, <1>b, <2>3, <3>4, <3>5, <3>6 DEF ReclaimFromSubAgent, TypeOK
    <2>4. QED BY <2>2, <2>3
  <1>7. ASSUME NEW a \in Agents, CreateSubAgent(h, a) PROVE TypeOK'
    <2>1. r.by \in Agents
      BY <1>7, <1>a DEF CreateSubAgent, Named
    <2>2. CASE Refuse(h)
      BY <2>2, <1>c
    <2>3. CASE ~Refuse(h)
      <3>1. account' = [account EXCEPT ![a] = NewUser(SUB, r.by)]
            /\ Finish(h) /\ UNCHANGED <<alloc, ledger, order, granted>>
        BY <1>7, <2>3 DEF CreateSubAgent
      <3>2. NewUser(SUB, r.by) \in Account
        BY <2>1 DEF NewUser, Account, AgentRoles, SUB
      <3>3. account' \in [Agents -> Account]
        BY <3>1, <3>2 DEF TypeOK
      <3>4. QED BY <1>b, <3>1, <3>3 DEF TypeOK
    <2>4. QED BY <2>2, <2>3
  <1>8. ASSUME NEW i \in OrderIds, CreateOfflineBooking(h, i) PROVE TypeOK'
    <2>1. r.target \in Agents /\ r.qty \in Int
      BY <1>8, <1>a, QuantityIsPositive DEF CreateOfflineBooking, Named
    <2>2. CASE Refuse(h)
      BY <2>2, <1>c
    <2>3. CASE ~Refuse(h)
      <3>1. alloc' \in [Owners -> Row]
        BY <1>8, <2>1, <2>3 DEF CreateOfflineBooking, TypeOK, Row
      <3>2. order' \in [OrderIds -> Order]
        <4>1. order' = [order EXCEPT ![i] = [status |-> "PAID", agent |-> r.target,
                                             owner |-> r.target, qty |-> r.qty]]
          BY <1>8, <2>3 DEF CreateOfflineBooking
        <4>2. [status |-> "PAID", agent |-> r.target, owner |-> r.target, qty |-> r.qty] \in Order
          BY <2>1, <1>a DEF Order, Request
        <4>3. QED BY <4>1, <4>2 DEF TypeOK
      <3>3. QED BY <1>8, <1>b, <2>3, <3>1, <3>2 DEF CreateOfflineBooking, TypeOK
    <2>4. QED BY <2>2, <2>3
  <1>9. CASE DeleteAgent(h)
    <2>1. r.target \in Agents
      BY <1>9, <1>a DEF DeleteAgent, Named
    <2>2. CASE Refuse(h)
      BY <2>2, <1>c
    <2>3. CASE ~Refuse(h)
      <3>1. account' = AccountsWithout(r.target, r.subs) /\ ArchiveRow(r.target, r.row)
            /\ DetachOrders(r.target, r.row) /\ Finish(h) /\ UNCHANGED granted
        BY <1>9, <2>3 DEF DeleteAgent
      <3>2. account' \in [Agents -> Account]
        <4>1. ASSUME NEW x \in Agents PROVE AccountsWithout(r.target, r.subs)[x] \in Account
          <5>1. account[x] \in Account
            BY DEF TypeOK
          <5>2. [role |-> IF r.subs # {} THEN MASTER ELSE account[x].role, parent |-> NoAgent,
                 active |-> account[x].active, acted |-> account[x].acted] \in Account
            BY <5>1 DEF Account, AgentRoles, MASTER
          <5>3. NoUser("deleted") \in Account
            BY AccountUpdates, <5>1
          <5>4. QED BY <5>1, <5>2, <5>3 DEF AccountsWithout
        <4>2. QED BY <3>1, <4>1 DEF AccountsWithout
      <3>3. NoRow \in Row
        BY DEF NoRow, Row
      <3>4. alloc' \in [Owners -> Row]
        BY <2>1, <3>1, <3>3 DEF ArchiveRow, TypeOK
      <3>5. ledger' \in [Owners -> Int]
        BY <2>1, <3>1 DEF ArchiveRow, TypeOK
      <3>6. order' \in [OrderIds -> Order]
        BY <3>1 DEF DetachOrders, TypeOK, Order
      <3>7. QED BY <1>b, <3>1, <3>2, <3>4, <3>5, <3>6 DEF TypeOK
    <2>4. QED BY <2>2, <2>3
  <1>10. QED
    BY <1>2, <1>3, <1>4, <1>5, <1>6, <1>7, <1>8, <1>9 DEF Transaction

LEMMA NextTypeOK == TypeOK /\ [Next]_vars => TypeOK'
  <1> SUFFICES ASSUME TypeOK, [Next]_vars PROVE TypeOK'
    OBVIOUS
  <1>1. CASE UNCHANGED vars
    BY <1>1 DEF vars, TypeOK
  <1>2. ASSUME NEW a \in Agents, CreateAgentAdmin(a) PROVE TypeOK'
    <2>1. NewUser(MASTER, NoAgent) \in Account
      BY DEF NewUser, Account, AgentRoles, MASTER
    <2>2. QED BY <1>2, <2>1 DEF CreateAgentAdmin, TypeOK
  <1>3. ASSUME NEW h \in Handlers, BeginAdmin(h) \/ BeginAgent(h) PROVE TypeOK'
    <2>1. RequestsOK'
      BY <1>3, BeginTypeOK
    <2>2. UNCHANGED <<account, alloc, ledger, order, granted>>
      BY <1>3, BeginLeavesRows
    <2>3. QED BY <2>1, <2>2 DEF TypeOK, RequestsOK, WellFormed
  <1>4. ASSUME NEW h \in Handlers, Transaction(h) PROVE TypeOK'
    BY <1>4, TransactionTypeOK
  <1>5. ASSUME NEW i \in OrderIds, CancelOrder(i) PROVE TypeOK'
    <2>1. order' \in [OrderIds -> Order]
      BY <1>5 DEF CancelOrder, TypeOK, Order
    <2>2. QED BY <1>5, <2>1 DEF CancelOrder, TypeOK
  <1>6. ASSUME NEW i \in OrderIds, PurgeOrder(i) PROVE TypeOK'
    <2>1. [status |-> "deleted", agent |-> NoAgent, owner |-> NoAgent, qty |-> order[i].qty] \in Order
      BY DEF TypeOK, Order
    <2>2. QED BY <1>6, <2>1 DEF PurgeOrder, TypeOK
  <1>7. QED
    BY <1>1, <1>2, <1>3, <1>4, <1>5, <1>6, NextCases

(* Every table row and every request in flight stays well-formed: in       *)
(* particular no handler ever writes under a NULL agent id.                *)
THEOREM TypeCorrect == Spec => []TypeOK
  BY InitTypeOK, NextTypeOK, PTL DEF Spec

-----------------------------------------------------------------------------
(* Quotas *)

Sound(r) == r.booked >= 0 /\ r.sub >= 0 /\ r.booked + r.sub <= r.allocated

QuotaInv == NoOversell /\ LedgerExplainsQuota

LEMMA TransactionQuota ==
    ASSUME TypeOK, QuotaInv, NEW h \in Handlers, Transaction(h)
    PROVE  QuotaInv'
  <1> DEFINE r == request[h]
  <1>a. r \in Request /\ Named(r)
    BY DEF TypeOK
  <1>b. \A o \in Owners : alloc[o] \in Row /\ ledger[o] \in Int
    BY DEF TypeOK
  <1>c. CASE UNCHANGED <<alloc, ledger>>
    BY <1>c DEF QuotaInv, NoOversell, LedgerExplainsQuota
  <1>1. CASE AllocateToAgent(h)
    <2>1. r.target \in Agents /\ r.qty \in Int /\ r.qty > 0
      BY <1>1, <1>a, QuantityIsPositive DEF AllocateToAgent, Named
    <2>2. CASE Refuse(h)
      BY <2>2, <1>c DEF Refuse
    <2>3. CASE ~Refuse(h)
      <3>1. /\ alloc' = [alloc EXCEPT ![r.target] = Upserted(@, r.qty)]
            /\ ledger' = [ledger EXCEPT ![r.target] = @ + r.qty]
        BY <1>1, <2>3 DEF AllocateToAgent
      <3>2. QED
        BY <1>b, <2>1, <3>1 DEF QuotaInv, NoOversell, LedgerExplainsQuota, TypeOK, Row, Upserted
    <2>4. QED BY <2>2, <2>3
  <1>2. CASE ReclaimFromAgent(h)
    <2>1. r.target \in Agents /\ r.qty \in Int /\ r.qty > 0
      BY <1>2, <1>a, QuantityIsPositive DEF ReclaimFromAgent, Named
    <2>2. CASE Refuse(h)
      BY <2>2, <1>c DEF Refuse
    <2>3. CASE ~Refuse(h)
      <3>1. /\ alloc' = [alloc EXCEPT ![r.target].allocated = @ - r.qty]
            /\ ledger' = [ledger EXCEPT ![r.target] = @ - r.qty]
            /\ CanTake(r.target, r.qty)
        BY <1>2, <2>3 DEF ReclaimFromAgent
      <3>2. QED
        BY <1>b, <2>1, <3>1
           DEF QuotaInv, NoOversell, LedgerExplainsQuota, TypeOK, Row, CanTake, Available
    <2>4. QED BY <2>2, <2>3
  <1>3. CASE SubAllocateToAgent(h)
    <2>1. /\ r.target \in Agents /\ r.by \in Agents /\ r.by # r.target
          /\ r.qty \in Int /\ r.qty > 0
      BY <1>3, <1>a, QuantityIsPositive DEF SubAllocateToAgent, Named
    <2>2. CASE Refuse(h)
      BY <2>2, <1>c DEF Refuse
    <2>3. CASE ~Refuse(h)
      <3>1. /\ alloc' = [alloc EXCEPT ![r.by].sub = @ + r.qty, ![r.target] = Upserted(@, r.qty)]
            /\ ledger' = [ledger EXCEPT ![r.by] = @ - r.qty, ![r.target] = @ + r.qty]
            /\ CanTake(r.by, r.qty)
        BY <1>3, <2>3 DEF SubAllocateToAgent
      <3>2. /\ alloc'[r.by].sub = alloc[r.by].sub + r.qty
            /\ alloc'[r.by].allocated = alloc[r.by].allocated
            /\ alloc'[r.by].booked = alloc[r.by].booked
            /\ ledger'[r.by] = ledger[r.by] - r.qty
        BY <1>b, <2>1, <3>1 DEF TypeOK, Row
      <3>3. /\ alloc'[r.target].sub = alloc[r.target].sub
            /\ alloc'[r.target].allocated = alloc[r.target].allocated + r.qty
            /\ alloc'[r.target].booked = alloc[r.target].booked
            /\ ledger'[r.target] = ledger[r.target] + r.qty
        BY <1>b, <2>1, <3>1 DEF TypeOK, Row, Upserted
      <3>4. \A o \in Owners \ {r.by, r.target} : alloc'[o] = alloc[o] /\ ledger'[o] = ledger[o]
        BY <1>b, <2>1, <3>1 DEF TypeOK
      <3>5. NoOversell'
        <4>1. \A o \in Owners : Sound(alloc[o])
          BY DEF QuotaInv, NoOversell, Sound
        <4>2. alloc[r.by].allocated - alloc[r.by].booked - alloc[r.by].sub >= r.qty
          BY <3>1 DEF CanTake, Available
        <4>3. Sound(alloc'[r.by])
          BY <1>b, <2>1, <3>2, <4>1, <4>2 DEF Sound, Row
        <4>4. Sound(alloc'[r.target])
          BY <1>b, <2>1, <3>3, <4>1 DEF Sound, Row
        <4>5. QED BY <4>1, <4>3, <4>4, <3>4 DEF NoOversell, Sound
      <3>6. LedgerExplainsQuota'
        BY <1>b, <2>1, <3>2, <3>3, <3>4 DEF QuotaInv, LedgerExplainsQuota, Row
      <3>7. QED BY <3>5, <3>6 DEF QuotaInv
    <2>4. QED BY <2>2, <2>3
  <1>4. CASE ReclaimFromSubAgent(h)
    <2>1. /\ r.target \in Agents /\ r.by \in Agents /\ r.by # r.target
          /\ r.qty \in Int /\ r.qty > 0
      BY <1>4, <1>a, QuantityIsPositive DEF ReclaimFromSubAgent, Named
    <2>2. CASE Refuse(h)
      BY <2>2, <1>c DEF Refuse
    <2>3. CASE ~Refuse(h)
      <3> DEFINE returned == Returned(r.by, r.qty)
      <3>1. /\ alloc' = [alloc EXCEPT ![r.target].allocated = @ - r.qty, ![r.by].sub = @ - returned]
            /\ ledger' = [ledger EXCEPT ![r.target] = @ - r.qty, ![r.by] = @ + returned]
            /\ CanTake(r.target, r.qty)
        BY <1>4, <2>3 DEF ReclaimFromSubAgent, ParentEvent
      <3>2. returned \in Int /\ returned >= 0 /\ (returned = 0 \/ returned <= alloc[r.by].sub)
        BY <1>b, <2>1 DEF Row, Returned
      <3> HIDE DEF returned
      <3>3. /\ alloc'[r.by].sub = alloc[r.by].sub - returned
            /\ alloc'[r.by].allocated = alloc[r.by].allocated
            /\ alloc'[r.by].booked = alloc[r.by].booked
            /\ ledger'[r.by] = ledger[r.by] + returned
        BY <1>b, <2>1, <3>1 DEF TypeOK, Row
      <3>4. /\ alloc'[r.target].sub = alloc[r.target].sub
            /\ alloc'[r.target].allocated = alloc[r.target].allocated - r.qty
            /\ alloc'[r.target].booked = alloc[r.target].booked
            /\ ledger'[r.target] = ledger[r.target] - r.qty
        BY <1>b, <2>1, <3>1 DEF TypeOK, Row
      <3>5. \A o \in Owners \ {r.by, r.target} : alloc'[o] = alloc[o] /\ ledger'[o] = ledger[o]
        BY <1>b, <2>1, <3>1 DEF TypeOK
      <3>6. NoOversell'
        <4>1. \A o \in Owners : Sound(alloc[o])
          BY DEF QuotaInv, NoOversell, Sound
        <4>2. alloc[r.target].allocated - alloc[r.target].booked - alloc[r.target].sub >= r.qty
          BY <3>1 DEF CanTake, Available
        <4>3. Sound(alloc'[r.by])
          BY <1>b, <2>1, <3>2, <3>3, <4>1 DEF Sound, Row
        <4>4. Sound(alloc'[r.target])
          BY <1>b, <2>1, <3>4, <4>1, <4>2 DEF Sound, Row
        <4>5. QED BY <4>1, <4>3, <4>4, <3>5 DEF NoOversell, Sound
      <3>7. LedgerExplainsQuota'
        BY <1>b, <2>1, <3>2, <3>3, <3>4, <3>5 DEF QuotaInv, LedgerExplainsQuota, Row
      <3>8. QED BY <3>6, <3>7 DEF QuotaInv
    <2>4. QED BY <2>2, <2>3
  <1>5. ASSUME NEW i \in OrderIds, CreateOfflineBooking(h, i) PROVE QuotaInv'
    <2>1. r.target \in Agents /\ r.qty \in Int /\ r.qty > 0
      BY <1>5, <1>a, QuantityIsPositive DEF CreateOfflineBooking, Named
    <2>2. CASE Refuse(h)
      BY <2>2, <1>c DEF Refuse
    <2>3. CASE ~Refuse(h)
      <3>1. /\ alloc' = [alloc EXCEPT ![r.target].booked = @ + r.qty]
            /\ UNCHANGED ledger /\ CanTake(r.target, r.qty)
        BY <1>5, <2>3 DEF CreateOfflineBooking
      <3>2. QED
        BY <1>b, <2>1, <3>1
           DEF QuotaInv, NoOversell, LedgerExplainsQuota, TypeOK, Row, CanTake, Available
    <2>4. QED BY <2>2, <2>3
  <1>6. CASE DeleteAgent(h)
    <2>1. r.target \in Agents
      BY <1>6, <1>a DEF DeleteAgent, Named
    <2>2. CASE Refuse(h)
      BY <2>2, <1>c DEF Refuse
    <2>3. CASE ~Refuse(h)
      <3>1. ArchiveRow(r.target, r.row)
        BY <1>6, <2>3 DEF DeleteAgent
      <3>2. QED
        BY <1>b, <2>1, <3>1
           DEF QuotaInv, NoOversell, LedgerExplainsQuota, TypeOK, Row, ArchiveRow, NoRow
    <2>4. QED BY <2>2, <2>3
  <1>7. CASE ToggleAgentStatus(h)
    BY <1>7, <1>c DEF ToggleAgentStatus, Refuse
  <1>8. ASSUME NEW a \in Agents, CreateSubAgent(h, a) PROVE QuotaInv'
    BY <1>8, <1>c DEF CreateSubAgent, Refuse
  <1>9. QED
    BY <1>1, <1>2, <1>3, <1>4, <1>5, <1>6, <1>7, <1>8 DEF Transaction

LEMMA InitQuota == Init => QuotaInv
  BY DEF Init, QuotaInv, NoOversell, LedgerExplainsQuota, NoRow

LEMMA NextQuota == TypeOK /\ QuotaInv /\ [Next]_vars => QuotaInv'
  <1> SUFFICES ASSUME TypeOK, QuotaInv, [Next]_vars PROVE QuotaInv'
    OBVIOUS
  <1>1. CASE UNCHANGED <<alloc, ledger>>
    BY <1>1 DEF QuotaInv, NoOversell, LedgerExplainsQuota
  <1>2. ASSUME NEW a \in Agents, CreateAgentAdmin(a) PROVE QuotaInv'
    BY <1>1, <1>2 DEF CreateAgentAdmin
  <1>3. ASSUME NEW h \in Handlers, BeginAdmin(h) \/ BeginAgent(h) PROVE QuotaInv'
    BY <1>1, <1>3, BeginLeavesRows
  <1>4. ASSUME NEW h \in Handlers, Transaction(h) PROVE QuotaInv'
    BY <1>4, TransactionQuota
  <1>5. ASSUME NEW i \in OrderIds, CancelOrder(i) \/ PurgeOrder(i) PROVE QuotaInv'
    BY <1>1, <1>5 DEF CancelOrder, PurgeOrder
  <1>6. QED
    BY <1>1, <1>2, <1>3, <1>4, <1>5, NextCases DEF vars

LEMMA QuotaInvariant == Spec => []QuotaInv
  BY InitTypeOK, NextTypeOK, InitQuota, NextQuota, PTL DEF Spec

(* The table's CHECK constraint is never hit: the guards of the UPDATEs    *)
(* imply it for any number of agents, handlers and quantities.             *)
THEOREM NeverOversold == Spec => []NoOversell
  BY QuotaInvariant, PTL DEF QuotaInv

(* The audit trail of every live agent's row adds up to its quota.         *)
THEOREM LedgerComplete == Spec => []LedgerExplainsQuota
  BY QuotaInvariant, PTL DEF QuotaInv

-----------------------------------------------------------------------------
(* The hierarchy of agents *)

(* A master that is creating a sub-agent can only be deleted meanwhile; it *)
(* never becomes a sub-agent itself.                                       *)
HierarchyInv ==
    /\ OneLevelHierarchy
    /\ \A h \in Handlers : request[h].op = "createSub" =>
          LET p == request[h].by IN
          account[p].role \in {MASTER, "deleted"} /\ account[p].parent = NoAgent

LEMMA InitHierarchy == Init => HierarchyInv
  BY DEF Init, HierarchyInv, OneLevelHierarchy, NoUser, Idle

LEMMA NextHierarchy == TypeOK /\ HierarchyInv /\ [Next]_vars => HierarchyInv'
  <1> SUFFICES ASSUME TypeOK, HierarchyInv, [Next]_vars PROVE HierarchyInv'
    OBVIOUS
  <1>a. \A x \in Agents : /\ account[x] \in Account
                          /\ account[x].parent \in Agents \cup {NoAgent}
                          /\ account[x].parent # NoAgent => account[x].role = SUB
    BY DEF TypeOK, Account
  <1>b. \A h \in Handlers : request[h].op = "createSub" => request[h].by \in Agents
    BY DEF TypeOK, Named
  <1>0. ASSUME UNCHANGED account,
               \A h \in Handlers : request'[h].op = "createSub" => request'[h] = request[h]
        PROVE  HierarchyInv'
    BY <1>0 DEF HierarchyInv, OneLevelHierarchy
  <1>1. ASSUME NEW h \in Handlers, Finish(h)
        PROVE  \A k \in Handlers : request'[k].op = "createSub" => request'[k] = request[k]
    BY <1>1 DEF Finish, Idle, TypeOK
  <1>2. ASSUME NEW a \in Agents, CreateAgentAdmin(a) PROVE HierarchyInv'
    <2>1. /\ account' = [account EXCEPT ![a] = NewUser(MASTER, NoAgent)]
          /\ account[a].role = "none" /\ UNCHANGED request
      BY <1>2 DEF CreateAgentAdmin
    <2>2. account'[a].role = MASTER /\ account'[a].parent = NoAgent
      BY <2>1 DEF TypeOK, NewUser
    <2>3. \A x \in Agents \ {a} : account'[x] = account[x]
      BY <2>1 DEF TypeOK
    <2>4. QED BY <1>a, <1>b, <2>1, <2>2, <2>3 DEF HierarchyInv, OneLevelHierarchy, MASTER, SUB
  <1>3. ASSUME NEW h \in Handlers, BeginAdmin(h) \/ BeginAgent(h) PROVE HierarchyInv'
    <2>1. UNCHANGED account
      BY <1>3, BeginLeavesRows
    <2>2. CASE \E p \in Agents : BeginCreateSubAgent(h, p)
      <3>1. PICK p \in Agents : BeginCreateSubAgent(h, p)
        BY <2>2
      <3>2. /\ request' = [request EXCEPT ![h] = [Idle EXCEPT !.op = "createSub", !.by = p]]
            /\ account[p].role = MASTER /\ account[p].parent = NoAgent
        BY <3>1 DEF BeginCreateSubAgent, Start
      <3>3. request'[h].by = p
        BY <3>2 DEF TypeOK, Idle
      <3>4. \A k \in Handlers \ {h} : request'[k] = request[k]
        BY <3>2 DEF TypeOK
      <3>5. QED BY <2>1, <3>2, <3>3, <3>4 DEF HierarchyInv, OneLevelHierarchy
    <2>3. CASE ~\E p \in Agents : BeginCreateSubAgent(h, p)
      <3>1. /\ request'[h].op # "createSub"
            /\ \A k \in Handlers \ {h} : request'[k] = request[k]
        <4>1. CASE \E a \in Agents : BeginToggleAgentStatus(h, a)
          BY <4>1 DEF BeginToggleAgentStatus, Start, Idle, TypeOK
        <4>2. CASE \E a \in Agents, super \in BOOLEAN : BeginDeleteAgent(h, a, super)
          BY <4>2 DEF BeginDeleteAgent, Start, Idle, TypeOK
        <4>3. CASE \E a \in Agents, q \in Quantities : BeginAllocateToAgent(h, a, q)
          BY <4>3 DEF BeginAllocateToAgent, Start, Idle, TypeOK
        <4>4. CASE \E a \in Agents, q \in Quantities : BeginReclaimFromAgent(h, a, q)
          BY <4>4 DEF BeginReclaimFromAgent, Start, Idle, TypeOK
        <4>5. CASE \E a \in Agents, q \in Quantities : BeginOfflineBooking(h, a, q)
          BY <4>5 DEF BeginOfflineBooking, Start, Idle, TypeOK
        <4>6. CASE \E a, s \in Agents, q \in Quantities : BeginSubAllocate(h, a, s, q)
          BY <4>6 DEF BeginSubAllocate, Start, Idle, TypeOK
        <4>7. CASE \E a, s \in Agents, q \in Quantities : BeginReclaimFromSubAgent(h, a, s, q)
          BY <4>7 DEF BeginReclaimFromSubAgent, Start, Idle, TypeOK
        <4>8. QED
          BY <1>3, <2>3, <4>1, <4>2, <4>3, <4>4, <4>5, <4>6, <4>7 DEF BeginAdmin, BeginAgent
      <3>2. \A k \in Handlers : request'[k].op = "createSub" => request'[k] = request[k]
        BY <3>1
      <3>3. QED BY <1>0, <2>1, <3>2
    <2>4. QED BY <2>2, <2>3
  <1>4. ASSUME NEW h \in Handlers, Transaction(h) PROVE HierarchyInv'
    <2> DEFINE r == request[h]
    <2>a. r \in Request /\ Named(r)
      BY DEF TypeOK
    <2>b. ASSUME Finish(h),
                 \A x \in Agents : account'[x].role = account[x].role
                                   /\ account'[x].parent = account[x].parent
          PROVE  HierarchyInv'
      <3>1. OneLevelHierarchy'
        BY <1>a, <2>b DEF HierarchyInv, OneLevelHierarchy
      <3>2. QED BY <1>1, <1>b, <2>b, <3>1 DEF HierarchyInv
    <2>c. CASE Refuse(h) \/ (Finish(h) /\ UNCHANGED account)
      BY <2>b, <2>c DEF Refuse
    <2>1. CASE ToggleAgentStatus(h)
      BY <2>1, <2>b, <2>c, <1>a DEF ToggleAgentStatus, TypeOK, Account
    <2>2. CASE SubAllocateToAgent(h)
      BY <2>2, <2>b, <2>c, <1>a DEF SubAllocateToAgent, TypeOK, Account
    <2>3. CASE ReclaimFromSubAgent(h)
      BY <2>3, <2>b, <2>c, <1>a DEF ReclaimFromSubAgent, TypeOK, Account
    <2>4. CASE AllocateToAgent(h)
      BY <2>4, <2>c DEF AllocateToAgent
    <2>5. CASE ReclaimFromAgent(h)
      BY <2>5, <2>c DEF ReclaimFromAgent
    <2>6. CASE \E i \in OrderIds : CreateOfflineBooking(h, i)
      BY <2>6, <2>c DEF CreateOfflineBooking
    <2>7. ASSUME NEW a \in Agents, CreateSubAgent(h, a), ~Refuse(h) PROVE HierarchyInv'
      <3>1. /\ account' = [account EXCEPT ![a] = NewUser(SUB, r.by)]
            /\ account[a].role = "none" /\ Exists(r.by) /\ Finish(h) /\ r.op = "createSub"
        BY <2>7 DEF CreateSubAgent
      <3>2. account'[a].role = SUB /\ account'[a].parent = r.by
        BY <3>1 DEF TypeOK, NewUser
      <3>3. \A x \in Agents \ {a} : account'[x] = account[x]
        BY <3>1 DEF TypeOK
      <3>4. /\ r.by \in Agents /\ r.by # a
            /\ account[r.by].role = MASTER /\ account[r.by].parent = NoAgent
        BY <1>b, <3>1 DEF HierarchyInv, Exists, AgentRoles, MASTER, SUB
      <3>5. OneLevelHierarchy'
        BY <1>a, <3>1, <3>2, <3>3, <3>4 DEF HierarchyInv, OneLevelHierarchy, MASTER
      <3>6. QED BY <1>1, <1>b, <3>1, <3>3, <3>5 DEF HierarchyInv, MASTER
    <2>8. ASSUME DeleteAgent(h), ~Refuse(h) PROVE HierarchyInv'
      <3>1. account' = AccountsWithout(r.target, r.subs) /\ Finish(h) /\ Exists(r.target)
        BY <2>8 DEF DeleteAgent
      <3>2. r.target \in Agents
        BY <2>8, <2>a DEF DeleteAgent, Named
      <3>3. account'[r.target].role = "deleted" /\ account'[r.target].parent = NoAgent
        BY <3>1, <3>2 DEF AccountsWithout, NoUser
      <3>4. ASSUME NEW x \in Agents, x # r.target
            PROVE  \/ account[x].parent # r.target /\ account'[x] = account[x]
                   \/ account[x].parent = r.target /\ account'[x].parent = NoAgent
        BY <3>1, <3>4 DEF AccountsWithout
      <3>5. OneLevelHierarchy'
        BY <1>a, <3>2, <3>3, <3>4 DEF HierarchyInv, OneLevelHierarchy
      <3>6. ASSUME NEW k \in Handlers, request'[k].op = "createSub"
            PROVE  account'[request'[k].by].role \in {MASTER, "deleted"}
                   /\ account'[request'[k].by].parent = NoAgent
        <4>1. request'[k] = request[k]
          BY <3>1, <3>6, <1>1
        <4>2. request[k].by \in Agents /\ account[request[k].by].parent = NoAgent
              /\ account[request[k].by].role \in {MASTER, "deleted"}
          BY <4>1, <3>6, <1>b DEF HierarchyInv
        <4>3. QED BY <4>1, <4>2, <3>2, <3>3, <3>4, OwnersAssumption
      <3>7. QED BY <3>5, <3>6 DEF HierarchyInv
    <2>9. QED
      BY <1>4, <2>c, <2>1, <2>2, <2>3, <2>4, <2>5, <2>6, <2>7, <2>8 DEF Transaction
  <1>5. ASSUME NEW i \in OrderIds, CancelOrder(i) \/ PurgeOrder(i) PROVE HierarchyInv'
    BY <1>0, <1>5 DEF CancelOrder, PurgeOrder
  <1>6. CASE UNCHANGED vars
    BY <1>0, <1>6 DEF vars
  <1>7. QED
    BY <1>2, <1>3, <1>4, <1>5, <1>6, NextCases

(* "Agent hierarchy is strictly 1 level (Agent -> Sub-Agent)", whatever    *)
(* creations and deletions of accounts overlap.                            *)
THEOREM HierarchyHolds == Spec => []OneLevelHierarchy
  <1>1. HierarchyInv => OneLevelHierarchy
    BY DEF HierarchyInv
  <1>2. QED
    BY InitTypeOK, NextTypeOK, InitHierarchy, NextHierarchy, <1>1, PTL DEF Spec

-----------------------------------------------------------------------------
(* The orders on a row *)

Qty         == [i \in OrderIds |-> order[i].qty]
OrdersOn(a) == {i \in OrderIds : order[i].owner = a}

(* An order that hangs on an agent's row is that agent's; an id not handed *)
(* out yet stands for nothing.                                             *)
OrderOK(r) == /\ r.owner \in Agents => r.agent = r.owner
              /\ r.status = "none" => r.agent = NoAgent /\ r.owner = NoAgent /\ r.qty = 0

BookedInv == /\ \A a \in Agents : alloc[a].booked >= SumFunctionOnSet(Qty, OrdersOn(a))
             /\ \A i \in OrderIds : OrderOK(order[i])

LEMMA BookedInvCovers == BookedInv => BookingsCoverOrders
  BY DEF BookedInv, BookingsCoverOrders, Qty, OrdersOn

(* A quantity is a number and every set of orders is finite. *)
LEMMA QtyNatural ==
    ASSUME TypeOK
    PROVE  /\ \A i \in OrderIds : Qty[i] \in Nat
           /\ \A S \in SUBSET OrderIds : IsFiniteSet(S)
                                        /\ SumFunctionOnSet(Qty, S) \in Nat
  <1>1. \A i \in OrderIds : Qty[i] \in Nat
    <2>1. Quantities \cup {0} \subseteq Nat
      BY QuantitiesAssumption
    <2>2. \A i \in OrderIds : order[i].qty \in Quantities \cup {0}
      BY DEF TypeOK, Order
    <2>3. QED BY <2>1, <2>2 DEF Qty
  <1>2. ASSUME NEW S \in SUBSET OrderIds
        PROVE  IsFiniteSet(S) /\ SumFunctionOnSet(Qty, S) \in Nat
    <2>1. IsFiniteSet(S)
      BY FiniteAssumption, FS_Subset
    <2>2. QED BY <1>1, <2>1, SumOfNaturals
  <1>3. QED BY <1>1, <1>2

LEMMA InitBooked == Init => BookedInv
  <1> SUFFICES ASSUME Init PROVE BookedInv
    OBVIOUS
  <1>1. \A a \in Agents : OrdersOn(a) = {} /\ alloc[a].booked = 0
    BY DEF Init, OrdersOn, NoRow
  <1>2. \A i \in OrderIds : OrderOK(order[i])
    BY DEF Init, OrderOK
  <1>3. QED BY <1>1, <1>2, SumOfNone DEF BookedInv

(* A step that leaves quantities alone, adds no order to a row and takes   *)
(* nothing off its bookings.                                               *)
LEMMA BookedKept ==
    ASSUME TypeOK, BookedInv, NEW a \in Agents,
           Qty' = Qty, OrdersOn(a)' \subseteq OrdersOn(a),
           alloc'[a].booked = alloc[a].booked
    PROVE  alloc'[a].booked >= SumFunctionOnSet(Qty', OrdersOn(a)')
  <1>1. OrdersOn(a) \in SUBSET OrderIds
    BY DEF OrdersOn
  <1>2. IsFiniteSet(OrdersOn(a)) /\ \A i \in OrdersOn(a) : Qty[i] \in Nat
    BY <1>1, QtyNatural
  <1>3. SumFunctionOnSet(Qty, OrdersOn(a)') <= SumFunctionOnSet(Qty, OrdersOn(a))
    BY <1>2, SumMonotone
  <1>4. /\ SumFunctionOnSet(Qty, OrdersOn(a)') \in Nat
        /\ SumFunctionOnSet(Qty, OrdersOn(a)) \in Nat
    BY <1>1, QtyNatural
  <1>5. alloc[a].booked >= SumFunctionOnSet(Qty, OrdersOn(a)) /\ alloc[a].booked \in Int
    BY DEF BookedInv, TypeOK, Row
  <1>6. QED BY <1>3, <1>4, <1>5

LEMMA BookingBooked ==
    ASSUME TypeOK, BookedInv, NEW h \in Handlers, NEW i \in OrderIds,
           CreateOfflineBooking(h, i), ~Refuse(h)
    PROVE  BookedInv'
  <1> DEFINE q == request[h].qty
  <1>0. request[h].target \in Agents /\ q \in Nat
    BY QuantityIsPositive DEF CreateOfflineBooking, TypeOK, Named
  <1>1. PICK a \in Agents : request[h].target = a
    BY <1>0
  <1>2. /\ order[i].status = "none"
        /\ alloc' = [alloc EXCEPT ![a].booked = @ + q]
        /\ order' = [order EXCEPT ![i] = [status |-> "PAID", agent |-> a, owner |-> a, qty |-> q]]
    BY <1>1 DEF CreateOfflineBooking
  <1>3. order[i].owner = NoAgent /\ order[i].qty = 0
    BY <1>2 DEF BookedInv, OrderOK
  <1>4. order'[i].owner = a /\ order'[i].qty = q /\ order'[i].agent = a
        /\ order'[i].status = "PAID"
    BY <1>2 DEF TypeOK
  <1>5. \A j \in OrderIds \ {i} : order'[j] = order[j]
    BY <1>2 DEF TypeOK
  <1>6. \A j \in OrderIds : OrderOK(order'[j])
    BY <1>4, <1>5 DEF BookedInv, OrderOK
  <1>7. /\ OrdersOn(a)' = OrdersOn(a) \cup {i} /\ i \notin OrdersOn(a)
        /\ \A b \in Agents \ {a} : OrdersOn(b)' = OrdersOn(b) /\ i \notin OrdersOn(b)
    <2>1. \A b \in Agents : i \notin OrdersOn(b)
      BY <1>3, OwnersAssumption DEF OrdersOn
    <2>2. \A j \in OrderIds : j \in OrdersOn(a)' <=> j \in OrdersOn(a) \/ j = i
      BY <1>4, <1>5 DEF OrdersOn
    <2>3. \A b \in Agents \ {a}, j \in OrderIds : j \in OrdersOn(b)' <=> j \in OrdersOn(b)
      BY <1>4, <1>5, <2>1 DEF OrdersOn
    <2>4. \A b \in Agents : OrdersOn(b) \subseteq OrderIds /\ OrdersOn(b)' \subseteq OrderIds
      BY DEF OrdersOn
    <2>5. QED BY <2>1, <2>2, <2>3, <2>4
  <1>8. Qty'[i] = q /\ \A j \in OrderIds \ {i} : Qty'[j] = Qty[j]
    BY <1>4, <1>5 DEF Qty
  <1>9. ASSUME NEW b \in Agents PROVE alloc'[b].booked >= SumFunctionOnSet(Qty', OrdersOn(b)')
    <2> DEFINE S == OrdersOn(b)
    <2>1. S \in SUBSET OrderIds /\ i \notin S
      BY <1>7 DEF OrdersOn
    <2>2. IsFiniteSet(S) /\ SumFunctionOnSet(Qty, S) \in Nat
      BY <2>1, QtyNatural
    <2>3. SumFunctionOnSet(Qty', S) = SumFunctionOnSet(Qty, S)
      <3>1. \A j \in S : Qty'[j] = Qty[j]
        BY <1>8, <2>1
      <3> HIDE DEF S
      <3>2. QED BY <2>2, <3>1, SumCongruence
    <2>4. alloc[b].booked >= SumFunctionOnSet(Qty, S) /\ alloc[b].booked \in Int
      BY DEF BookedInv, TypeOK, Row
    <2>5. CASE b = a
      <3> DEFINE U == S \cup {i}
      <3>1. IsFiniteSet(U) /\ U \ {i} = S /\ OrdersOn(b)' = U
        <4>1. IsFiniteSet(U)
          BY <2>2, FS_AddElement
        <4>2. QED BY <1>7, <2>1, <2>5, <4>1
      <3>2. \A j \in U : Qty'[j] \in Nat
        BY <1>0, <1>8, <2>1, QtyNatural
      <3>3. SumFunctionOnSet(Qty', U) = Qty'[i] + SumFunctionOnSet(Qty', U \ {i})
        <4>1. i \in U
          OBVIOUS
        <4> HIDE DEF U
        <4>2. QED BY <3>1, <3>2, <4>1, SumRemove
      <3>4. alloc'[b].booked = alloc[b].booked + q
        BY <1>0, <1>2, <2>5 DEF TypeOK, Row
      <3> HIDE DEF S, U
      <3>5. QED BY <1>0, <1>8, <2>2, <2>3, <2>4, <3>1, <3>3, <3>4
    <2>6. CASE b # a
      <3>1. OrdersOn(b)' = S /\ alloc'[b] = alloc[b]
        BY <1>2, <1>7, <2>6 DEF TypeOK
      <3> HIDE DEF S
      <3>2. QED BY <2>3, <2>4, <3>1
    <2>7. QED BY <2>5, <2>6
  <1>10. QED BY <1>6, <1>9 DEF BookedInv

LEMMA DeletionBooked ==
    ASSUME TypeOK, BookedInv, NEW h \in Handlers, DeleteAgent(h), ~Refuse(h)
    PROVE  BookedInv'
  <1> DEFINE seen == request[h].row
  <1>0. request[h].target \in Agents
    BY DEF DeleteAgent, TypeOK, Named
  <1>1. PICK a \in Agents : ArchiveRow(a, seen) /\ DetachOrders(a, seen)
    BY <1>0 DEF DeleteAgent
  <1>2. ASSUME NEW i \in OrderIds
        PROVE  /\ order'[i].qty = order[i].qty /\ order'[i].status = order[i].status
               /\ \/ order'[i] = order[i] /\ order[i].agent # a
                  \/ order'[i].agent = NoAgent /\ order'[i].owner \in {Archive, NoAgent}
    BY <1>1 DEF DetachOrders
  <1>3. \A i \in OrderIds : OrderOK(order'[i])
    <2>1. SUFFICES ASSUME NEW i \in OrderIds PROVE OrderOK(order'[i])
      OBVIOUS
    <2>2. OrderOK(order[i])
      BY DEF BookedInv
    <2>3. CASE order'[i] = order[i]
      BY <2>2, <2>3
    <2>4. CASE order'[i] # order[i]
      <3>1. /\ order[i].agent = a
            /\ order'[i] = [status |-> order[i].status, agent |-> NoAgent,
                           owner |-> IF seen THEN Archive ELSE NoAgent, qty |-> order[i].qty]
        BY <1>1, <2>4 DEF DetachOrders
      <3>2. order[i].status # "none"
        BY <1>1, <2>2, <3>1, OwnersAssumption DEF OrderOK
      <3>3. QED BY <3>1, <3>2, OwnersAssumption DEF OrderOK
    <2>5. QED BY <2>3, <2>4
  <1>4. Qty' = Qty
    BY <1>2 DEF Qty
  <1>5. \A b \in Agents : OrdersOn(b)' \subseteq OrdersOn(b)
    BY <1>2, OwnersAssumption DEF OrdersOn
  <1>6. OrdersOn(a)' = {}
    <2>1. \A i \in OrderIds : order'[i].owner # a
      <3>1. SUFFICES ASSUME NEW i \in OrderIds, order'[i].owner = a PROVE FALSE
        OBVIOUS
      <3>2. order'[i] = order[i] /\ order[i].agent # a
        BY <1>1, <1>2, <3>1, OwnersAssumption
      <3>3. QED BY <1>1, <3>1, <3>2 DEF BookedInv, OrderOK
    <2>2. QED BY <2>1 DEF OrdersOn
  <1>7. alloc'[a].booked = 0 /\ \A b \in Agents \ {a} : alloc'[b] = alloc[b]
    BY <1>1, OwnersAssumption DEF ArchiveRow, TypeOK, NoRow
  <1>8. ASSUME NEW b \in Agents PROVE alloc'[b].booked >= SumFunctionOnSet(Qty', OrdersOn(b)')
    <2>1. CASE b = a
      <3>1. SumFunctionOnSet(Qty', OrdersOn(b)') = 0
        BY <1>6, <2>1, SumOfNone
      <3>2. QED BY <1>7, <2>1, <3>1
    <2>2. CASE b # a
      BY <1>4, <1>5, <1>7, <2>2, BookedKept
    <2>3. QED BY <2>1, <2>2
  <1>9. QED BY <1>3, <1>8 DEF BookedInv

(* The other transactions touch no order and no booked quantity. *)
LEMMA QuotaBooked ==
    ASSUME TypeOK, NEW h \in Handlers,
           \/ ToggleAgentStatus(h) \/ AllocateToAgent(h) \/ ReclaimFromAgent(h)
           \/ SubAllocateToAgent(h) \/ ReclaimFromSubAgent(h)
           \/ \E a \in Agents : CreateSubAgent(h, a)
    PROVE  /\ UNCHANGED order
           /\ \A a \in Agents : alloc'[a].booked = alloc[a].booked
  <1> DEFINE r == request[h]
  <1>1. r \in Request /\ Named(r) /\ \A o \in Owners : alloc[o] \in Row
    BY DEF TypeOK
  <1>2. CASE Refuse(h) \/ ToggleAgentStatus(h) \/ \E a \in Agents : CreateSubAgent(h, a)
    BY <1>2 DEF Refuse, ToggleAgentStatus, CreateSubAgent
  <1>3. CASE AllocateToAgent(h) /\ ~Refuse(h)
    BY <1>1, <1>3 DEF AllocateToAgent, Named, TypeOK, Row, Upserted
  <1>4. CASE ReclaimFromAgent(h) /\ ~Refuse(h)
    BY <1>1, <1>4 DEF ReclaimFromAgent, Named, TypeOK, Row
  <1>5. CASE SubAllocateToAgent(h) /\ ~Refuse(h)
    BY <1>1, <1>5 DEF SubAllocateToAgent, Named, TypeOK, Row, Upserted
  <1>6. CASE ReclaimFromSubAgent(h) /\ ~Refuse(h)
    BY <1>1, <1>6 DEF ReclaimFromSubAgent, Named, TypeOK, Row
  <1>7. QED BY <1>2, <1>3, <1>4, <1>5, <1>6

LEMMA NextBooked == TypeOK /\ BookedInv /\ [Next]_vars => BookedInv'
  <1> SUFFICES ASSUME TypeOK, BookedInv, [Next]_vars PROVE BookedInv'
    OBVIOUS
  <1>1. ASSUME UNCHANGED order, \A a \in Agents : alloc'[a].booked = alloc[a].booked
        PROVE  BookedInv'
    <2>1. Qty' = Qty /\ \A a \in Agents : OrdersOn(a)' = OrdersOn(a)
      BY <1>1 DEF Qty, OrdersOn
    <2>2. QED BY <1>1, <2>1 DEF BookedInv
  <1>2. ASSUME NEW a \in Agents, CreateAgentAdmin(a) PROVE BookedInv'
    BY <1>1, <1>2 DEF CreateAgentAdmin
  <1>3. ASSUME NEW h \in Handlers, BeginAdmin(h) \/ BeginAgent(h) PROVE BookedInv'
    BY <1>1, <1>3, BeginLeavesRows
  <1>4. ASSUME NEW h \in Handlers, Transaction(h) PROVE BookedInv'
    <2>1. CASE Refuse(h)
      BY <1>1, <2>1 DEF Refuse
    <2>2. CASE DeleteAgent(h) /\ ~Refuse(h)
      BY <2>2, DeletionBooked
    <2>3. CASE ~Refuse(h) /\ \E i \in OrderIds : CreateOfflineBooking(h, i)
      BY <2>3, BookingBooked
    <2>4. QED BY <1>1, <1>4, <2>1, <2>2, <2>3, QuotaBooked DEF Transaction
  <1>5. ASSUME NEW i \in OrderIds, CancelOrder(i) \/ PurgeOrder(i) PROVE BookedInv'
    <2>1. \A j \in OrderIds : order'[j].qty = order[j].qty
                              /\ order'[j].owner \in {order[j].owner, NoAgent}
      BY <1>5 DEF CancelOrder, PurgeOrder, TypeOK, Order
    <2>2. \A j \in OrderIds : OrderOK(order'[j])
      BY <1>5, OwnersAssumption DEF CancelOrder, PurgeOrder, TypeOK, Order, BookedInv, OrderOK
    <2>3. UNCHANGED alloc
      BY <1>5 DEF CancelOrder, PurgeOrder
    <2>4. Qty' = Qty /\ \A a \in Agents : OrdersOn(a)' \subseteq OrdersOn(a)
      BY <2>1, OwnersAssumption DEF Qty, OrdersOn
    <2>5. QED BY <2>2, <2>3, <2>4, BookedKept DEF BookedInv
  <1>6. CASE UNCHANGED vars
    BY <1>1, <1>6 DEF vars
  <1>7. QED BY <1>2, <1>3, <1>4, <1>5, <1>6, NextCases

(* The bookings of a row cover the orders that hang on it, for any number  *)
(* of orders: commercial-agent.service.ts gives back no booked quantity.   *)
THEOREM BookingsAlwaysCover == Spec => []BookingsCoverOrders
  BY InitTypeOK, NextTypeOK, InitBooked, NextBooked, BookedInvCovers, PTL DEF Spec

-----------------------------------------------------------------------------
(* The pool of passes *)

Sold   == SumFunctionOnSet(Qty, OrderIds)
Unsold == [a \in Agents |-> Available(a)]
InHand == SumFunctionOnSet(Unsold, Agents)

(* What agents may still sell was granted and is not sold.  A reclaim whose*)
(* second UPDATE matches nothing, the archive and deleted accounts leave   *)
(* passes in nobody's hands, so this is no equation.                       *)
PoolInv == Sold + InHand <= granted

(* What the sums are, and that none of their terms exceeds them. *)
Numbers == /\ granted \in Int /\ Sold \in Nat /\ InHand \in Nat
           /\ \A i \in OrderIds : Qty[i] \in Nat
           /\ \A a \in Agents : Unsold[a] = Available(a) /\ Unsold[a] \in Nat
                                /\ Unsold[a] <= InHand

LEMMA SumsAreNumbers == TypeOK /\ QuotaInv => Numbers
  <1> SUFFICES ASSUME TypeOK, QuotaInv PROVE Numbers
    OBVIOUS
  <1>1. Sold \in Nat /\ \A i \in OrderIds : Qty[i] \in Nat
    BY QtyNatural DEF Sold
  <1>2. \A a \in Agents : Unsold[a] = Available(a) /\ Unsold[a] \in Nat
    BY DEF Unsold, Available, QuotaInv, NoOversell, TypeOK, Row
  <1>3. InHand \in Nat
    BY <1>2, FiniteAssumption, SumOfNaturals DEF InHand
  <1>4. ASSUME NEW a \in Agents PROVE Unsold[a] <= InHand
    <2>1. InHand = Unsold[a] + SumFunctionOnSet(Unsold, Agents \ {a})
      BY <1>2, FiniteAssumption, SumRemove DEF InHand
    <2>2. SumFunctionOnSet(Unsold, Agents \ {a}) \in Nat
      <3>1. IsFiniteSet(Agents \ {a}) /\ \A b \in Agents \ {a} : Unsold[b] \in Nat
        BY <1>2, FiniteAssumption, FS_Subset
      <3>2. QED BY <3>1, SumOfNaturals
    <2>3. QED BY <1>2, <2>1, <2>2
  <1>5. QED BY <1>1, <1>2, <1>3, <1>4 DEF Numbers, TypeOK

(* What one agent's row gains or loses, the total does. *)
LEMMA OneRowMoves ==
    ASSUME Numbers, Numbers', NEW a \in Agents,
           \A b \in Agents \ {a} : alloc'[b] = alloc[b]
    PROVE  InHand' = InHand - Available(a) + Available(a)'
  <1>1. \A b \in Agents : Unsold[b] \in Nat /\ Unsold'[b] \in Nat
    BY DEF Numbers
  <1>2. \A b \in Agents \ {a} : Unsold[b] = Unsold'[b]
    BY DEF Unsold, Available
  <1>3. SumFunctionOnSet(Unsold', Agents)
           = SumFunctionOnSet(Unsold, Agents) - Unsold[a] + Unsold'[a]
    BY <1>1, <1>2, FiniteAssumption, SumUpdated
  <1>4. Unsold[a] = Available(a) /\ Unsold'[a] = Available(a)'
    BY DEF Unsold, Available
  <1>5. QED BY <1>3, <1>4 DEF InHand

LEMMA TwoRowsMove ==
    ASSUME Numbers, Numbers', NEW a \in Agents, NEW p \in Agents, a # p,
           \A b \in Agents \ {a, p} : alloc'[b] = alloc[b]
    PROVE  InHand' = InHand - Available(a) + Available(a)' - Available(p) + Available(p)'
  <1> DEFINE mid == [Unsold EXCEPT ![a] = Unsold'[a]]
  <1>1. \A b \in Agents : Unsold[b] \in Nat /\ Unsold'[b] \in Nat
    BY DEF Numbers
  <1>2. mid[a] = Unsold'[a] /\ \A b \in Agents \ {a} : mid[b] = Unsold[b]
    BY DEF Unsold
  <1>3. \A b \in Agents \ {p} : mid[b] = Unsold'[b]
    BY <1>2 DEF Unsold, Available
  <1> HIDE DEF mid
  <1>4. \A b \in Agents : mid[b] \in Nat
    BY <1>1, <1>2
  <1>5. SumFunctionOnSet(mid, Agents) = SumFunctionOnSet(Unsold, Agents) - Unsold[a] + mid[a]
    BY <1>1, <1>2, <1>4, FiniteAssumption, SumUpdated
  <1>6. SumFunctionOnSet(Unsold', Agents) = SumFunctionOnSet(mid, Agents) - mid[p] + Unsold'[p]
    BY <1>1, <1>3, <1>4, FiniteAssumption, SumUpdated
  <1>7. mid[p] = Unsold[p]
    BY <1>2
  <1>8. /\ Unsold[a] = Available(a) /\ Unsold'[a] = Available(a)'
        /\ Unsold[p] = Available(p) /\ Unsold'[p] = Available(p)'
    BY DEF Unsold, Available
  <1>9. QED
    BY <1>1, <1>2, <1>5, <1>6, <1>7, <1>8 DEF InHand, Numbers

(* Rows and orders of a step that sells, grants and withdraws nothing. *)
LEMMA NothingMoves ==
    ASSUME PoolInv, UNCHANGED <<alloc, granted>>, Qty' = Qty
    PROVE  PoolInv' /\ UNCHANGED <<granted, Sold>>
  <1>1. Unsold' = Unsold
    BY DEF Unsold, Available
  <1>2. QED BY <1>1 DEF PoolInv, Sold, InHand

-----------------------------------------------------------------------------
(* Each step as a step of the pool *)

PoolStep == PoolInv' /\ (UNCHANGED <<granted, Sold>> \/ Pool!Next)

LEMMA PoolSold == Pool!Init <=> granted = 0 /\ Sold = 0
  BY DEF Pool!Init, Sold, Qty

LEMMA GrantPool ==
    ASSUME TypeOK, Numbers, Numbers', PoolInv,
           NEW h \in Handlers, AllocateToAgent(h), ~Refuse(h)
    PROVE  PoolStep
  <1>1. request[h].target \in Agents /\ request[h].qty \in Quantities
    BY DEF AllocateToAgent, TypeOK, Named
  <1>2. PICK a \in Agents, q \in Quantities : request[h].target = a /\ request[h].qty = q
    BY <1>1
  <1>3. /\ alloc' = [alloc EXCEPT ![a] = Upserted(@, q)]
        /\ granted' = granted + q /\ UNCHANGED order
    BY <1>2 DEF AllocateToAgent
  <1>4. Available(a)' = Available(a) + q /\ \A b \in Agents \ {a} : alloc'[b] = alloc[b]
    BY <1>3, QuantityIsPositive DEF Available, Upserted, TypeOK, Row
  <1>5. Available(a) \in Nat /\ q \in Int
    BY QuantityIsPositive DEF Numbers
  <1>6. InHand' = InHand + q
    BY <1>4, <1>5, OneRowMoves DEF Numbers
  <1>7. Sold' = Sold
    BY <1>3 DEF Sold, Qty
  <1>8. PoolInv'
    BY <1>3, <1>5, <1>6, <1>7 DEF PoolInv, Numbers
  <1>9. Pool!Grant(q)
    BY <1>3, <1>7 DEF Pool!Grant, Sold, Qty
  <1>10. QED BY <1>8, <1>9 DEF PoolStep, Pool!Next

LEMMA WithdrawPool ==
    ASSUME TypeOK, Numbers, Numbers', PoolInv,
           NEW h \in Handlers, ReclaimFromAgent(h), ~Refuse(h)
    PROVE  PoolStep
  <1>1. request[h].target \in Agents /\ request[h].qty \in Quantities
    BY DEF ReclaimFromAgent, TypeOK, Named
  <1>2. PICK a \in Agents, q \in Quantities : request[h].target = a /\ request[h].qty = q
    BY <1>1
  <1>3. /\ alloc' = [alloc EXCEPT ![a].allocated = @ - q]
        /\ granted' = granted - q /\ UNCHANGED order /\ Available(a) >= q
    BY <1>2 DEF ReclaimFromAgent, CanTake
  <1>4. Available(a)' = Available(a) - q /\ \A b \in Agents \ {a} : alloc'[b] = alloc[b]
    BY <1>3, QuantityIsPositive DEF Available, TypeOK, Row
  <1>5. Available(a) \in Nat /\ Available(a) <= InHand /\ q \in Int
    BY QuantityIsPositive DEF Numbers
  <1>6. InHand' = InHand - q
    BY <1>4, <1>5, OneRowMoves DEF Numbers
  <1>7. Sold' = Sold
    BY <1>3 DEF Sold, Qty
  <1>8. PoolInv'
    BY <1>3, <1>5, <1>6, <1>7 DEF PoolInv, Numbers
  <1>9. granted - q >= Sold
    BY <1>3, <1>5 DEF PoolInv, Numbers
  <1>10. Pool!Withdraw(q)
    BY <1>3, <1>7, <1>9 DEF Pool!Withdraw, Sold, Qty
  <1>11. QED BY <1>8, <1>10 DEF PoolStep, Pool!Next

LEMMA SellPool ==
    ASSUME TypeOK, BookedInv, Numbers, Numbers', PoolInv,
           NEW h \in Handlers, NEW i \in OrderIds, CreateOfflineBooking(h, i), ~Refuse(h)
    PROVE  PoolStep
  <1>1. request[h].target \in Agents /\ request[h].qty \in Quantities
    BY DEF CreateOfflineBooking, TypeOK, Named
  <1>2. PICK a \in Agents, q \in Quantities : request[h].target = a /\ request[h].qty = q
    BY <1>1
  <1>3. /\ alloc' = [alloc EXCEPT ![a].booked = @ + q]
        /\ order' = [order EXCEPT ![i] = [status |-> "PAID", agent |-> a, owner |-> a, qty |-> q]]
        /\ order[i].status = "none" /\ UNCHANGED granted /\ Available(a) >= q
    BY <1>2 DEF CreateOfflineBooking, CanTake
  <1>4. Available(a)' = Available(a) - q /\ \A b \in Agents \ {a} : alloc'[b] = alloc[b]
    BY <1>3, QuantityIsPositive DEF Available, TypeOK, Row
  <1>5. Available(a) \in Nat /\ Available(a) <= InHand /\ q \in Int
    BY QuantityIsPositive DEF Numbers
  <1>6. InHand' = InHand - q
    BY <1>4, <1>5, OneRowMoves DEF Numbers
  <1>7. Qty[i] = 0 /\ Qty'[i] = q /\ \A j \in OrderIds \ {i} : Qty[j] = Qty'[j]
    BY <1>3 DEF Qty, TypeOK, BookedInv, OrderOK
  <1>8. Sold' = Sold + q
    <2>1. \A j \in OrderIds : Qty[j] \in Nat /\ Qty'[j] \in Nat
      BY DEF Numbers
    <2>2. SumFunctionOnSet(Qty', OrderIds) = SumFunctionOnSet(Qty, OrderIds) - Qty[i] + Qty'[i]
      BY <1>7, <2>1, FiniteAssumption, SumUpdated
    <2>3. QED BY <1>5, <1>7, <2>2 DEF Sold, Numbers
  <1>9. PoolInv'
    BY <1>3, <1>5, <1>6, <1>8 DEF PoolInv, Numbers
  <1>10. Sold + q <= granted
    BY <1>3, <1>5 DEF PoolInv, Numbers
  <1>11. Pool!Sell(q)
    BY <1>3, <1>8, <1>10 DEF Pool!Sell, Sold, Qty
  <1>12. QED BY <1>9, <1>11 DEF PoolStep, Pool!Next

(* Between a master and a sub-agent passes change hands, or get lost. *)
LEMMA HandOverPool ==
    ASSUME TypeOK, Numbers, Numbers', PoolInv,
           NEW h \in Handlers, SubAllocateToAgent(h) \/ ReclaimFromSubAgent(h), ~Refuse(h)
    PROVE  PoolStep
  <1>1. /\ request[h].target \in Agents /\ request[h].by \in Agents
        /\ request[h].by # request[h].target /\ request[h].qty \in Quantities
    BY DEF SubAllocateToAgent, ReclaimFromSubAgent, TypeOK, Named
  <1>2. PICK a \in Agents, p \in Agents, q \in Quantities :
           request[h].target = a /\ request[h].by = p /\ request[h].qty = q
    BY <1>1
  <1>3. a # p /\ q \in Int /\ q > 0 /\ alloc[a] \in Row /\ alloc[p] \in Row
    BY <1>1, <1>2, QuantityIsPositive DEF TypeOK
  <1>4. UNCHANGED <<order, granted>>
    BY DEF SubAllocateToAgent, ReclaimFromSubAgent
  <1>5. /\ \A b \in Agents \ {a, p} : alloc'[b] = alloc[b]
        /\ Available(a)' + Available(p)' <= Available(a) + Available(p)
    <2>1. CASE SubAllocateToAgent(h)
      <3>1. alloc' = [alloc EXCEPT ![p].sub = @ + q, ![a] = Upserted(@, q)]
        BY <1>2, <2>1 DEF SubAllocateToAgent
      <3>2. /\ alloc'[p].sub = alloc[p].sub + q /\ alloc'[p].booked = alloc[p].booked
            /\ alloc'[p].allocated = alloc[p].allocated
            /\ alloc'[a].allocated = alloc[a].allocated + q
            /\ alloc'[a].booked = alloc[a].booked /\ alloc'[a].sub = alloc[a].sub
        BY <1>3, <3>1 DEF TypeOK, Row, Upserted
      <3>3. \A b \in Agents \ {a, p} : alloc'[b] = alloc[b]
        BY <3>1 DEF TypeOK
      <3>4. QED BY <1>3, <3>2, <3>3 DEF Available, Row
    <2>2. CASE ReclaimFromSubAgent(h)
      <3> DEFINE returned == Returned(p, q)
      <3>0. returned \in 0 .. q
        BY <1>3 DEF Returned
      <3>1. alloc' = [alloc EXCEPT ![a].allocated = @ - q, ![p].sub = @ - returned]
        BY <1>2, <2>2 DEF ReclaimFromSubAgent
      <3> HIDE DEF returned
      <3>2. /\ alloc'[p].sub = alloc[p].sub - returned /\ alloc'[p].booked = alloc[p].booked
            /\ alloc'[p].allocated = alloc[p].allocated
            /\ alloc'[a].allocated = alloc[a].allocated - q
            /\ alloc'[a].booked = alloc[a].booked /\ alloc'[a].sub = alloc[a].sub
        BY <1>3, <3>1 DEF TypeOK, Row
      <3>3. \A b \in Agents \ {a, p} : alloc'[b] = alloc[b]
        BY <3>1 DEF TypeOK
      <3>4. QED BY <1>3, <3>0, <3>2, <3>3 DEF Available, Row
    <2>3. QED BY <2>1, <2>2
  <1>6. /\ Available(a) \in Int /\ Available(a)' \in Int
        /\ Available(p) \in Int /\ Available(p)' \in Int
    BY DEF Numbers
  <1>7. InHand' <= InHand
    BY <1>3, <1>5, <1>6, TwoRowsMove DEF Numbers
  <1>8. Sold' = Sold
    BY <1>4 DEF Sold, Qty
  <1>9. QED BY <1>4, <1>7, <1>8 DEF PoolStep, PoolInv, Numbers

LEMMA DeletionPool ==
    ASSUME TypeOK, Numbers, Numbers', PoolInv,
           NEW h \in Handlers, DeleteAgent(h), ~Refuse(h)
    PROVE  PoolStep
  <1>1. request[h].target \in Agents
    BY DEF DeleteAgent, TypeOK, Named
  <1>2. PICK a \in Agents : request[h].target = a
    BY <1>1
  <1>3. ArchiveRow(a, request[h].row) /\ DetachOrders(a, request[h].row) /\ UNCHANGED granted
    BY <1>2 DEF DeleteAgent
  <1>4. alloc'[a] = NoRow /\ \A b \in Agents \ {a} : alloc'[b] = alloc[b]
    BY <1>3, OwnersAssumption DEF ArchiveRow, TypeOK
  <1>5. Available(a)' = 0
    BY <1>4 DEF Available, NoRow
  <1>6. Available(a) \in Nat
    BY DEF Numbers
  <1>7. InHand' <= InHand
    BY <1>4, <1>5, <1>6, OneRowMoves DEF Numbers
  <1>8. Sold' = Sold
    BY <1>3 DEF Sold, Qty, DetachOrders
  <1>9. QED BY <1>3, <1>7, <1>8 DEF PoolStep, PoolInv, Numbers

LEMMA InitPool == Init => PoolInv /\ Pool!Init
  <1> SUFFICES ASSUME Init PROVE PoolInv /\ Pool!Init
    OBVIOUS
  <1> DEFINE zero(S) == [x \in S |-> 0]
  <1>1. Qty = zero(OrderIds) /\ Unsold = zero(Agents) /\ granted = 0
    BY DEF Init, Qty, Unsold, Available, NoRow
  <1>2. Sold = 0 /\ InHand = 0
    BY <1>1, FiniteAssumption, SumOfZeros DEF Sold, InHand
  <1>3. QED BY <1>1, <1>2, PoolSold DEF PoolInv

LEMMA NextPool ==
    TypeOK /\ TypeOK' /\ QuotaInv /\ QuotaInv' /\ BookedInv /\ PoolInv /\ [Next]_vars => PoolStep
  <1> SUFFICES ASSUME TypeOK, TypeOK', QuotaInv, QuotaInv', BookedInv, PoolInv, [Next]_vars
               PROVE  PoolStep
    OBVIOUS
  <1>1. Numbers
    BY SumsAreNumbers
  <1>2. Numbers'
    <2>1. (TypeOK /\ QuotaInv => Numbers)'
      BY SumsAreNumbers, PTL
    <2>2. QED BY <2>1
  <1>3. ASSUME UNCHANGED <<alloc, granted>>, Qty' = Qty PROVE PoolStep
    BY <1>3, NothingMoves DEF PoolStep
  <1>4. ASSUME UNCHANGED <<alloc, granted, order>> PROVE PoolStep
    BY <1>3, <1>4 DEF Qty
  <1>5. ASSUME NEW a \in Agents, CreateAgentAdmin(a) PROVE PoolStep
    BY <1>4, <1>5 DEF CreateAgentAdmin
  <1>6. ASSUME NEW h \in Handlers, BeginAdmin(h) \/ BeginAgent(h) PROVE PoolStep
    BY <1>4, <1>6, BeginLeavesRows
  <1>7. ASSUME NEW h \in Handlers, Transaction(h) PROVE PoolStep
    <2>1. CASE Refuse(h) \/ ToggleAgentStatus(h) \/ \E a \in Agents : CreateSubAgent(h, a)
      BY <1>4, <2>1 DEF Refuse, ToggleAgentStatus, CreateSubAgent
    <2>2. CASE AllocateToAgent(h) /\ ~Refuse(h)
      BY <1>1, <1>2, <2>2, GrantPool
    <2>3. CASE ReclaimFromAgent(h) /\ ~Refuse(h)
      BY <1>1, <1>2, <2>3, WithdrawPool
    <2>4. CASE (SubAllocateToAgent(h) \/ ReclaimFromSubAgent(h)) /\ ~Refuse(h)
      BY <1>1, <1>2, <2>4, HandOverPool
    <2>5. CASE DeleteAgent(h) /\ ~Refuse(h)
      BY <1>1, <1>2, <2>5, DeletionPool
    <2>6. CASE ~Refuse(h) /\ \E i \in OrderIds : CreateOfflineBooking(h, i)
      BY <1>1, <1>2, <2>6, SellPool
    <2>7. QED BY <1>7, <2>1, <2>2, <2>3, <2>4, <2>5, <2>6 DEF Transaction
  <1>8. ASSUME NEW i \in OrderIds, CancelOrder(i) \/ PurgeOrder(i) PROVE PoolStep
    <2>1. UNCHANGED <<alloc, granted>> /\ \A j \in OrderIds : order'[j].qty = order[j].qty
      BY <1>8 DEF CancelOrder, PurgeOrder, TypeOK, Order
    <2>2. QED BY <1>3, <2>1 DEF Qty
  <1>9. CASE UNCHANGED vars
    BY <1>4, <1>9 DEF vars
  <1>10. QED BY <1>5, <1>6, <1>7, <1>8, <1>9, NextCases

(* Agents, sub-agents, the archive and deleted accounts together sell what *)
(* an administrator granted and did not withdraw, and nothing else: each   *)
(* transaction of commercial-agent.service.ts is a grant, a withdrawal or  *)
(* a sale of the one pool, or invisible in it.                             *)
THEOREM AgentsImplementPool == Spec => ImplementsPool
  <1>1. Init => TypeOK /\ QuotaInv /\ BookedInv /\ PoolInv /\ Pool!Init
    BY InitTypeOK, InitQuota, InitBooked, InitPool
  <1>2. TypeOK /\ QuotaInv /\ BookedInv /\ PoolInv /\ [Next]_vars
           => TypeOK' /\ QuotaInv' /\ BookedInv' /\ PoolInv' /\ [Pool!Next]_(Pool!vars)
    <2>1. PoolStep => PoolInv' /\ [Pool!Next]_(Pool!vars)
      BY DEF PoolStep, Pool!vars, Sold, Qty
    <2>2. QED BY <2>1, NextTypeOK, NextQuota, NextBooked, NextPool
  <1>3. QED BY <1>1, <1>2, PTL DEF Spec, ImplementsPool, Pool!Spec
=============================================================================

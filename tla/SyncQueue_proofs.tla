-------------------------- MODULE SyncQueue_proofs --------------------------
(***************************************************************************)
(* Proofs about SyncQueue, for every set of orders and payments, every     *)
(* bound, every set of faults and whether or not the workstation crashes.  *)
(*                                                                         *)
(* None of the three invariants is inductive alone.  IInv adds what links  *)
(* them: rows, tasks and requests are well formed, every Cloud id the      *)
(* workstation remembers or puts in a request belongs to the order it is   *)
(* used for, Cloud holds one order for a local one, every payment on Cloud *)
(* lies on an order of its own local order under its own key, and a        *)
(* payment Cloud answered "ok" for is there.                               *)
(***************************************************************************)
EXTENDS SyncQueue, SequenceTheorems, TLAPS

(* A task or a row of an order names an order; one of a payment names a    *)
(* payment and, once it is a row, carries the payment's own key.           *)
TaskOK(t) == IF t.op = "order.create" THEN t.ent \in Orders ELSE t.ent \in Payments
RowOK(r)  == TaskOK(r) /\ (r.op # "order.create" => r.key = r.ent)

(* The local order a row is about. *)
OrderOfRow(r) == IF r.op = "order.create" THEN r.ent ELSE OrderOf[r.ent]

(* Cloud id c is none, or was minted for the local order o. *)
Names(c, o) == c = 0 \/ (c \in CloudIds /\ cloud[c].client = o)

(* Payment p is on Cloud order c, or was until Cloud lost c. *)
Paid(p, c) == c \in CloudIds /\ (BookedOn(c, p) \/ cloud[c].state = "gone")

WellFormed ==
  /\ \A t \in todo : TaskOK(t)
  /\ \A i \in Rows : RowOK(queue[i])
  /\ pc \in {"rehomedOrphan", "rehomedRow"} => queue[flight.row].ent \in Kiosk

IdsInv ==
  /\ \A o \in Orders : Names(orderCloud[o], o)
  /\ \A p \in Payments : Names(payCloud[p], OrderOf[p])
  /\ \A r \in late : Names(r.target, OrderOfRow(queue[r.row]))
  /\ flight.row # 0 => /\ Names(flight.target, OrderOfRow(queue[flight.row]))
                       /\ Names(flight.id, OrderOfRow(queue[flight.row]))

(* StoreOrder mints an order only where Cloud holds none for its client.   *)
OneCloudOrder ==
  \A c, d \in CloudIds :
    /\ cloud[c].client = cloud[d].client
    /\ "gone" \notin {cloud[c].state, cloud[d].state}
    => c = d

BookedInv ==
  \A b \in booked : /\ b.key = b.payment
                    /\ b.order \in HeldFor(OrderOf[b.payment])

PaidInv ==
  /\ \A p \in Payments : payCloud[p] # 0 => Paid(p, payCloud[p])
  /\ flight.row # 0 /\ flight.answer = "ok" /\ queue[flight.row].op = "payment.create"
        => Paid(queue[flight.row].ent, flight.id)

IInv == TypeOK /\ WellFormed /\ IdsInv /\ OneCloudOrder /\ BookedInv /\ PaidInv

-----------------------------------------------------------------------------
(* How the two shared sequences may change: rows and Cloud orders are      *)
(* appended, never removed, and keep what identifies them.                 *)

QueueStep ==
  /\ queue' \in Seq(Row)
  /\ Len(queue') \in Len(queue)..MaxQueue
  /\ \A i \in Rows : /\ queue'[i].op = queue[i].op
                     /\ queue'[i].ent = queue[i].ent
                     /\ queue'[i].key = queue[i].key
  /\ \A i \in Rows' \ Rows : RowOK(queue'[i])

CloudStep ==
  /\ cloud' \in Seq([client : Orders, state : OrderStates])
  /\ Len(cloud') >= Len(cloud)
  /\ \A c \in CloudIds : /\ cloud'[c].client = cloud[c].client
                         /\ cloud[c].state = "gone" => cloud'[c].state = "gone"
                         /\ cloud[c].state = "closed" => cloud'[c].state \in {"closed", "gone"}

(* A function on 1..n is a sequence of length n. *)
LEMMA FunctionIsSeq ==
  ASSUME NEW S, NEW n \in Nat, NEW f \in [1..n -> S]
  PROVE  f \in Seq(S) /\ Len(f) = n
  BY SeqDef

(* One row rewritten, its identity kept. *)
LEMMA RowRewritten ==
  ASSUME TypeOK, NEW i \in Rows, NEW r \in Row,
         r.op = queue[i].op, r.ent = queue[i].ent, r.key = queue[i].key,
         queue' = [queue EXCEPT ![i] = r]
  PROVE  QueueStep
  <1>1. /\ queue' \in Seq(Row) /\ Len(queue') = Len(queue)
        /\ \A j \in Rows : queue'[j] = IF j = i THEN r ELSE queue[j]
    BY ExceptSeq DEF TypeOK, Rows
  <1>2. Len(queue) \in Nat /\ MaxQueue \in Nat /\ Len(queue) <= MaxQueue
    BY SyncQueueAssumption, LenProperties DEF TypeOK
  <1> QED BY <1>1, <1>2 DEF QueueStep, Rows

(* Many rows rewritten by one UPDATE, their identities kept. *)
LEMMA RowsRewritten ==
  ASSUME TypeOK, queue' \in [Rows -> Row],
         \A i \in Rows : /\ queue'[i].op = queue[i].op
                         /\ queue'[i].ent = queue[i].ent
                         /\ queue'[i].key = queue[i].key
  PROVE  QueueStep
  <1>1. Len(queue) \in Nat /\ MaxQueue \in Nat /\ Len(queue) <= MaxQueue
    BY SyncQueueAssumption, LenProperties DEF TypeOK
  <1>2. queue' \in Seq(Row) /\ Len(queue') = Len(queue)
    BY <1>1, FunctionIsSeq DEF Rows
  <1> QED BY <1>1, <1>2 DEF QueueStep, Rows

(* What Enqueue appends is a well-formed row. *)
LEMMA RowAppended ==
  ASSUME TypeOK, NEW t \in Tasks, TaskOK(t), Enqueue(t)
  PROVE  QueueStep
  <1> DEFINE r == NewRow(t, Len(queue) + 1)
  <1>1. Len(queue) \in Nat /\ MaxQueue \in Nat /\ Len(queue) + 1 \in 1..MaxQueue
    BY SyncQueueAssumption, LenProperties DEF TypeOK, Enqueue
  <1>2. r \in Row
    BY <1>1, SyncQueueAssumption DEF NewRow, KeyFor, Row, Tasks, Reasons, Entities
  <1>3. RowOK(r)
    BY DEF RowOK, TaskOK, NewRow, KeyFor
  <1>4. /\ queue' \in Seq(Row) /\ Len(queue') = Len(queue) + 1
        /\ \A i \in Rows : queue'[i] = queue[i]
        /\ queue'[Len(queue) + 1] = r
    BY <1>2, AppendProperties DEF TypeOK, Enqueue, Rows
  <1> QED BY <1>1, <1>3, <1>4 DEF QueueStep, Rows

LEMMA QueueUntouched ==
  ASSUME TypeOK, UNCHANGED queue
  PROVE  QueueStep
  BY SyncQueueAssumption, LenProperties DEF TypeOK, QueueStep, Rows

(* The engine is at a row of the table while it works on one. *)
LEMMA FlightRow ==
  ASSUME TypeOK, pc \in Busy
  PROVE  flight.row \in Rows
  BY DEF TypeOK

(* Every statement on sync_queue appends rows or keeps their identity. *)
LEMMA QueueMoves ==
  ASSUME IInv, Next
  PROVE  QueueStep
  <1> USE DEF IInv
  <1>0. queue \in [Rows -> Row] /\ \A i \in Rows : queue[i] \in Row
    BY LenProperties, ElementOfSeq DEF TypeOK, Rows
  <1>zero. 0 \in 0..StuckThreshold /\ 0 \in Nat
    BY SyncQueueAssumption
  <1>1. ASSUME NEW t \in Tasks, HandlerEnqueue(t) PROVE QueueStep
    BY <1>1, RowAppended DEF HandlerEnqueue, WellFormed
  <1>2. ASSUME NEW o \in pend \cap Orders, Cascade(o) \/ BackfillOrder(o) PROVE QueueStep
    <2>1. CASE Cascade(o)
      <3>1. \A i \in Rows : [queue[i] EXCEPT !.dead = "parent_order_dead"] \in Row
        BY <1>0 DEF Row, Reasons
      <3> QED BY <1>0, <2>1, <3>1, RowsRewritten DEF Cascade, Row
    <2>2. CASE BackfillOrder(o)
      <3>1. /\ Task("order.create", o) \in Tasks
            /\ TaskOK(Task("order.create", o))
        BY DEF Task, Tasks, Ops, Entities, TaskOK
      <3> QED BY <2>2, <3>1, RowAppended DEF BackfillOrder
    <2> QED BY <1>2, <2>1, <2>2
  <1>3. ASSUME NEW p \in pend \cap Payments, BackfillPayment(p) PROVE QueueStep
    <2>1. /\ Task("payment.create", p) \in Tasks
          /\ TaskOK(Task("payment.create", p))
      BY DEF Task, Tasks, Ops, Entities, TaskOK
    <2> QED BY <1>3, <2>1, RowAppended DEF BackfillPayment
  <1>4. CASE StampSynced
    <2>1. flight.row \in Rows BY <1>4, FlightRow DEF StampSynced, Busy
    <2> DEFINE r == [queue[flight.row] EXCEPT !.synced = TRUE, !.transient = 0]
    <2>2. r \in Row /\ r.op = queue[flight.row].op /\ r.ent = queue[flight.row].ent
                    /\ r.key = queue[flight.row].key
      BY <1>0, <1>zero, <2>1 DEF Row
    <2>3. queue' = [queue EXCEPT ![flight.row] = r]
      BY <1>0, <1>4, <2>1 DEF StampSynced, Row
    <2> QED BY <2>1, <2>2, <2>3, RowRewritten
  <1>5. CASE AuthRejected
    BY <1>5, QueueUntouched DEF AuthRejected
  <1>6. CASE DataConflict
    <2>1. flight.row \in Rows BY <1>6, FlightRow DEF DataConflict, Answered, Busy
    <2> DEFINE r == [queue[flight.row] EXCEPT !.dead = ConflictReason]
    <2>2. r \in Row /\ r.op = queue[flight.row].op /\ r.ent = queue[flight.row].ent
                    /\ r.key = queue[flight.row].key
      BY <1>0, <2>1 DEF Row, ConflictReason, Reasons
    <2>3. queue' = [queue EXCEPT ![flight.row] = r]
      BY <1>0, <1>6, <2>1 DEF DataConflict, Row
    <2> QED BY <2>1, <2>2, <2>3, RowRewritten
  <1>7. CASE BurnAttempt
    <2>1. flight.row \in Rows BY <1>7, FlightRow DEF BurnAttempt, Answered, Busy
    <2> DEFINE r == [queue[flight.row] EXCEPT !.attempts = @ + 1]
    <2>2. r \in Row /\ r.op = queue[flight.row].op /\ r.ent = queue[flight.row].ent
                    /\ r.key = queue[flight.row].key
      BY <1>0, <2>1 DEF Row
    <2>3. queue' = [queue EXCEPT ![flight.row] = r]
      BY <1>0, <1>7, <2>1 DEF BurnAttempt, Row
    <2> QED BY <2>1, <2>2, <2>3, RowRewritten
  <1>8. CASE DeadLetterIfExhausted
    <2>1. flight.row \in Rows BY <1>8, FlightRow DEF DeadLetterIfExhausted, Busy
    <2> DEFINE r == [queue[flight.row] EXCEPT !.dead = "max_attempts_exhausted"]
    <2>2. r \in Row /\ r.op = queue[flight.row].op /\ r.ent = queue[flight.row].ent
                    /\ r.key = queue[flight.row].key
      BY <1>0, <2>1 DEF Row, Reasons
    <2>3. queue' = [queue EXCEPT ![flight.row] = r] \/ UNCHANGED queue
      BY <1>0, <1>8, <2>1 DEF DeadLetterIfExhausted, Row
    <2> QED BY <2>1, <2>2, <2>3, RowRewritten, QueueUntouched
  <1>9. CASE Transient
    <2>1. flight.row \in Rows BY <1>9, FlightRow DEF Transient, Answered, Busy
    <2> DEFINE r == [queue[flight.row] EXCEPT !.transient = IF @ < StuckThreshold THEN @ + 1 ELSE @]
    <2>2. r \in Row /\ r.op = queue[flight.row].op /\ r.ent = queue[flight.row].ent
                    /\ r.key = queue[flight.row].key
      BY <1>0, <2>1, SyncQueueAssumption DEF Row
    <2>3. queue' = [queue EXCEPT ![flight.row] = r]
      BY <1>0, <1>9, <2>1 DEF Transient, Row
    <2> QED BY <2>1, <2>2, <2>3, RowRewritten
  <1>10. CASE StuckOrStop
    <2>1. flight.row \in Rows BY <1>10, FlightRow DEF StuckOrStop, Busy
    <2> DEFINE r == [queue[flight.row] EXCEPT !.dead = "stuck_transient"]
    <2>2. r \in Row /\ r.op = queue[flight.row].op /\ r.ent = queue[flight.row].ent
                    /\ r.key = queue[flight.row].key
      BY <1>0, <2>1 DEF Row, Reasons
    <2>3. queue' = [queue EXCEPT ![flight.row] = r] \/ UNCHANGED queue
      BY <1>0, <1>10, <2>1 DEF StuckOrStop, Row
    <2> QED BY <2>1, <2>2, <2>3, RowRewritten, QueueUntouched
  <1>11. CASE RetryFailed
    <2>1. \A i \in Rows : [queue[i] EXCEPT !.attempts = 0] \in Row
      BY <1>0 DEF Row
    <2> QED BY <1>0, <1>11, <2>1, RowsRewritten DEF RetryFailed, Row
  <1>12. ASSUME NEW i \in Rows, Discard(i) PROVE QueueStep
    <2> DEFINE r == [queue[i] EXCEPT !.resolution = "discarded"]
    <2>1. r \in Row /\ r.op = queue[i].op /\ r.ent = queue[i].ent /\ r.key = queue[i].key
      BY <1>0 DEF Row
    <2>2. queue' = [queue EXCEPT ![i] = r]
      BY <1>0, <1>12 DEF Discard, Row
    <2> QED BY <2>1, <2>2, RowRewritten
  <1>13. ASSUME NEW i \in Rows, ReResolve(i) PROVE QueueStep
    <2>1. LET r == Revived(queue[i])
          IN  r \in Row /\ r.op = queue[i].op /\ r.ent = queue[i].ent /\ r.key = queue[i].key
      BY <1>0, <1>zero DEF Row, Revived
    <2> QED BY <1>13, <2>1, RowRewritten DEF ReResolve
  <1>14. ASSUME NEW o \in Orders, RecoverResolve(o) PROVE QueueStep
    <2>1. \A i \in Rows : [queue[i] EXCEPT !.resolution = "recovered"] \in Row
      BY <1>0 DEF Row
    <2> QED BY <1>0, <1>14, <2>1, RowsRewritten DEF RecoverResolve, Row
  <1>15. ASSUME NEW o \in Orders, RecoverRevive(o) PROVE QueueStep
    <2>1. \A i \in Rows : /\ Revived(queue[i]) \in Row
                          /\ Revived(queue[i]).op = queue[i].op
                          /\ Revived(queue[i]).ent = queue[i].ent
                          /\ Revived(queue[i]).key = queue[i].key
      BY <1>0, <1>zero DEF Row, Revived
    <2> QED BY <1>0, <1>15, <2>1, RowsRewritten DEF RecoverRevive
  <1>16. ASSUME NEW o \in Orders, RecoverEnqueue(o) PROVE QueueStep
    <2>1. /\ Task("order.create", o) \in Tasks
          /\ TaskOK(Task("order.create", o))
      BY DEF Task, Tasks, Ops, Entities, TaskOK
    <2> QED BY <1>16, <2>1, RowAppended, QueueUntouched DEF RecoverEnqueue
  <1>17. CASE UNCHANGED queue
    BY <1>17, QueueUntouched
  <1> QED
    BY <1>1, <1>2, <1>3, <1>4, <1>5, <1>6, <1>7, <1>8, <1>9, <1>10, <1>11, <1>12,
       <1>13, <1>14, <1>15, <1>16, <1>17
    DEF Next, Producers, EngineStep, OperatorStep, RecoverStep, Environment,
        CreateOrder, RecordPayment, HandlerEnqueueFails, Woken, Tick, BackfillFails,
        ReconcileUnsyncedOrders, ReconcileUnsyncedPayments, MarkRehomed, Select,
        DrainDone, DependencyNotReady, BudgetSkip, Push, CloudAnswers, CloudRefuses,
        Timeout, LateRequest, WriteBack, RecoverCheck, RecoverUnlink,
        CooldownElapses, Probe, Outage, CloudMoves, Crash, EngineRest, EnvRest

-----------------------------------------------------------------------------
(* What a request, or an event behind the workstation's back, leaves of    *)
(* Cloud: ids keep their order, payments stay paid, nothing is held twice. *)
CloudMove ==
  /\ CloudStep
  /\ booked' \subseteq [order : CloudIds', payment : Payments, key : Entities \cup (1..MaxQueue)]
  /\ OneCloudOrder' /\ BookedInv'
  /\ \A p \in Payments, c \in CloudIds : Paid(p, c) => Paid(p, c)'

LEMMA CloudUntouched ==
  ASSUME IInv, UNCHANGED cloudVars
  PROVE  CloudMove
  <1>1. UNCHANGED <<cloud, booked, CloudIds>>
    BY DEF cloudVars, CloudIds
  <1>2. CloudStep
    BY <1>1, LenProperties DEF IInv, TypeOK, CloudStep
  <1>3. OneCloudOrder' /\ BookedInv'
    BY <1>1 DEF IInv, OneCloudOrder, BookedInv, HeldFor
  <1>4. \A p \in Payments, c \in CloudIds : Paid(p, c) => Paid(p, c)'
    BY <1>1 DEF Paid, BookedOn
  <1> QED BY <1>1, <1>2, <1>3, <1>4 DEF CloudMove, IInv, TypeOK

(* POST /workstation/orders answers with an order of its client_order_id,  *)
(* and mints one only when it holds none.                                  *)
LEMMA StoreOrderMove ==
  ASSUME IInv, NEW o \in Orders, NEW id, StoreOrder(o, id)
  PROVE  CloudMove /\ id \in CloudIds' /\ cloud'[id].client = o
  <1>0. Len(cloud) \in Nat /\ cloud \in Seq([client : Orders, state : OrderStates])
        /\ \A c \in CloudIds : cloud[c] \in [client : Orders, state : OrderStates]
    BY LenProperties, ElementOfSeq DEF IInv, TypeOK, CloudIds
  <1>1. CASE id \in HeldFor(o) /\ UNCHANGED cloudVars
    BY <1>1, CloudUntouched DEF HeldFor, CloudIds, cloudVars
  <1>2. CASE /\ HeldFor(o) = {} /\ id = Len(cloud) + 1 /\ UNCHANGED booked
             /\ cloud' = Append(cloud, [client |-> o, state |-> "open"])
    <2> DEFINE e == [client |-> o, state |-> "open"]
    <2>1. e \in [client : Orders, state : OrderStates]
      BY DEF OrderStates
    <2>2. /\ cloud' \in Seq([client : Orders, state : OrderStates])
          /\ Len(cloud') = Len(cloud) + 1
          /\ \A c \in CloudIds : cloud'[c] = cloud[c]
          /\ cloud'[id] = e /\ cloud'[id].client = o
      BY <1>0, <1>2, <2>1, AppendProperties DEF CloudIds
    <2>0. \A d \in CloudIds : cloud[d].client = o => cloud[d].state = "gone"
      BY <1>2 DEF HeldFor
    <2>3. CloudIds' = CloudIds \cup {id} /\ id \notin CloudIds
      BY <1>0, <1>2, <2>2 DEF CloudIds
    <2>4. CloudStep
      BY <1>0, <2>2 DEF CloudStep
    <2>5. OneCloudOrder'
      <3> SUFFICES ASSUME NEW c \in CloudIds', NEW d \in CloudIds',
                          cloud'[c].client = cloud'[d].client,
                          cloud'[c].state # "gone", cloud'[d].state # "gone"
                   PROVE  c = d
        BY DEF OneCloudOrder
      <3>1. CASE c \in CloudIds /\ d \in CloudIds
        BY <2>2, <3>1 DEF IInv, OneCloudOrder
      <3>2. CASE c = id /\ d \in CloudIds
        BY <2>0, <2>2, <3>2
      <3>3. CASE d = id /\ c \in CloudIds
        BY <2>0, <2>2, <3>3
      <3> QED BY <2>3, <3>1, <3>2, <3>3
    <2>6. BookedInv'
      BY <1>2, <2>2, <2>3 DEF IInv, BookedInv, HeldFor
    <2>7. \A p \in Payments, c \in CloudIds : Paid(p, c) => Paid(p, c)'
      BY <1>2, <2>2, <2>3 DEF Paid, BookedOn
    <2>8. booked' \subseteq [order : CloudIds', payment : Payments, key : Entities \cup (1..MaxQueue)]
      BY <1>2, <2>3 DEF IInv, TypeOK
    <2> QED BY <2>2, <2>3, <2>4, <2>5, <2>6, <2>7, <2>8 DEF CloudMove
  <1> QED BY <1>1, <1>2 DEF StoreOrder

(* POST /payments addressed to an order of the payment's own, under the    *)
(* payment's own key: "ok" means that Cloud holds the payment.             *)
LEMMA StorePaymentMove ==
  ASSUME IInv, NEW p \in Payments, NEW c, Names(c, OrderOf[p]),
         NEW answer, StorePayment(c, p, p, answer)
  PROVE  CloudMove /\ (answer = "ok" => Paid(p, c)')
  <1>1. CASE UNCHANGED cloudVars /\ (answer = "ok" => Exists(c) /\ Replayed(c, p))
    <2>1. answer = "ok" => c \in CloudIds /\ BookedOn(c, p)
      BY <1>1 DEF IInv, BookedInv, BookedOn, Replayed, Exists
    <2>2. answer = "ok" => Paid(p, c)'
      BY <1>1, <2>1 DEF Paid, BookedOn, CloudIds, cloudVars
    <2> QED BY <1>1, <2>2, CloudUntouched
  <1>2. CASE /\ Exists(c) /\ UNCHANGED cloud
             /\ booked' = booked \cup {[order |-> c, payment |-> p, key |-> p]}
    <2>1. c \in CloudIds /\ cloud[c].client = OrderOf[p] /\ cloud[c].state # "gone"
          /\ UNCHANGED CloudIds
      <3>1. c \in CloudIds /\ cloud[c].state # "gone" /\ c # 0
        BY <1>2 DEF Exists, CloudIds
      <3> QED BY <1>2, <3>1 DEF Names, CloudIds
    <2>2. CloudStep
      BY <1>2, <2>1, LenProperties DEF IInv, TypeOK, CloudStep
    <2>3. OneCloudOrder'
      BY <1>2, <2>1 DEF IInv, OneCloudOrder
    <2>4. BookedInv'
      BY <1>2, <2>1 DEF IInv, BookedInv, HeldFor
    <2>5. \A q \in Payments, d \in CloudIds : Paid(q, d) => Paid(q, d)'
      BY <1>2, <2>1 DEF Paid, BookedOn
    <2>6. Paid(p, c)'
      <3> DEFINE b == [order |-> c, payment |-> p, key |-> p]
      <3>1. b \in booked' /\ b.order = c /\ b.payment = p
        BY <1>2
      <3> QED BY <2>1, <3>1 DEF Paid, BookedOn
    <2>7. booked' \subseteq [order : CloudIds', payment : Payments, key : Entities \cup (1..MaxQueue)]
      BY <1>2, <2>1 DEF IInv, TypeOK, Entities
    <2> QED BY <2>2, <2>3, <2>4, <2>5, <2>6, <2>7 DEF CloudMove
  <1> QED BY <1>1, <1>2 DEF StorePayment

(* Settling, trashing or losing an order. *)
LEMMA EventMove ==
  ASSUME IInv, NEW c \in CloudIds, SettleOnline(c) \/ TrashOrder(c) \/ LoseOrder(c)
  PROVE  CloudMove
  <1>0. Len(cloud) \in Nat /\ cloud \in Seq([client : Orders, state : OrderStates])
        /\ \A d \in CloudIds : cloud[d] \in [client : Orders, state : OrderStates]
    BY LenProperties, ElementOfSeq DEF IInv, TypeOK, CloudIds
  <1>1. PICK s \in {"closed", "trashed", "gone"} :
            /\ cloud' = [cloud EXCEPT ![c].state = s]
            /\ cloud[c].state # "gone" /\ (cloud[c].state = "closed" => s = "gone")
            /\ booked' = IF s = "gone" THEN {b \in booked : b.order # c} ELSE booked
    BY DEF SettleOnline, TrashOrder, LoseOrder
  <1> DEFINE e == [cloud[c] EXCEPT !.state = s]
  <1>2. e \in [client : Orders, state : OrderStates]
    BY <1>0 DEF OrderStates
  <1>3. cloud' = [cloud EXCEPT ![c] = e]
    BY <1>0, <1>1
  <1>4. /\ cloud' \in Seq([client : Orders, state : OrderStates])
        /\ Len(cloud') = Len(cloud)
        /\ \A d \in CloudIds : cloud'[d] = IF d = c THEN e ELSE cloud[d]
    BY <1>0, <1>2, <1>3, ExceptSeq DEF CloudIds
  <1>5. /\ CloudIds' = CloudIds
        /\ \A d \in CloudIds : cloud'[d].client = cloud[d].client
        /\ \A d \in CloudIds : cloud'[d].state = IF d = c THEN s ELSE cloud[d].state
    BY <1>0, <1>4 DEF CloudIds
  <1> HIDE DEF e
  <1>6. CloudStep
    BY <1>0, <1>1, <1>4, <1>5 DEF CloudStep
  <1>7. OneCloudOrder'
    BY <1>1, <1>5 DEF IInv, OneCloudOrder
  <1>8. BookedInv'
    BY <1>1, <1>5 DEF IInv, BookedInv, HeldFor
  <1>9. \A p \in Payments, d \in CloudIds : Paid(p, d) => Paid(p, d)'
    BY <1>1, <1>5 DEF Paid, BookedOn
  <1>10. booked' \subseteq [order : CloudIds', payment : Payments, key : Entities \cup (1..MaxQueue)]
    BY <1>1, <1>5 DEF IInv, TypeOK
  <1> QED BY <1>6, <1>7, <1>8, <1>9, <1>10 DEF CloudMove

(* A request for row i, whoever still waits for its answer. *)
LEMMA ProcessMove ==
  ASSUME IInv, NEW i \in Rows, NEW target, Names(target, OrderOfRow(queue[i])),
         NEW answer, NEW id, Process(i, target, answer, id)
  PROVE  /\ CloudMove
         /\ id = 0 \/ (id \in CloudIds' /\ cloud'[id].client = OrderOfRow(queue[i]))
         /\ \A p \in Payments : answer = "ok" /\ IsRow(i, "payment.create", p) => Paid(p, id)'
  <1>e. PICK e : e = queue[i].ent
    OBVIOUS
  <1>s. PICK c : c = target
    OBVIOUS
  <1>0. RowOK(queue[i]) /\ queue[i] \in Row
    BY ElementOfSeq DEF IInv, WellFormed, TypeOK, Rows
  <1>1. CASE queue[i].op = "order.create"
    <2>1. e \in Orders /\ OrderOfRow(queue[i]) = e /\ StoreOrder(e, id)
      BY <1>e, <1>0, <1>1 DEF RowOK, TaskOK, OrderOfRow, Process
    <2>2. CloudMove /\ id \in CloudIds' /\ cloud'[id].client = e
      BY <2>1, StoreOrderMove
    <2> QED BY <1>1, <2>1, <2>2 DEF IsRow
  <1>2. ASSUME queue[i].op # "order.create"
        PROVE  /\ e \in Payments /\ queue[i].key = e
               /\ id = target /\ Names(target, OrderOf[e]) /\ OrderOfRow(queue[i]) = OrderOf[e]
    BY <1>e, <1>0, <1>2 DEF RowOK, TaskOK, OrderOfRow, Process
  <1>3. ASSUME CloudMove, queue[i].op # "order.create"
        PROVE  id = 0 \/ (id \in CloudIds' /\ cloud'[id].client = OrderOfRow(queue[i]))
    <2>1. Len(cloud) \in Nat /\ Len(cloud') \in Nat /\ Len(cloud') >= Len(cloud)
      BY <1>3, LenProperties DEF CloudMove, CloudStep, IInv, TypeOK
    <2>2. CloudIds \subseteq CloudIds'
      BY <2>1 DEF CloudIds
    <2> QED BY <1>2, <1>3, <2>2 DEF Names, CloudMove, CloudStep
  <1>4. CASE queue[i].op = "payment.create"
    <2>1. StorePayment(c, e, e, answer) /\ Names(c, OrderOf[e])
      BY <1>e, <1>s, <1>2, <1>4 DEF Process
    <2>2. CloudMove /\ (answer = "ok" => Paid(e, c)')
      BY <1>2, <1>4, <2>1, StorePaymentMove
    <2> QED BY <1>e, <1>s, <1>2, <1>3, <1>4, <2>2 DEF IsRow
  <1>5. CASE queue[i].op \notin {"order.create", "payment.create"}
    <2>1. UNCHANGED cloudVars
      BY <1>5 DEF Process, ConfirmPayment
    <2> QED BY <1>3, <1>5, <2>1, CloudUntouched DEF IsRow
  <1> QED BY <1>1, <1>4, <1>5

(* Only an answered request, a late one or Cloud's own life move Cloud. *)
LEMMA CloudMovesOn ==
  ASSUME IInv, Next
  PROVE  CloudMove
  <1>1. CASE CloudAnswers
    <2>1. flight.row \in Rows /\ flight.row # 0
      BY <1>1, FlightRow DEF CloudAnswers, InFlight, Busy, IInv, TypeOK
    <2>2. PICK answer, id : Process(flight.row, flight.target, answer, id)
      BY <1>1 DEF CloudAnswers
    <2> QED BY <2>1, <2>2, ProcessMove DEF IInv, IdsInv
  <1>2. ASSUME NEW r \in late, LateRequest(r) PROVE CloudMove
    <2>1. r.row \in Rows
      <3>1. r \in [row : Rows, target : {0} \cup CloudIds]
        BY DEF IInv, TypeOK
      <3> QED BY <3>1
    <2>2. CASE UNCHANGED cloudVars
      BY <2>2, CloudUntouched
    <2>3. ASSUME NEW answer, NEW id, Process(r.row, r.target, answer, id) PROVE CloudMove
      BY <2>1, <2>3, ProcessMove DEF IInv, IdsInv
    <2> QED BY <1>2, <2>2, <2>3 DEF LateRequest
  <1>3. CASE CloudMoves
    BY <1>3, EventMove DEF CloudMoves
  <1>4. CASE UNCHANGED cloudVars
    BY <1>4, CloudUntouched
  <1> QED
    BY <1>1, <1>2, <1>3, <1>4
    DEF Next, Producers, EngineStep, OperatorStep, RecoverStep, Environment,
        CreateOrder, RecordPayment, HandlerEnqueue, HandlerEnqueueFails, Woken, Tick,
        Cascade, BackfillOrder, BackfillPayment, BackfillFails,
        ReconcileUnsyncedOrders, ReconcileUnsyncedPayments, MarkRehomed, Select,
        DrainDone, DependencyNotReady, BudgetSkip, Push, CloudRefuses, Timeout,
        WriteBack, StampSynced, AuthRejected, DataConflict, BurnAttempt,
        DeadLetterIfExhausted, Transient, StuckOrStop, RetryFailed, Discard, ReResolve,
        Recovery, RecoverCheck, RecoverUnlink, RecoverResolve, RecoverRevive,
        RecoverEnqueue, CooldownElapses, Probe, Outage, Crash, EngineRest, EnvRest,
        OperatorRest

-----------------------------------------------------------------------------
(* The variables beside the two sequences: their conjuncts of TypeOK.      *)
LocalType ==
  /\ known \subseteq Orders /\ recorded \subseteq Payments /\ rehomed \subseteq Kiosk
  /\ orderCloud \in [Orders -> {0} \cup CloudIds]
  /\ payCloud \in [Payments -> {0} \cup CloudIds]
  /\ todo \subseteq Tasks /\ recovering \in [Orders -> RecoverStages]

EngineType ==
  /\ pc \in {"idle", "cascade", "backfillOrders", "backfillPayments", "rehomedOrphan",
             "select", "drain", "flight", "rehomedRow", "stamp", "exhaust", "stuck"}
  /\ pend \subseteq Entities
  /\ batch \subseteq Rows
  /\ flight \in [row : {0} \cup Rows, target : {0} \cup CloudIds, id : {0} \cup CloudIds,
                answer : {"none", "ok", "404", "409", "400", "401", "422", "5xx", "lost"}]
  /\ {wake, cooling, online, up} \subseteq BOOLEAN
  /\ late \subseteq [row : Rows, target : {0} \cup CloudIds]
  /\ flight.row = 0 <=> pc \notin Busy

(* Every step leaves the tables and Cloud in order and only adds ids. *)
LEMMA SharedMove ==
  ASSUME IInv, [Next]_vars
  PROVE  /\ QueueStep /\ CloudMove
         /\ Rows \subseteq Rows' /\ CloudIds \subseteq CloudIds'
         /\ 0 \notin Rows' /\ 0 \notin CloudIds'
  <1>1. QueueStep
    <2>1. CASE Next BY <2>1, QueueMoves
    <2>2. CASE UNCHANGED vars BY <2>2, QueueUntouched DEF vars, IInv
    <2> QED BY <2>1, <2>2
  <1>2. CloudMove
    <2>1. CASE Next BY <2>1, CloudMovesOn
    <2>2. CASE UNCHANGED vars BY <2>2, CloudUntouched DEF vars
    <2> QED BY <2>1, <2>2
  <1>3. Len(queue) \in Nat /\ Len(cloud) \in Nat /\ Len(queue') \in Nat /\ Len(cloud') \in Nat
    BY <1>1, <1>2, LenProperties DEF QueueStep, CloudMove, CloudStep, IInv, TypeOK
  <1>4. Rows \subseteq Rows' /\ 0 \notin Rows'
    BY <1>1, <1>3 DEF QueueStep, Rows
  <1>5. CloudIds \subseteq CloudIds' /\ 0 \notin CloudIds'
    BY <1>2, <1>3 DEF CloudMove, CloudStep, CloudIds
  <1> QED BY <1>1, <1>2, <1>4, <1>5

LEMMA LocalTypeKept ==
  ASSUME IInv, [Next]_vars
  PROVE  LocalType'
  <1>1. LocalType /\ CloudIds \subseteq CloudIds'
    BY SharedMove DEF IInv, TypeOK, LocalType
  <1>2. orderCloud \in [Orders -> {0} \cup CloudIds'] /\ payCloud \in [Payments -> {0} \cup CloudIds']
    BY <1>1 DEF LocalType
  <1>3. ASSUME NEW o \in Orders, CreateOrder(o) PROVE LocalType'
    BY <1>1, <1>2, <1>3 DEF LocalType, CreateOrder, Task, Tasks, Ops, Entities
  <1>4. ASSUME NEW p \in Payments, RecordPayment(p) PROVE LocalType'
    BY <1>1, <1>2, <1>4 DEF LocalType, RecordPayment, Task, Tasks, Ops, Entities
  <1>5. ASSUME NEW t \in Tasks, HandlerEnqueue(t) \/ HandlerEnqueueFails(t) PROVE LocalType'
    BY <1>1, <1>2, <1>5 DEF LocalType, HandlerEnqueue, HandlerEnqueueFails, local
  <1>6. CASE MarkRehomed
    BY <1>1, <1>2, <1>6 DEF LocalType, MarkRehomed, IInv, WellFormed, http
  <1>7. CASE WriteBack
    <2>1. flight.id \in {0} \cup CloudIds'
      BY <1>1 DEF IInv, TypeOK
    <2> QED BY <1>1, <1>2, <1>7, <2>1 DEF LocalType, WriteBack, http
  <1>8. ASSUME NEW o \in Orders, RecoverCheck(o) \/ RecoverUnlink(o) \/ RecoverResolve(o)
                                \/ RecoverRevive(o) \/ RecoverEnqueue(o)
        PROVE  LocalType'
    BY <1>1, <1>2, <1>8
    DEF LocalType, RecoverCheck, RecoverUnlink, RecoverResolve, RecoverRevive,
        RecoverEnqueue, Recovery, RecoverStages
  <1>9. CASE Crash
    BY <1>1, <1>2, <1>9 DEF LocalType, Crash, local, RecoverStages
  <1>10. CASE UNCHANGED <<local, http>>
    BY <1>1, <1>2, <1>10 DEF LocalType, local, http
  <1> QED
    BY <1>3, <1>4, <1>5, <1>6, <1>7, <1>8, <1>9, <1>10
    DEF Next, Producers, EngineStep, OperatorStep, RecoverStep, Environment, Woken, Tick,
        Cascade, BackfillOrder, BackfillPayment, BackfillFails,
        ReconcileUnsyncedOrders, ReconcileUnsyncedPayments, Select,
        DrainDone, DependencyNotReady, BudgetSkip, Push, CloudAnswers, CloudRefuses, Timeout,
        LateRequest, StampSynced, AuthRejected, DataConflict, BurnAttempt,
        DeadLetterIfExhausted, Transient, StuckOrStop, RetryFailed, Discard, ReResolve,
        CooldownElapses, Probe, Outage, CloudMoves, EngineRest, EnvRest,
        OperatorRest, vars

LEMMA EngineTypeKept ==
  ASSUME IInv, [Next]_vars
  PROVE  EngineType'
  <1>1. EngineType
    BY DEF IInv, TypeOK, EngineType
  <1>2. /\ Rows \subseteq Rows' /\ CloudIds \subseteq CloudIds' /\ QueueStep
        /\ 0 \notin Rows' /\ 0 \notin CloudIds'
    BY SharedMove
  <1>3. CASE Woken
    BY <1>1, <1>2, <1>3 DEF EngineType, Woken, EngineRest, net, Busy
  <1>4. CASE Tick
    BY <1>1, <1>2, <1>4 DEF EngineType, Tick, EngineRest, net, Busy, Entities
  <1>5. CASE ReconcileUnsyncedOrders
    BY <1>1, <1>2, <1>5 DEF EngineType, ReconcileUnsyncedOrders, EngineRest, net, Busy, Entities
  <1>6. CASE ReconcileUnsyncedPayments
    BY <1>1, <1>2, <1>6 DEF EngineType, ReconcileUnsyncedPayments, EngineRest, net, Busy, Entities
  <1>7. CASE Select
    BY <1>1, <1>2, <1>7 DEF EngineType, Select, EngineRest, net, Busy
  <1>8. CASE DrainDone
    BY <1>1, <1>2, <1>8 DEF EngineType, DrainDone, EngineRest, net, Busy
  <1>9. CASE MarkRehomed
    BY <1>1, <1>2, <1>9 DEF EngineType, MarkRehomed, net, NoFlight, Busy
  <1>10. CASE CloudAnswers
    <2>1. PICK answer \in {"ok", "404", "409"}, id \in 0..MaxCloudOrders :
            /\ Process(flight.row, flight.target, answer, id)
            /\ flight' = [flight EXCEPT !.answer = answer, !.id = id]
      BY <1>10 DEF CloudAnswers
    <2>2. flight.row \in Rows /\ flight.row # 0
      BY <1>1, <1>10 DEF CloudAnswers, InFlight, EngineType, Busy
    <2>3. id \in {0} \cup CloudIds'
      BY <2>1, <2>2, ProcessMove DEF IInv, IdsInv
    <2> QED BY <1>1, <1>2, <1>10, <2>1, <2>3 DEF EngineType, CloudAnswers, net
  <1>11. CASE Timeout
    <2>1. flight.row \in Rows /\ flight.target \in {0} \cup CloudIds
      BY <1>1, <1>11 DEF Timeout, InFlight, EngineType, Busy
    <2>2. [row |-> flight.row, target |-> flight.target] \in [row : Rows, target : {0} \cup CloudIds]
      BY <2>1
    <2>3. late' \subseteq [row : Rows, target : {0} \cup CloudIds] /\ UNCHANGED <<up, pc>>
      BY <1>1, <1>11, <2>2 DEF Timeout, EngineType
    <2> QED BY <1>1, <1>2, <1>11, <2>3 DEF EngineType, Timeout, InFlight
  <1>12. CASE WriteBack
    BY <1>1, <1>2, <1>12 DEF EngineType, WriteBack, Answered, net, Busy
  <1>13. CASE StampSynced
    BY <1>1, <1>2, <1>13 DEF EngineType, StampSynced, EngineRest, NextRow, net, NoFlight, Busy
  <1>14. CASE AuthRejected
    BY <1>1, <1>2, <1>14 DEF EngineType, AuthRejected, EngineRest, Answered, NextRow, net, NoFlight, Busy
  <1>15. CASE DataConflict
    BY <1>1, <1>2, <1>15 DEF EngineType, DataConflict, EngineRest, Answered, NextRow, net, NoFlight, Busy
  <1>16. CASE BurnAttempt
    BY <1>1, <1>2, <1>16 DEF EngineType, BurnAttempt, EngineRest, Answered, net, Busy
  <1>17. CASE DeadLetterIfExhausted
    BY <1>1, <1>2, <1>17 DEF EngineType, DeadLetterIfExhausted, EngineRest, NextRow, net, NoFlight, Busy
  <1>18. CASE Transient
    BY <1>1, <1>2, <1>18 DEF EngineType, Transient, EngineRest, Answered, net, Busy
  <1>19. CASE StuckOrStop
    BY <1>1, <1>2, <1>19 DEF EngineType, StuckOrStop, EngineRest, NextRow, StopCycle, net, NoFlight, Busy
  <1>20. CASE RetryFailed
    BY <1>1, <1>2, <1>20 DEF EngineType, RetryFailed, OperatorRest, net, Busy
  <1>21. CASE CooldownElapses
    BY <1>1, <1>2, <1>21 DEF EngineType, CooldownElapses, EnvRest, net, Busy
  <1>22. CASE Probe
    BY <1>1, <1>2, <1>22 DEF EngineType, Probe, EnvRest, net, Busy
  <1>23. CASE Outage
    BY <1>1, <1>2, <1>23 DEF EngineType, Outage, EnvRest, Busy
  <1>24. CASE Crash
    <2>1. InFlight => flight.row \in Rows /\ flight.target \in {0} \cup CloudIds
      BY <1>1 DEF InFlight, EngineType, Busy
    <2>2. late' \subseteq [row : Rows, target : {0} \cup CloudIds] /\ UNCHANGED up
      BY <1>1, <1>24, <2>1 DEF Crash, EngineType
    <2>3. /\ pc' = "idle" /\ pend' = {} /\ batch' = {} /\ flight' = NoFlight
          /\ wake' = FALSE /\ cooling' = FALSE /\ online' = FALSE
      BY <1>24 DEF Crash
    <2> QED BY <1>1, <1>2, <2>2, <2>3 DEF EngineType, NoFlight, Busy
  <1>25. ASSUME NEW t \in Tasks, HandlerEnqueue(t)
        PROVE  EngineType'
    BY <1>1, <1>2, <1>25 DEF EngineType, HandlerEnqueue, net, Busy
  <1>26. ASSUME NEW o \in pend \cap Orders, Cascade(o) \/ BackfillOrder(o)
        PROVE  EngineType'
    BY <1>1, <1>2, <1>26 DEF EngineType, Cascade, BackfillOrder, EngineRest, net, Busy
  <1>27. ASSUME NEW p \in pend \cap Payments, BackfillPayment(p)
        PROVE  EngineType'
    <2>1. Len(queue) + 1 \in Rows' /\ Len(queue) + 1 # 0
      <3>1. Len(queue) \in Nat /\ Len(queue') = Len(queue) + 1
        BY <1>27, LenProperties, AppendProperties
        DEF BackfillPayment, Enqueue, IInv, TypeOK, QueueStep, Rows
      <3> QED BY <3>1 DEF Rows
    <2>2. /\ UNCHANGED <<batch, wake, cooling, online, net>> /\ pend' \subseteq pend
          /\ \/ UNCHANGED <<pc, flight>>
             \/ pc' = "rehomedOrphan" /\ flight' = [NoFlight EXCEPT !.row = Len(queue) + 1]
      BY <1>27 DEF BackfillPayment, EngineRest
    <2> QED BY <1>1, <1>2, <2>1, <2>2 DEF EngineType, NoFlight, Busy, net
  <1>28. ASSUME NEW e \in pend, BackfillFails(e)
        PROVE  EngineType'
    BY <1>1, <1>2, <1>28 DEF EngineType, BackfillFails, EngineRest, net, Busy
  <1>29. ASSUME NEW i \in batch, DependencyNotReady(i) \/ BudgetSkip(i)
        PROVE  EngineType'
    BY <1>1, <1>2, <1>29 DEF EngineType, DependencyNotReady, BudgetSkip, EngineRest, net, Busy
  <1>30. ASSUME NEW i \in batch, Push(i)
        PROVE  EngineType'
    <2>1. i \in Rows /\ i # 0 /\ i \in Rows'
      BY <1>1, <1>2 DEF EngineType, Rows
    <2>2. Target(i) \in {0} \cup CloudIds
      <3>1. RowOK(queue[i])
        BY <2>1 DEF IInv, WellFormed
      <3> QED BY <3>1, OrderOfAssumption DEF Target, RowOK, TaskOK, IInv, TypeOK
    <2>3. /\ flight' = [row |-> i, target |-> Target(i), answer |-> "none", id |-> 0]
          /\ pc' = "flight" /\ batch' = batch \ {i}
          /\ UNCHANGED <<pend, wake, cooling, online, net>>
      BY <1>30 DEF Push, EngineRest
    <2> QED BY <1>1, <1>2, <2>1, <2>2, <2>3 DEF EngineType, Busy, net
  <1>31. ASSUME NEW f \in {"400", "401", "422", "5xx"}, CloudRefuses(f)
        PROVE  EngineType'
    BY <1>1, <1>2, <1>31 DEF EngineType, CloudRefuses, InFlight, net, Busy
  <1>32. ASSUME NEW r \in late, LateRequest(r)
        PROVE  EngineType'
    BY <1>1, <1>2, <1>32 DEF EngineType, LateRequest, engine, Busy
  <1>33. ASSUME NEW i \in Rows, Discard(i) \/ ReResolve(i)
        PROVE  EngineType'
    BY <1>1, <1>2, <1>33 DEF EngineType, Discard, ReResolve, OperatorRest, net, Busy
  <1>34. ASSUME NEW o \in Orders, RecoverCheck(o) \/ RecoverUnlink(o) \/ RecoverResolve(o)
                                \/ RecoverRevive(o) \/ RecoverEnqueue(o)
        PROVE  EngineType'
    BY <1>1, <1>2, <1>34 DEF EngineType, RecoverCheck, RecoverUnlink, RecoverResolve, RecoverRevive, RecoverEnqueue, Recovery, net, Busy
  <1>35. CASE UNCHANGED <<engine, net>>
    BY <1>1, <1>2, <1>35 DEF EngineType, engine, net
  <1> QED
    BY <1>3, <1>4, <1>5, <1>6, <1>7, <1>8, <1>9, <1>10, <1>11, <1>12, <1>13, <1>14, <1>15, <1>16, <1>17, <1>18, <1>19, <1>20, <1>21, <1>22, <1>23, <1>24, <1>25, <1>26, <1>27, <1>28, <1>29, <1>30, <1>31, <1>32, <1>33, <1>34, <1>35
    DEF Next, Producers, EngineStep, OperatorStep, RecoverStep, Environment,
        CreateOrder, RecordPayment, HandlerEnqueueFails, CloudMoves, EnvRest, vars, engine, net

-----------------------------------------------------------------------------
(* The links between the variables. *)

(* Names and Paid as they will be after the step, of values of today. *)
NamesNext(c, o) == c = 0 \/ (c \in CloudIds' /\ cloud'[c].client = o)
PaidNext(p, c) == /\ c \in CloudIds'
                  /\ \/ \E b \in booked' : b.order = c /\ b.payment = p
                     \/ cloud'[c].state = "gone"

(* What named an order, a row or a payment keeps naming it. *)
LEMMA LinksKept ==
  ASSUME IInv, [Next]_vars
  PROVE  /\ \A c \in {0} \cup CloudIds, o \in Orders : Names(c, o) => NamesNext(c, o)
         /\ \A i \in Rows : /\ OrderOfRow(queue'[i]) = OrderOfRow(queue[i])
                             /\ OrderOfRow(queue[i]) \in Orders
         /\ \A p \in Payments, c \in CloudIds : Paid(p, c) => PaidNext(p, c)
  <1>1. \A c \in {0} \cup CloudIds, o \in Orders : Names(c, o) => NamesNext(c, o)
    BY SharedMove DEF Names, NamesNext, CloudMove, CloudStep
  <1>2. \A i \in Rows : OrderOfRow(queue'[i]) = OrderOfRow(queue[i])
    BY SharedMove DEF QueueStep, OrderOfRow
  <1>3. \A i \in Rows : OrderOfRow(queue[i]) \in Orders
    BY OrderOfAssumption DEF IInv, WellFormed, RowOK, TaskOK, OrderOfRow
  <1>4. \A p \in Payments, c \in CloudIds : Paid(p, c) => PaidNext(p, c)
    <2>1. \A p \in Payments, c \in CloudIds : Paid(p, c)' => PaidNext(p, c)
      BY DEF Paid, PaidNext, BookedOn
    <2> QED BY <2>1, SharedMove DEF CloudMove
  <1> QED BY <1>1, <1>2, <1>3, <1>4

(* Tasks, rows and the re-homed row stay well formed. *)
LEMMA WellFormedKept ==
  ASSUME IInv, [Next]_vars
  PROVE  WellFormed'
  <1>1. \A t \in todo' : TaskOK(t)
    <2>1. \A t \in todo : TaskOK(t)
      BY DEF IInv, WellFormed
    <2>2. ASSUME NEW o \in Orders, CreateOrder(o) PROVE \A t \in todo' : TaskOK(t)
      BY <2>1, <2>2 DEF CreateOrder, Task, TaskOK
    <2>3. ASSUME NEW p \in Payments, RecordPayment(p) PROVE \A t \in todo' : TaskOK(t)
      BY <2>1, <2>3 DEF RecordPayment, Task, TaskOK
    <2>4. CASE todo' \subseteq todo
      BY <2>1, <2>4
    <2> QED
      BY <2>2, <2>3, <2>4
      DEF Next, Producers, EngineStep, OperatorStep, RecoverStep, Environment,
          HandlerEnqueue, HandlerEnqueueFails, Woken, Tick, Cascade, BackfillOrder,
          BackfillPayment, BackfillFails, ReconcileUnsyncedOrders,
          ReconcileUnsyncedPayments, MarkRehomed, Select, DrainDone, DependencyNotReady,
          BudgetSkip, Push, CloudAnswers, CloudRefuses, Timeout, LateRequest, WriteBack,
          StampSynced, AuthRejected, DataConflict, BurnAttempt, DeadLetterIfExhausted,
          Transient, StuckOrStop, RetryFailed, Discard, ReResolve, Recovery, RecoverCheck,
          RecoverUnlink, RecoverResolve, RecoverRevive, RecoverEnqueue, CooldownElapses,
          Probe, Outage, CloudMoves, Crash, EngineRest, EnvRest, OperatorRest, http, vars
  <1>2. \A i \in Rows' : RowOK(queue'[i])
    BY SharedMove DEF IInv, WellFormed, QueueStep, RowOK, TaskOK
  <1>3. pc' \in {"rehomedOrphan", "rehomedRow"} => queue'[flight'.row].ent \in Kiosk
    <2>1. CASE UNCHANGED <<pc, flight>>
      <3>1. pc \in {"rehomedOrphan", "rehomedRow"} => flight.row \in Rows
        BY FlightRow DEF IInv, Busy
      <3> QED BY <2>1, <3>1, SharedMove DEF IInv, WellFormed, QueueStep
    <2>2. ASSUME NEW p \in Payments, BackfillPayment(p), p \in Kiosk
          PROVE  queue'[flight'.row].ent \in Kiosk
      <3>1. Len(queue) \in Nat /\ queue'[Len(queue) + 1].ent = p
        <4>1. Task("payment.create", p) \in Tasks
          BY DEF Task, Tasks, Ops, Entities
        <4>2. queue' = Append(queue, NewRow(Task("payment.create", p), Len(queue) + 1))
          BY <2>2 DEF BackfillPayment, Enqueue
        <4>3. queue'[Len(queue) + 1] = NewRow(Task("payment.create", p), Len(queue) + 1)
          BY <4>2, LenProperties DEF IInv, TypeOK
        <4> QED BY <4>3, LenProperties DEF NewRow, Task, IInv, TypeOK
      <3>2. flight'.row = Len(queue) + 1
        BY <2>2 DEF BackfillPayment, NoFlight
      <3> QED BY <2>2, <3>1, <3>2
    <2>3. CASE AuthRejected
      <3>1. flight.row \in Rows
        BY <2>3, FlightRow DEF AuthRejected, Answered, Busy, IInv
      <3> QED BY <2>3, <3>1, SharedMove DEF AuthRejected, NextRow, TheRow, QueueStep
    <2>4. CASE pc' \notin {"rehomedOrphan", "rehomedRow"}
      BY <2>4
    <2> QED
      BY <2>1, <2>2, <2>3, <2>4
      DEF Next, Producers, EngineStep, OperatorStep, RecoverStep, Environment,
          CreateOrder, RecordPayment, HandlerEnqueue, HandlerEnqueueFails, Woken, Tick,
          Cascade, BackfillOrder, BackfillPayment, BackfillFails, ReconcileUnsyncedOrders,
          ReconcileUnsyncedPayments, MarkRehomed, Select, DrainDone, DependencyNotReady,
          BudgetSkip, Push, CloudAnswers, CloudRefuses, Timeout, LateRequest, WriteBack,
          StampSynced, DataConflict, BurnAttempt, DeadLetterIfExhausted,
          Transient, StuckOrStop, RetryFailed, Discard, ReResolve, Recovery, RecoverCheck,
          RecoverUnlink, RecoverResolve, RecoverRevive, RecoverEnqueue, CooldownElapses,
          Probe, Outage, CloudMoves, Crash, EngineRest, EnvRest, OperatorRest, NextRow,
          StopCycle, Answered, InFlight, engine, vars
  <1> QED BY <1>1, <1>2, <1>3 DEF WellFormed

(* Every Cloud id in use is of the order it is used for. *)
LEMMA IdsKept ==
  ASSUME IInv, [Next]_vars
  PROVE  IdsInv'
  <1>0. /\ orderCloud \in [Orders -> {0} \cup CloudIds]
        /\ payCloud \in [Payments -> {0} \cup CloudIds]
        /\ flight \in [row : {0} \cup Rows, target : {0} \cup CloudIds, id : {0} \cup CloudIds,
              answer : {"none", "ok", "404", "409", "400", "401", "422", "5xx", "lost"}]
        /\ late \subseteq [row : Rows, target : {0} \cup CloudIds]
        /\ OrderOf \in [Payments -> Orders]
        /\ 0 \notin Rows
    BY OrderOfAssumption DEF IInv, TypeOK, Rows
  <1>k. /\ \A c \in {0} \cup CloudIds, o \in Orders : Names(c, o) => NamesNext(c, o)
        /\ \A i \in Rows : /\ OrderOfRow(queue'[i]) = OrderOfRow(queue[i])
                            /\ OrderOfRow(queue[i]) \in Orders
    BY LinksKept
  <1>f. flight.row # 0 => /\ flight.row \in Rows
                          /\ NamesNext(flight.target, OrderOfRow(queue'[flight.row]))
                          /\ NamesNext(flight.id, OrderOfRow(queue'[flight.row]))
    BY <1>0, <1>k DEF IInv, IdsInv
  <1>1. \A o \in Orders : NamesNext(orderCloud'[o], o)
    <2>1. \A o \in Orders : NamesNext(orderCloud[o], o)
      BY <1>0, <1>k DEF IInv, IdsInv
    <2>2. CASE WriteBack
      <3>1. flight.row \in Rows /\ flight.row # 0
        BY <1>0, <2>2, FlightRow DEF WriteBack, Answered, Busy, IInv
      <3>2. NamesNext(flight.id, OrderOfRow(queue[flight.row]))
        BY <1>f, <1>k, <3>1
      <3> QED BY <1>0, <2>1, <2>2, <3>2 DEF WriteBack, TheRow, OrderOfRow
    <2>3. ASSUME NEW q \in Orders, RecoverUnlink(q) PROVE \A o \in Orders : NamesNext(orderCloud'[o], o)
      BY <1>0, <2>1, <2>3 DEF RecoverUnlink, NamesNext
    <2>4. CASE UNCHANGED orderCloud
      BY <2>1, <2>4
    <2> QED
      BY <2>2, <2>3, <2>4
      DEF Next, Producers, EngineStep, OperatorStep, RecoverStep, Environment,
          CreateOrder, RecordPayment, HandlerEnqueue, HandlerEnqueueFails, Woken, Tick,
          Cascade, BackfillOrder, BackfillPayment, BackfillFails, ReconcileUnsyncedOrders,
          ReconcileUnsyncedPayments, MarkRehomed, Select, DrainDone, DependencyNotReady,
          BudgetSkip, Push, CloudAnswers, CloudRefuses, Timeout, LateRequest, WriteBack,
          StampSynced, AuthRejected, DataConflict, BurnAttempt, DeadLetterIfExhausted,
          Transient, StuckOrStop, RetryFailed, Discard, ReResolve, Recovery, RecoverCheck,
          RecoverUnlink, RecoverResolve, RecoverRevive, RecoverEnqueue, CooldownElapses,
          Probe, Outage, CloudMoves, Crash, EngineRest, EnvRest, OperatorRest, local, vars
  <1>2. \A p \in Payments : NamesNext(payCloud'[p], OrderOf[p])
    <2>1. \A p \in Payments : NamesNext(payCloud[p], OrderOf[p])
      BY <1>0, <1>k DEF IInv, IdsInv
    <2>2. CASE WriteBack
      <3>1. flight.row \in Rows /\ flight.row # 0
        BY <1>0, <2>2, FlightRow DEF WriteBack, Answered, Busy, IInv
      <3>2. NamesNext(flight.id, OrderOfRow(queue[flight.row]))
        BY <1>f, <1>k, <3>1
      <3> QED BY <1>0, <2>1, <2>2, <3>2 DEF WriteBack, TheRow, OrderOfRow
    <2>3. CASE UNCHANGED payCloud
      BY <2>1, <2>3
    <2> QED
      BY <2>2, <2>3
      DEF Next, Producers, EngineStep, OperatorStep, RecoverStep, Environment,
          CreateOrder, RecordPayment, HandlerEnqueue, HandlerEnqueueFails, Woken, Tick,
          Cascade, BackfillOrder, BackfillPayment, BackfillFails, ReconcileUnsyncedOrders,
          ReconcileUnsyncedPayments, MarkRehomed, Select, DrainDone, DependencyNotReady,
          BudgetSkip, Push, CloudAnswers, CloudRefuses, Timeout, LateRequest, WriteBack,
          StampSynced, AuthRejected, DataConflict, BurnAttempt, DeadLetterIfExhausted,
          Transient, StuckOrStop, RetryFailed, Discard, ReResolve, Recovery, RecoverCheck,
          RecoverUnlink, RecoverResolve, RecoverRevive, RecoverEnqueue, CooldownElapses,
          Probe, Outage, CloudMoves, Crash, EngineRest, EnvRest, OperatorRest, local, vars
  <1>3. \A r \in late' : NamesNext(r.target, OrderOfRow(queue'[r.row]))
    <2>1. \A r \in late : NamesNext(r.target, OrderOfRow(queue'[r.row]))
      <3> SUFFICES ASSUME NEW r \in late
                   PROVE  NamesNext(r.target, OrderOfRow(queue'[r.row]))
        OBVIOUS
      <3>1. r \in [row : Rows, target : {0} \cup CloudIds]
        BY <1>0
      <3> QED BY <1>k, <3>1 DEF IInv, IdsInv
    <2>2. CASE InFlight /\ late' \subseteq late \cup {[row |-> flight.row, target |-> flight.target]}
      <3>1. flight.row # 0
        BY <1>0, <2>2, FlightRow DEF InFlight, Busy, IInv
      <3> QED BY <1>f, <2>1, <2>2, <3>1
    <2>3. CASE late' \subseteq late
      BY <2>1, <2>3
    <2> QED
      BY <2>2, <2>3
      DEF Next, Producers, EngineStep, OperatorStep, RecoverStep, Environment,
          CreateOrder, RecordPayment, HandlerEnqueue, HandlerEnqueueFails, Woken, Tick,
          Cascade, BackfillOrder, BackfillPayment, BackfillFails, ReconcileUnsyncedOrders,
          ReconcileUnsyncedPayments, MarkRehomed, Select, DrainDone, DependencyNotReady,
          BudgetSkip, Push, CloudAnswers, CloudRefuses, Timeout, LateRequest, WriteBack,
          StampSynced, AuthRejected, DataConflict, BurnAttempt, DeadLetterIfExhausted,
          Transient, StuckOrStop, RetryFailed, Discard, ReResolve, Recovery, RecoverCheck,
          RecoverUnlink, RecoverResolve, RecoverRevive, RecoverEnqueue, CooldownElapses,
          Probe, Outage, CloudMoves, Crash, EngineRest, EnvRest, OperatorRest, net, vars
  <1>4. flight'.row # 0 => /\ NamesNext(flight'.target, OrderOfRow(queue'[flight'.row]))
                           /\ NamesNext(flight'.id, OrderOfRow(queue'[flight'.row]))
    <2>1. CASE /\ flight'.row = flight.row
               /\ flight'.target = flight.target /\ flight'.id = flight.id
      BY <1>f, <2>1
    <2>2. ASSUME NEW i \in batch, Push(i)
          PROVE  /\ NamesNext(flight'.target, OrderOfRow(queue'[flight'.row]))
                 /\ NamesNext(flight'.id, OrderOfRow(queue'[flight'.row]))
      <3>1. i \in Rows /\ RowOK(queue[i])
        BY DEF IInv, TypeOK, WellFormed
      <3>2. Target(i) \in {0} \cup CloudIds /\ Names(Target(i), OrderOfRow(queue[i]))
        BY <1>0, <3>1 DEF Target, OrderOfRow, RowOK, TaskOK, IInv, IdsInv, Names
      <3>3. flight'.target = Target(i) /\ flight'.row = i /\ flight'.id = 0
        BY <2>2 DEF Push
      <3>4. NamesNext(Target(i), OrderOfRow(queue'[i]))
        BY <1>k, <3>1, <3>2
      <3>5. NamesNext(0, OrderOfRow(queue'[i]))
        BY DEF NamesNext
      <3> QED BY <3>3, <3>4, <3>5
    <2>3. CASE flight'.target = 0 /\ flight'.id = 0
      BY <2>3 DEF NamesNext
    <2>4. CASE CloudAnswers
      <3>1. flight.row # 0
        BY <1>0, <2>4, FlightRow DEF CloudAnswers, InFlight, Busy, IInv
      <3>2. PICK answer, id : /\ Process(flight.row, flight.target, answer, id)
                              /\ flight' = [flight EXCEPT !.answer = answer, !.id = id]
        BY <2>4 DEF CloudAnswers
      <3>3. NamesNext(id, OrderOfRow(queue[flight.row]))
        <4>1. PICK i \in Rows : i = flight.row
          BY <1>f, <3>1
        <4>2. PICK c : c = flight.target
          OBVIOUS
        <4>3. Names(c, OrderOfRow(queue[i])) /\ Process(i, c, answer, id)
          BY <3>1, <3>2, <4>1, <4>2 DEF IInv, IdsInv
        <4> QED BY <4>1, <4>3, ProcessMove DEF NamesNext
      <3>4. flight'.row = flight.row /\ flight'.target = flight.target /\ flight'.id = id
        BY <1>0, <3>2
      <3> QED BY <1>f, <1>k, <3>1, <3>3, <3>4
    <2>5. CASE flight' = NoFlight
      BY <2>5 DEF NoFlight
    <2> QED
      BY <1>0, <2>1, <2>2, <2>3, <2>4, <2>5
      DEF Next, Producers, EngineStep, OperatorStep, RecoverStep, Environment,
          CreateOrder, RecordPayment, HandlerEnqueue, HandlerEnqueueFails, Woken, Tick,
          Cascade, BackfillOrder, BackfillPayment, BackfillFails, ReconcileUnsyncedOrders,
          ReconcileUnsyncedPayments, MarkRehomed, Select, DrainDone, DependencyNotReady,
          BudgetSkip, Push, CloudAnswers, CloudRefuses, Timeout, LateRequest, WriteBack,
          StampSynced, AuthRejected, DataConflict, BurnAttempt, DeadLetterIfExhausted,
          Transient, StuckOrStop, RetryFailed, Discard, ReResolve, Recovery, RecoverCheck,
          RecoverUnlink, RecoverResolve, RecoverRevive, RecoverEnqueue, CooldownElapses,
          Probe, Outage, CloudMoves, Crash, EngineRest, EnvRest, OperatorRest, NextRow, StopCycle, NoFlight, engine, vars
  <1> QED BY <1>1, <1>2, <1>3, <1>4 DEF IdsInv, Names, NamesNext, OrderOfRow

(* A payment with a cloud_id, or answered "ok", is on Cloud. *)
LEMMA PaidKept ==
  ASSUME IInv, [Next]_vars
  PROVE  PaidInv'
  <1>0. /\ payCloud \in [Payments -> {0} \cup CloudIds]
        /\ flight \in [row : {0} \cup Rows, target : {0} \cup CloudIds, id : {0} \cup CloudIds,
              answer : {"none", "ok", "404", "409", "400", "401", "422", "5xx", "lost"}]
        /\ 0 \notin Rows
        /\ \A i \in Rows : RowOK(queue[i])
    BY DEF IInv, TypeOK, WellFormed, Rows
  <1>k. \A p \in Payments, c \in CloudIds : Paid(p, c) => PaidNext(p, c)
    BY LinksKept
  <1>i. /\ \A i \in Rows : queue'[i].op = queue[i].op /\ queue'[i].ent = queue[i].ent
        /\ 0 \notin Rows'
    BY SharedMove DEF QueueStep
  <1>f. flight.row # 0 /\ flight.answer = "ok" /\ queue[flight.row].op = "payment.create"
          => PaidNext(queue[flight.row].ent, flight.id)
    BY <1>0, <1>k DEF IInv, PaidInv, RowOK, TaskOK, Paid
  <1>1. \A p \in Payments : payCloud'[p] # 0 => PaidNext(p, payCloud'[p])
    <2>1. \A p \in Payments : payCloud[p] # 0 => PaidNext(p, payCloud[p])
      BY <1>0, <1>k DEF IInv, PaidInv
    <2>2. CASE WriteBack
      <3>1. flight.row # 0
        BY <1>0, <2>2, FlightRow DEF WriteBack, Answered, Busy, IInv
      <3> QED BY <1>0, <1>f, <2>1, <2>2, <3>1 DEF WriteBack, TheRow
    <2>3. CASE UNCHANGED payCloud
      BY <2>1, <2>3
    <2> QED
      BY <2>2, <2>3
      DEF Next, Producers, EngineStep, OperatorStep, RecoverStep, Environment,
          CreateOrder, RecordPayment, HandlerEnqueue, HandlerEnqueueFails, Woken, Tick,
          Cascade, BackfillOrder, BackfillPayment, BackfillFails, ReconcileUnsyncedOrders,
          ReconcileUnsyncedPayments, MarkRehomed, Select, DrainDone, DependencyNotReady,
          BudgetSkip, Push, CloudAnswers, CloudRefuses, Timeout, LateRequest, WriteBack,
          StampSynced, AuthRejected, DataConflict, BurnAttempt, DeadLetterIfExhausted,
          Transient, StuckOrStop, RetryFailed, Discard, ReResolve, Recovery, RecoverCheck,
          RecoverUnlink, RecoverResolve, RecoverRevive, RecoverEnqueue, CooldownElapses,
          Probe, Outage, CloudMoves, Crash, EngineRest, EnvRest, OperatorRest, local, vars
  <1>2. flight'.row # 0 /\ flight'.answer = "ok" /\ queue'[flight'.row].op = "payment.create"
          => PaidNext(queue'[flight'.row].ent, flight'.id)
    <2>1. CASE UNCHANGED flight
      BY <1>0, <1>i, <1>f, <2>1
    <2>2. CASE CloudAnswers
      <3>1. flight.row # 0
        BY <1>0, <2>2, FlightRow DEF CloudAnswers, InFlight, Busy, IInv
      <3>2. PICK answer, id : /\ Process(flight.row, flight.target, answer, id)
                              /\ flight' = [flight EXCEPT !.answer = answer, !.id = id]
        BY <2>2 DEF CloudAnswers
      <3>3. PICK i \in Rows : i = flight.row
        BY <1>0, <3>1
      <3>4. PICK c : c = flight.target
        OBVIOUS
      <3>5. Names(c, OrderOfRow(queue[i])) /\ Process(i, c, answer, id)
        BY <3>1, <3>2, <3>3, <3>4 DEF IInv, IdsInv
      <3>6. \A p \in Payments : answer = "ok" /\ IsRow(i, "payment.create", p) => Paid(p, id)'
        BY <3>5, ProcessMove
      <3>7. \A p \in Payments : answer = "ok" /\ IsRow(i, "payment.create", p) => PaidNext(p, id)
        BY <3>6 DEF Paid, PaidNext, BookedOn
      <3>8. flight'.row = i /\ flight'.answer = answer /\ flight'.id = id
        BY <1>0, <3>2, <3>3
      <3> QED BY <1>0, <1>i, <3>7, <3>8 DEF IsRow, RowOK, TaskOK
    <2>3. CASE flight'.answer # "ok" \/ flight'.row = 0
      BY <2>3
    <2>4. ASSUME NEW f \in {"400", "401", "422", "5xx"}, CloudRefuses(f)
          PROVE  flight'.answer # "ok"
      BY <1>0, <2>4 DEF CloudRefuses
    <2>5. CASE Timeout
      BY <1>0, <2>5 DEF Timeout
    <2>6. ASSUME NEW i \in batch, Push(i) PROVE flight'.answer # "ok"
      BY <2>6 DEF Push
    <2>7. ASSUME NEW p \in Payments, BackfillPayment(p)
          PROVE  flight'.answer # "ok" \/ UNCHANGED flight
      BY <2>7 DEF BackfillPayment, NoFlight
    <2>8. NoFlight.row = 0
      BY DEF NoFlight
    <2> QED
      BY <2>1, <2>2, <2>3, <2>4, <2>5, <2>6, <2>7, <2>8
      DEF Next, Producers, EngineStep, OperatorStep, RecoverStep, Environment,
          CreateOrder, RecordPayment, HandlerEnqueue, HandlerEnqueueFails, Woken, Tick,
          Cascade, BackfillOrder, BackfillFails, ReconcileUnsyncedOrders,
          ReconcileUnsyncedPayments, MarkRehomed, Select, DrainDone, DependencyNotReady,
          BudgetSkip, LateRequest, WriteBack,
          StampSynced, AuthRejected, DataConflict, BurnAttempt, DeadLetterIfExhausted,
          Transient, StuckOrStop, RetryFailed, Discard, ReResolve, Recovery, RecoverCheck,
          RecoverUnlink, RecoverResolve, RecoverRevive, RecoverEnqueue, CooldownElapses,
          Probe, Outage, CloudMoves, Crash, EngineRest, EnvRest, OperatorRest, NextRow, StopCycle, engine, vars
  <1> QED BY <1>1, <1>2 DEF PaidInv, Paid, PaidNext, BookedOn

-----------------------------------------------------------------------------
LEMMA InitEstablishes == Init => IInv
  <1> SUFFICES ASSUME Init PROVE IInv
    OBVIOUS
  <1>1. queue = <<>> /\ cloud = <<>> /\ booked = {} /\ CloudIds = {} /\ Rows = {}
    BY EmptySeq DEF Init, CloudInit, CloudIds, Rows
  <1>2. /\ queue \in Seq(Row) /\ Len(queue) = 0 /\ MaxQueue \in Nat
        /\ cloud \in Seq([client : Orders, state : OrderStates])
    BY <1>1, EmptySeq, SyncQueueAssumption
  <1>4. LocalType /\ EngineType
    BY <1>1 DEF Init, LocalType, EngineType, RecoverStages, NoFlight, Busy
  <1>5. TypeOK
    BY <1>1, <1>2, <1>4 DEF TypeOK, LocalType, EngineType
  <1>3. WellFormed /\ IdsInv /\ OneCloudOrder /\ BookedInv /\ PaidInv
    BY <1>1 DEF Init, WellFormed, IdsInv, OneCloudOrder, BookedInv, PaidInv, NoFlight, Names
  <1> QED BY <1>3, <1>5 DEF IInv

LEMMA StepKeeps == IInv /\ [Next]_vars => IInv'
  <1> SUFFICES ASSUME IInv, [Next]_vars PROVE IInv'
    OBVIOUS
  <1>1. TypeOK'
    BY SharedMove, LocalTypeKept, EngineTypeKept
    DEF TypeOK, LocalType, EngineType, QueueStep, CloudMove, CloudStep
  <1>2. OneCloudOrder' /\ BookedInv'
    BY SharedMove DEF CloudMove
  <1> QED BY <1>1, <1>2, WellFormedKept, IdsKept, PaidKept DEF IInv

(***************************************************************************)
(* The variables of the outbox and of Cloud stay in their sets: the queue  *)
(* within its bound, every Cloud id one that Cloud has issued, the engine  *)
(* at a row exactly while it works on one.                                 *)
(***************************************************************************)
THEOREM TypeCorrect == Spec => []TypeOK
  <1>1. IInv => TypeOK
    BY DEF IInv
  <1> QED BY <1>1, InitEstablishes, StepKeeps, PTL DEF Spec

(***************************************************************************)
(* Cloud never books a payment twice, whatever is lost, late, repeated,    *)
(* re-homed or recovered: its two bookings would lie on two orders of one  *)
(* local order, or be one booking.                                         *)
(***************************************************************************)
THEOREM PaymentsAreBookedOnce == Spec => []NoDoubleBooking
  <1>1. IInv => NoDoubleBooking
    <2> SUFFICES ASSUME IInv, NEW a \in booked, NEW b \in booked, a.payment = b.payment
                 PROVE  a = b
      BY DEF NoDoubleBooking
    <2>1. a.key = b.key
      BY DEF IInv, BookedInv
    <2>2. a.order \in HeldFor(OrderOf[a.payment]) /\ b.order \in HeldFor(OrderOf[a.payment])
      BY DEF IInv, BookedInv
    <2>3. a.order = b.order
      BY <2>2 DEF IInv, OneCloudOrder, HeldFor
    <2>4. /\ a \in [order : CloudIds, payment : Payments, key : Entities \cup (1..MaxQueue)]
          /\ b \in [order : CloudIds, payment : Payments, key : Entities \cup (1..MaxQueue)]
      BY DEF IInv, TypeOK
    <2> QED BY <2>1, <2>3, <2>4
  <1> QED BY <1>1, InitEstablishes, StepKeeps, PTL DEF Spec

(***************************************************************************)
(* A payment's cloud_id names a payment that Cloud holds, unless Cloud     *)
(* itself lost the order since.                                            *)
(***************************************************************************)
THEOREM CloudIdsAreReal == Spec => []CloudIdIsReal
  <1>1. IInv => CloudIdIsReal
    BY DEF IInv, PaidInv, Paid, CloudIdIsReal
  <1> QED BY <1>1, InitEstablishes, StepKeeps, PTL DEF Spec

=============================================================================

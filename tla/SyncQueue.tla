----------------------------- MODULE SyncQueue -----------------------------
(***************************************************************************)
(* The workstation's outbox (internal/service/sync_service.go): local      *)
(* orders and payments are committed to SQLite, queued in sync_queue and   *)
(* pushed to Cloud by one engine goroutine, while HTTP handlers keep       *)
(* queueing and the operator works the dead-letter page.                   *)
(*                                                                         *)
(* Every SQL statement that commits on its own is a step of its own, so a  *)
(* handler, an operator action, a late request or a crash can fall between *)
(* any two of them.  Requests may be lost, answered late, or processed by  *)
(* Cloud after the engine gave up on them.                                 *)
(*                                                                         *)
(* Left out here: item_add, KDS, till and peripheral rows (same drain      *)
(* loop, other handlers), the amount cap of payments, and the cross-branch *)
(* gate of the reconcilers.                                                *)
(***************************************************************************)
EXTENDS CloudLedger, FiniteSets

CONSTANTS
  Kiosk,           \* the payments taken at a kiosk (sync_target = 'kiosk')
  MaxQueue,        \* bound: how many rows sync_queue may ever hold
  MaxAttempts,     \* max_attempts of a row (5 in the code)
  StuckThreshold,  \* rlStuckTransientThreshold (20 in the code)
  Faults,          \* what may go wrong with any request, Enqueue or row
  Poison,          \* entities whose write Cloud answers 5xx every time
  CloudEvents,     \* what may happen to an order behind the workstation's back
  Operator,        \* the operator actions of this instance
  Crashes          \* whether the workstation may crash

ASSUME SyncQueueAssumption ==
  /\ Kiosk \subseteq Payments
  /\ MaxQueue \in Nat
  /\ MaxAttempts \in Nat \ {0}
  /\ StuckThreshold \in Nat \ {0}
  /\ Faults \subseteq {"400", "401", "422", "5xx", "lost", "enqueue", "backfill", "budget"}
  /\ Poison \subseteq Orders \cup Payments
  /\ CloudEvents \subseteq {"settle", "trash", "lose", "outage"}
  /\ Operator \subseteq {"retry", "discard", "reresolve", "recover"}
  /\ Crashes \in BOOLEAN

VARIABLES
  \* The local database.
  queue,       \* sync_queue, append-only, a row id is an index
  known,       \* orders inserted locally
  recorded,    \* payments inserted locally
  orderCloud,  \* orders.cloud_id (0: none)
  payCloud,    \* the Cloud order under which payments.cloud_id was issued (0: none)
  rehomed,     \* payments with rehomed_at set
  \* HTTP handlers in progress.
  todo,        \* the Enqueue calls they still have to make
  recovering,  \* how far the recover call of each order has come
  \* The engine goroutine.
  pc,          \* where it is
  pend,        \* entities a sweep or a backfill query returned, still to do
  batch,       \* rows the drain query returned, still to do
  flight,      \* the push under way: row, the Cloud id it addresses, the answer
  wake,        \* wakeCh holds a token
  cooling,     \* cooldownUntil lies ahead
  online,      \* what ConnMonitor last saw
  \* The network.
  up,          \* Cloud can be reached
  late         \* requests the engine gave up on that Cloud may still process

local  == <<known, recorded, orderCloud, payCloud, rehomed>>
http   == <<todo, recovering>>
engine == <<pc, pend, batch, flight, wake, cooling, online>>
net    == <<up, late>>
vars   == <<queue, local, http, engine, net, cloudVars>>

Entities == Orders \cup Payments
Ops      == {"order.create", "payment.create", "payment.confirm"}
Tasks    == [op : Ops, ent : Entities]
OrderFor(e) == IF e \in Orders THEN e ELSE OrderOf[e]

Reasons == {"cloud_404_order_gone", "payment_orphan_order_gone",
            "cloud_422_entity_missing", "parent_order_dead",
            "stuck_transient", "max_attempts_exhausted"}

(* transient is capped at the threshold the code compares it with. *)
Row == [op : Ops, ent : Entities, key : Entities \cup (1..MaxQueue),
        attempts : Nat, transient : 0..StuckThreshold,
        synced : BOOLEAN, dead : Reasons \cup {"no"},
        resolution : {"no", "discarded", "recovered"}]

RecoverStages == {"no", "unlink", "resolve", "revive", "enqueue"}

Rows == 1..Len(queue)
Busy == {"rehomedOrphan", "flight", "rehomedRow", "stamp", "exhaust", "stuck"}
NoFlight == [row |-> 0, target |-> 0, answer |-> "none", id |-> 0]

Active(i) == /\ ~queue[i].synced
             /\ queue[i].attempts < MaxAttempts
             /\ queue[i].dead = "no"
Surfaced(i) == queue[i].dead # "no" /\ queue[i].resolution = "no"
IsRow(i, op, e) == queue[i].op = op /\ queue[i].ent = e

-----------------------------------------------------------------------------
Init ==
  /\ CloudInit
  /\ queue = <<>>
  /\ known = {} /\ recorded = {} /\ rehomed = {}
  /\ orderCloud = [o \in Orders |-> 0]
  /\ payCloud = [p \in Payments |-> 0]
  /\ todo = {} /\ recovering = [o \in Orders |-> "no"]
  /\ pc = "idle" /\ pend = {} /\ batch = {} /\ flight = NoFlight
  /\ wake = FALSE /\ cooling = FALSE /\ online = FALSE
  /\ up = TRUE /\ late = {}

-----------------------------------------------------------------------------
(* Producers: a handler commits the entity, then enqueues. *)

(* A payment keeps its own idempotency key on every row made for it; an    *)
(* order.create row gets a fresh one.                                      *)
KeyPerRow(t, i) == i
KeyFor(t, i) == IF t.op = "order.create" THEN i ELSE t.ent

NewRow(t, i) ==
  [op |-> t.op, ent |-> t.ent, key |-> KeyFor(t, i), attempts |-> 0, transient |-> 0,
   synced |-> FALSE, dead |-> "no", resolution |-> "no"]

Enqueue(t) ==
  /\ Len(queue) < MaxQueue
  /\ queue' = Append(queue, NewRow(t, Len(queue) + 1))

Task(op, e) == [op |-> op, ent |-> e]

CreateOrder(o) ==
  /\ o \notin known
  /\ known' = known \cup {o}
  /\ todo' = todo \cup {Task("order.create", o)}
  /\ UNCHANGED <<queue, recorded, orderCloud, payCloud, rehomed, recovering, engine, net, cloudVars>>

RecordPayment(p) ==
  /\ p \notin recorded /\ OrderOf[p] \in known
  /\ recorded' = recorded \cup {p}
  /\ todo' = todo \cup {Task("payment.create", p)}
                  \cup (IF p \in Kiosk THEN {Task("payment.confirm", p)} ELSE {})
  /\ UNCHANGED <<queue, known, orderCloud, payCloud, rehomed, recovering, engine, net, cloudVars>>

(* The handler's Enqueue call; create goes before confirm, and only an     *)
(* order.create wakes the engine.                                          *)
HandlerEnqueue(t) ==
  /\ t \in todo
  /\ t.op = "payment.confirm" => Task("payment.create", t.ent) \notin todo
  /\ Enqueue(t)
  /\ todo' = todo \ {t}
  /\ wake' = (wake \/ t.op = "order.create")
  /\ UNCHANGED <<local, recovering, pc, pend, batch, flight, cooling, online, net, cloudVars>>

(* An Enqueue error is logged and the caller goes on: the handler's        *)
(* request still succeeds, the backfill turns to its next entity.          *)
HandlerEnqueueFails(t) ==
  /\ "enqueue" \in Faults
  /\ t \in todo
  /\ todo' = todo \ {t}
  /\ UNCHANGED <<queue, local, recovering, engine, net, cloudVars>>

-----------------------------------------------------------------------------
(* The engine's loop: a wake drains, a tick also cascades and reconciles.  *)
(* Each sweep acts on what its query saw, one statement per entity, while  *)
(* the handlers and the operator go on.                                    *)

EngineRest == UNCHANGED <<local, http, net, cloudVars>>

Woken ==
  /\ pc = "idle" /\ wake
  /\ wake' = FALSE
  /\ pc' = IF online THEN "select" ELSE "idle"
  /\ EngineRest /\ UNCHANGED <<queue, pend, batch, flight, cooling, online>>

DeadParent(o) == \E i \in Rows : IsRow(i, "order.create", o) /\ Surfaced(i)

Tick ==
  /\ pc = "idle" /\ online
  /\ pend' = {o \in Orders : DeadParent(o)}
  /\ pc' = "cascade"
  /\ EngineRest /\ UNCHANGED <<queue, batch, flight, wake, cooling, online>>

Cascade(o) ==
  /\ pc = "cascade" /\ o \in pend
  /\ queue' = [i \in Rows |->
        IF /\ queue[i].op # "order.create" /\ OrderFor(queue[i].ent) = o
           /\ ~queue[i].synced /\ queue[i].dead = "no"
        THEN [queue[i] EXCEPT !.dead = "parent_order_dead"]
        ELSE queue[i]]
  /\ pend' = pend \ {o}
  /\ EngineRest /\ UNCHANGED <<pc, batch, flight, wake, cooling, online>>

Unsynced(op, e) == \E i \in Rows : IsRow(i, op, e) /\ ~queue[i].synced

NoOrphanOrder(o) == FALSE
OrphanOrder(o) == /\ o \in known /\ orderCloud[o] = 0
                  /\ ~Unsynced("order.create", o)

OrphanUncapped(p) == /\ p \in recorded /\ payCloud[p] = 0
                     /\ orderCloud[OrderOf[p]] # 0
                     /\ ~Unsynced("payment.create", p)

OrphanPayment(p) == /\ p \in recorded /\ payCloud[p] = 0
                    /\ p \in Kiosk => p \notin rehomed
                    /\ orderCloud[OrderOf[p]] # 0
                    /\ ~Unsynced("payment.create", p)

ReconcileUnsyncedOrders ==
  /\ pc = "cascade" /\ pend = {}
  /\ pend' = {o \in Orders : OrphanOrder(o)}
  /\ pc' = "backfillOrders"
  /\ EngineRest /\ UNCHANGED <<queue, batch, flight, wake, cooling, online>>

BackfillOrder(o) ==
  /\ pc = "backfillOrders" /\ o \in pend
  /\ Enqueue(Task("order.create", o))
  /\ pend' = pend \ {o}
  /\ EngineRest /\ UNCHANGED <<pc, batch, flight, wake, cooling, online>>

ReconcileUnsyncedPayments ==
  /\ pc = "backfillOrders" /\ pend = {}
  /\ pend' = {p \in Payments : OrphanPayment(p)}
  /\ pc' = "backfillPayments"
  /\ EngineRest /\ UNCHANGED <<queue, batch, flight, wake, cooling, online>>

(* A kiosk payment moves to the workstation route (its payload's; which    *)
(* bearer a request carries is not modelled), which is remembered only     *)
(* once its row is in.                                                     *)
BackfillPayment(p) ==
  /\ pc = "backfillPayments" /\ p \in pend
  /\ Enqueue(Task("payment.create", p))
  /\ pend' = pend \ {p}
  /\ IF p \in Kiosk
     THEN pc' = "rehomedOrphan" /\ flight' = [NoFlight EXCEPT !.row = Len(queue) + 1]
     ELSE UNCHANGED <<pc, flight>>
  /\ EngineRest /\ UNCHANGED <<batch, wake, cooling, online>>

(* Where the model's queue is full, the engine goes on as after an error.  *)
BackfillFails(e) ==
  /\ pc \in {"backfillOrders", "backfillPayments"} /\ e \in pend
  /\ "backfill" \in Faults \/ Len(queue) = MaxQueue
  /\ pend' = pend \ {e}
  /\ EngineRest /\ UNCHANGED <<queue, pc, batch, flight, wake, cooling, online>>

MarkRehomed ==
  /\ pc \in {"rehomedOrphan", "rehomedRow"}
  /\ rehomed' = rehomed \cup {queue[flight.row].ent}
  /\ pc' = IF pc = "rehomedOrphan" THEN "backfillPayments" ELSE "drain"
  /\ flight' = NoFlight
  /\ UNCHANGED <<queue, known, recorded, orderCloud, payCloud, http, net, cloudVars,
                 pend, batch, wake, cooling, online>>

Select ==
  /\ pc = "select" \/ (pc = "backfillPayments" /\ pend = {})
  /\ IF cooling
     THEN pc' = "idle" /\ UNCHANGED batch
     ELSE pc' = "drain" /\ batch' = {i \in Rows : Active(i)}
  /\ EngineRest /\ UNCHANGED <<queue, pend, flight, wake, cooling, online>>

DrainDone ==
  /\ pc = "drain" /\ batch = {}
  /\ pc' = "idle"
  /\ EngineRest /\ UNCHANGED <<pend, queue, batch, flight, wake, cooling, online>>

-----------------------------------------------------------------------------
(* One row of the drain.  Creates come first; created_at has one-second    *)
(* granularity and a wall clock behind it, so the order among creates and  *)
(* among the others is not determined.                                     *)

IsCreate(i) == queue[i].op \in {"order.create", "payment.create"}
NextInBatch(i) == i \in batch /\ (IsCreate(i) \/ \A j \in batch : ~IsCreate(j))

(* The Cloud id the handler puts in its request: 0 when it is not known    *)
(* yet, which makes the row wait for its parent.                           *)
Target(i) ==
  CASE queue[i].op = "payment.create"  -> orderCloud[OrderOf[queue[i].ent]]
    [] queue[i].op = "payment.confirm" -> payCloud[queue[i].ent]
    [] OTHER                           -> 0

Ready(i) == queue[i].op = "order.create" \/ Target(i) # 0

DependencyNotReady(i) ==
  /\ pc = "drain" /\ NextInBatch(i) /\ ~Ready(i)
  /\ batch' = batch \ {i}
  /\ EngineRest /\ UNCHANGED <<pend, queue, pc, flight, wake, cooling, online>>

(* budgetAllows said no: the row stays queued for a later drain. *)
BudgetSkip(i) ==
  /\ "budget" \in Faults
  /\ pc = "drain" /\ NextInBatch(i)
  /\ batch' = batch \ {i}
  /\ EngineRest /\ UNCHANGED <<pend, queue, pc, flight, wake, cooling, online>>

Push(i) ==
  /\ pc = "drain" /\ NextInBatch(i) /\ Ready(i)
  /\ batch' = batch \ {i}
  /\ flight' = [row |-> i, target |-> Target(i), answer |-> "none", id |-> 0]
  /\ pc' = "flight"
  /\ EngineRest /\ UNCHANGED <<pend, queue, wake, cooling, online>>

-----------------------------------------------------------------------------
(* The request on its way: Cloud processes it, refuses it, or it is lost.  *)

InFlight == pc = "flight" /\ flight.answer = "none"

(* The failure row i is bound to meet. *)
Doomed(i) == IF queue[i].ent \in Poison THEN {"5xx"} ELSE {}

(* What Cloud does with a request for row i addressed to target. *)
Process(i, target, answer, id) ==
  CASE queue[i].op = "order.create"   -> answer = "ok" /\ StoreOrder(queue[i].ent, id)
    [] queue[i].op = "payment.create" -> /\ id = target
                                         /\ StorePayment(target, queue[i].ent, queue[i].key, answer)
    [] OTHER                          -> /\ id = target
                                         /\ ConfirmPayment(target, queue[i].ent, answer)

CloudAnswers ==
  /\ InFlight /\ up /\ Doomed(flight.row) = {}
  /\ \E answer \in {"ok", "404", "409"}, id \in 0..MaxCloudOrders :
       /\ Process(flight.row, flight.target, answer, id)
       /\ flight' = [flight EXCEPT !.answer = answer, !.id = id]
  /\ UNCHANGED <<queue, local, http, pc, pend, batch, wake, cooling, online, net>>

(* 401: the bearer is stale; 422 / 400: the row is refused with or without *)
(* an entity-missing signature; 5xx: Cloud fails or throttles.             *)
CloudRefuses(fault) ==
  /\ InFlight /\ up
  /\ fault \in (Faults \cap {"400", "401", "422", "5xx"}) \cup Doomed(flight.row)
  /\ flight' = [flight EXCEPT !.answer = fault]
  /\ UNCHANGED <<queue, local, http, pc, pend, batch, wake, cooling, online, net, cloudVars>>

(* The engine gives up after 15 s; the request may still arrive. *)
Timeout ==
  /\ InFlight
  /\ "lost" \in Faults \/ ~up
  /\ flight' = [flight EXCEPT !.answer = "lost"]
  /\ late' = IF up THEN late \cup {[row |-> flight.row, target |-> flight.target]} ELSE late
  /\ UNCHANGED <<queue, local, http, pc, pend, batch, wake, cooling, online, up, cloudVars>>

LateRequest(r) ==
  /\ r \in late /\ up
  /\ \/ \E answer \in {"ok", "404", "409"}, id \in 0..MaxCloudOrders :
          Process(r.row, r.target, answer, id)
     \/ UNCHANGED cloudVars
  /\ late' = late \ {r}
  /\ UNCHANGED <<queue, local, http, engine, up>>

-----------------------------------------------------------------------------
(* processQueue's switch over the outcome of the push. *)

Answered(answers) == pc = "flight" /\ flight.answer \in answers
TheRow == queue[flight.row]
NextRowKeepsFlight == pc' = "drain" /\ UNCHANGED flight
NextRow == pc' = "drain" /\ flight' = NoFlight
StopCycle == pc' = "idle" /\ flight' = NoFlight /\ batch' = {}

(* 2xx, or a 409 taken as an idempotent replay: pushToCloud writes the     *)
(* Cloud id back (a refusing 409 carries none), then the row is stamped.   *)
WriteBackOf(answers, payment) ==
  /\ Answered(answers)
  /\ orderCloud' = IF TheRow.op = "order.create" /\ flight.answer = "ok"
                   THEN [orderCloud EXCEPT ![TheRow.ent] = flight.id] ELSE orderCloud
  /\ payCloud' = IF TheRow.op = "payment.create"
                 THEN [payCloud EXCEPT ![TheRow.ent] = payment] ELSE payCloud
  /\ cooling' = FALSE
  /\ pc' = "stamp"
  /\ UNCHANGED <<queue, known, recorded, rehomed, http, pend, batch, flight, wake, online, net, cloudVars>>

WriteBackTimedOut == WriteBackOf({"ok", "409", "lost"}, flight.target)
StampTimedOut     == WriteBackOf({"ok", "409", "lost"}, flight.id)

WriteBack ==
  /\ Answered({"ok", "409"})
  /\ orderCloud' = IF TheRow.op = "order.create" /\ flight.answer = "ok"
                   THEN [orderCloud EXCEPT ![TheRow.ent] = flight.id] ELSE orderCloud
  /\ payCloud' = IF TheRow.op = "payment.create" /\ flight.answer = "ok"
                 THEN [payCloud EXCEPT ![TheRow.ent] = flight.id] ELSE payCloud
  /\ cooling' = FALSE
  /\ pc' = "stamp"
  /\ UNCHANGED <<queue, known, recorded, rehomed, http, pend, batch, flight, wake, online, net, cloudVars>>

StampSynced ==
  /\ pc = "stamp"
  /\ queue' = [queue EXCEPT ![flight.row].synced = TRUE, ![flight.row].transient = 0]
  /\ NextRow
  /\ EngineRest /\ UNCHANGED <<pend, batch, wake, cooling, online>>

(* 401 / 403: skip the row; a kiosk payment is moved to the workstation    *)
(* route (a rewrite of its payload), once.                                 *)
AuthRejected ==
  /\ Answered({"401"})
  /\ IF TheRow.op = "payment.create" /\ TheRow.ent \in Kiosk \ rehomed
     THEN pc' = "rehomedRow" /\ UNCHANGED flight
     ELSE NextRow
  /\ EngineRest /\ UNCHANGED <<queue, pend, batch, wake, cooling, online>>

ConflictReason ==
  CASE flight.answer = "422"          -> "cloud_422_entity_missing"
    [] TheRow.op = "order.create"     -> "cloud_404_order_gone"
    [] OTHER                          -> "payment_orphan_order_gone"

DataConflict ==
  /\ Answered({"404", "422"})
  /\ queue' = [queue EXCEPT ![flight.row].dead = ConflictReason]
  /\ NextRow
  /\ EngineRest /\ UNCHANGED <<pend, batch, wake, cooling, online>>

(* Another 4xx burns an attempt; a second statement dead-letters the row   *)
(* that has none left.                                                     *)
BurnAttempt ==
  /\ Answered({"400"})
  /\ queue' = [queue EXCEPT ![flight.row].attempts = @ + 1]
  /\ pc' = "exhaust"
  /\ EngineRest /\ UNCHANGED <<pend, batch, flight, wake, cooling, online>>

DeadLetterOffByOne ==
  /\ pc = "exhaust"
  /\ queue' = IF TheRow.attempts > MaxAttempts
              THEN [queue EXCEPT ![flight.row].dead = "max_attempts_exhausted"]
              ELSE queue
  /\ NextRow
  /\ EngineRest /\ UNCHANGED <<pend, batch, wake, cooling, online>>

DeadLetterIfExhausted ==
  /\ pc = "exhaust"
  /\ queue' = IF TheRow.attempts >= MaxAttempts
              THEN [queue EXCEPT ![flight.row].dead = "max_attempts_exhausted"]
              ELSE queue
  /\ NextRow
  /\ EngineRest /\ UNCHANGED <<pend, batch, wake, cooling, online>>

(* 5xx / 408 / 429 / network: count it, then stop the whole cycle unless   *)
(* the row has failed so often while the monitor says online that it is    *)
(* taken for poison.                                                       *)
Transient ==
  /\ Answered({"5xx", "lost"})
  /\ queue' = [queue EXCEPT ![flight.row].transient =
                 IF @ < StuckThreshold THEN @ + 1 ELSE @]
  /\ cooling' = (cooling \/ flight.answer = "5xx")
  /\ pc' = "stuck"
  /\ EngineRest /\ UNCHANGED <<pend, batch, flight, wake, online>>

NeverStuck == FALSE
IsStuckTransient == TheRow.transient >= StuckThreshold /\ online

StuckOrStop ==
  /\ pc = "stuck"
  /\ IF IsStuckTransient
     THEN /\ queue' = [queue EXCEPT ![flight.row].dead = "stuck_transient"]
          /\ NextRow /\ UNCHANGED batch
     ELSE StopCycle /\ UNCHANGED queue
  /\ EngineRest /\ UNCHANGED <<pend, wake, cooling, online>>

-----------------------------------------------------------------------------
(* The operator's page. *)

OperatorRest == UNCHANGED <<local, http, pc, pend, batch, flight, cooling, online, net, cloudVars>>

RetryFailed ==
  /\ "retry" \in Operator
  /\ \E i \in Rows : ~queue[i].synced /\ queue[i].attempts >= MaxAttempts
  /\ queue' = [i \in Rows |->
        IF ~queue[i].synced /\ queue[i].attempts >= MaxAttempts
        THEN [queue[i] EXCEPT !.attempts = 0] ELSE queue[i]]
  /\ OperatorRest /\ UNCHANGED wake

Discard(i) ==
  /\ "discard" \in Operator
  /\ Surfaced(i)
  /\ queue' = [queue EXCEPT ![i].resolution = "discarded"]
  /\ OperatorRest /\ UNCHANGED wake

RevivedKeepsAttempts(row) == [row EXCEPT !.dead = "no", !.resolution = "no", !.transient = 0]

Revived(row) == [row EXCEPT !.dead = "no", !.resolution = "no",
                            !.attempts = 0, !.transient = 0]

ReResolve(i) ==
  /\ "reresolve" \in Operator
  /\ Surfaced(i)
  /\ queue' = [queue EXCEPT ![i] = Revived(queue[i])]
  /\ wake' = TRUE
  /\ OperatorRest

(* RecoverOrderOnCloud refuses unless Cloud confirms that the order is     *)
(* gone (an order without a Cloud id is not asked about), then runs four   *)
(* statements, each committed on its own.                                  *)
Recovery(o, from, to) ==
  /\ recovering[o] = from
  /\ recovering' = [recovering EXCEPT ![o] = to]
  /\ UNCHANGED <<known, recorded, payCloud, rehomed, todo, pc, pend, batch, flight,
                 cooling, online, net, cloudVars>>

RecoverCheck(o) ==
  /\ "recover" \in Operator /\ o \in known
  /\ orderCloud[o] # 0 => up /\ ~Exists(orderCloud[o])
  /\ Recovery(o, "no", "unlink")
  /\ UNCHANGED <<queue, orderCloud, wake>>

RecoverUnlink(o) ==
  /\ Recovery(o, "unlink", "resolve")
  /\ orderCloud' = [orderCloud EXCEPT ![o] = 0]
  /\ UNCHANGED <<queue, wake>>

RecoverResolve(o) ==
  /\ Recovery(o, "resolve", "revive")
  /\ queue' = [i \in Rows |->
        IF IsRow(i, "order.create", o) /\ Surfaced(i)
        THEN [queue[i] EXCEPT !.resolution = "recovered"] ELSE queue[i]]
  /\ UNCHANGED <<orderCloud, wake>>

RecoverRevive(o) ==
  /\ Recovery(o, "revive", "enqueue")
  /\ queue' = [i \in Rows |->
        IF OrderFor(queue[i].ent) = o /\ queue[i].op # "order.create" /\ Surfaced(i)
        THEN Revived(queue[i]) ELSE queue[i]]
  /\ UNCHANGED <<orderCloud, wake>>

RecoverLeavesItToTick(o) ==
  /\ Recovery(o, "enqueue", "no")
  /\ wake' = TRUE
  /\ UNCHANGED <<queue, orderCloud>>

RecoverEnqueue(o) ==
  /\ Recovery(o, "enqueue", "no")
  /\ \/ Enqueue(Task("order.create", o)) /\ wake' = TRUE
     \/ "enqueue" \in Faults /\ UNCHANGED <<queue, wake>>
  /\ UNCHANGED orderCloud

-----------------------------------------------------------------------------
(* The environment. *)

EnvRest == UNCHANGED <<queue, local, http, pc, pend, batch, flight, wake>>

CooldownElapses ==
  /\ cooling /\ cooling' = FALSE
  /\ EnvRest /\ UNCHANGED <<online, net, cloudVars>>

(* ConnMonitor probes Cloud with a HEAD request of its own. *)
Probe ==
  /\ online # up /\ online' = up
  /\ EnvRest /\ UNCHANGED <<cooling, net, cloudVars>>

Outage ==
  /\ "outage" \in CloudEvents
  /\ up' = ~up
  /\ EnvRest /\ UNCHANGED <<cooling, online, late, cloudVars>>

CloudMoves ==
  /\ \E c \in CloudIds :
       \/ "settle" \in CloudEvents /\ SettleOnline(c)
       \/ "trash" \in CloudEvents /\ TrashOrder(c)
       \/ "lose" \in CloudEvents /\ LoseOrder(c)
  /\ EnvRest /\ UNCHANGED <<cooling, online, net>>

(* The process dies: what was in memory is gone, a request already sent    *)
(* may still reach Cloud.                                                  *)
Crash ==
  /\ Crashes
  /\ todo' = {} /\ recovering' = [o \in Orders |-> "no"]
  /\ pc' = "idle" /\ pend' = {} /\ batch' = {} /\ flight' = NoFlight
  /\ wake' = FALSE /\ cooling' = FALSE /\ online' = FALSE
  /\ late' = IF InFlight /\ up
             THEN late \cup {[row |-> flight.row, target |-> flight.target]} ELSE late
  /\ UNCHANGED <<queue, local, up, cloudVars>>

-----------------------------------------------------------------------------
Producers == \/ \E o \in Orders : CreateOrder(o)
             \/ \E p \in Payments : RecordPayment(p)
             \/ \E t \in Tasks : HandlerEnqueue(t)

EngineStep ==
  \/ Woken \/ Tick \/ ReconcileUnsyncedOrders \/ ReconcileUnsyncedPayments
  \/ \E o \in pend \cap Orders : Cascade(o) \/ BackfillOrder(o)
  \/ \E p \in pend \cap Payments : BackfillPayment(p)
  \/ \E e \in pend : BackfillFails(e)
  \/ MarkRehomed \/ Select \/ DrainDone
  \/ \E i \in batch : DependencyNotReady(i)
  \/ \E i \in batch : Push(i)
  \/ WriteBack \/ StampSynced \/ AuthRejected \/ DataConflict
  \/ BurnAttempt \/ DeadLetterIfExhausted \/ Transient \/ StuckOrStop

OperatorStep ==
  \/ RetryFailed
  \/ \E i \in Rows : Discard(i)
  \/ \E i \in Rows : ReResolve(i)
  \/ \E o \in Orders : RecoverCheck(o)

RecoverStep ==
  \E o \in Orders :
    RecoverUnlink(o) \/ RecoverResolve(o) \/ RecoverRevive(o) \/ RecoverEnqueue(o)

Environment ==
  \/ \E t \in Tasks : HandlerEnqueueFails(t)
  \/ \E i \in batch : BudgetSkip(i)
  \/ \E f \in {"400", "401", "422", "5xx"} : CloudRefuses(f)
  \/ Timeout
  \/ \E r \in late : LateRequest(r)
  \/ CooldownElapses \/ Probe \/ Outage \/ CloudMoves \/ Crash

Next == Producers \/ EngineStep \/ CloudAnswers \/ OperatorStep \/ RecoverStep \/ Environment

Spec == Init /\ [][Next]_vars

(***************************************************************************)
(* What is sure to happen: the engine goroutine and the handlers run, a    *)
(* request ends one way or the other within its 15 s, the cooldown runs    *)
(* out and the monitor probes.  Nothing is assumed of the operator, of the *)
(* guests or of an outage.                                                 *)
(***************************************************************************)
Responds == CloudAnswers \/ Timeout
            \/ \E f \in {"400", "401", "422", "5xx"} : CloudRefuses(f)

Fairness ==
  /\ WF_vars(EngineStep) /\ WF_vars(RecoverStep) /\ WF_vars(Responds)
  /\ WF_vars(\E t \in Tasks : HandlerEnqueue(t) \/ HandlerEnqueueFails(t))
  /\ WF_vars(CooldownElapses) /\ WF_vars(Probe)

FairSpec == Spec /\ Fairness

-----------------------------------------------------------------------------
TypeOK ==
  /\ cloud \in Seq([client : Orders, state : OrderStates])
  /\ booked \subseteq [order : CloudIds, payment : Payments, key : Entities \cup (1..MaxQueue)]
  /\ queue \in Seq(Row) /\ Len(queue) <= MaxQueue
  /\ known \subseteq Orders /\ recorded \subseteq Payments /\ rehomed \subseteq Kiosk
  /\ orderCloud \in [Orders -> {0} \cup CloudIds]
  /\ payCloud \in [Payments -> {0} \cup CloudIds]
  /\ todo \subseteq Tasks /\ recovering \in [Orders -> RecoverStages]
  /\ pc \in {"idle", "cascade", "backfillOrders", "backfillPayments", "rehomedOrphan",
             "select", "drain", "flight", "rehomedRow", "stamp", "exhaust", "stuck"}
  /\ pend \subseteq Entities
  /\ batch \subseteq Rows
  /\ flight \in [row : {0} \cup Rows, target : {0} \cup CloudIds, id : {0} \cup CloudIds,
                answer : {"none", "ok", "404", "409", "400", "401", "422", "5xx", "lost"}]
  /\ {wake, cooling, online, up} \subseteq BOOLEAN
  /\ late \subseteq [row : Rows, target : {0} \cup CloudIds]
  /\ flight.row = 0 <=> pc \notin Busy

(***************************************************************************)
(* Cloud never holds a payment twice: not when it was retried, processed   *)
(* late, queued again after a crash (SyncDelivery), re-homed or pushed to  *)
(* an order that was re-created (SyncRecovery).  The payment keeps one     *)
(* idempotency key, the order one client_order_id.                         *)
(***************************************************************************)
NoDoubleBooking ==
  \A a, b \in booked : a.payment = b.payment => a = b

(***************************************************************************)
(* A payment's cloud_id is never invented: it names a payment Cloud holds, *)
(* unless Cloud itself lost the order since.                               *)
(***************************************************************************)
CloudIdIsReal ==
  \A p \in Payments :
    payCloud[p] # 0 => BookedOn(payCloud[p], p) \/ cloud[payCloud[p]].state = "gone"

(***************************************************************************)
(* A payment.create row stamped synced has been dealt with: Cloud booked   *)
(* the payment (under whatever row), or lost the order since, or another   *)
(* channel had settled the order.  The last is the 409 that cloudPost      *)
(* takes for a replay; a timeout, a refusal or a late request never        *)
(* stamps a row.                                                           *)
(***************************************************************************)
PaymentRow(i) == queue[i].op = "payment.create"
Booked(p) == \E b \in booked : b.payment = p
OrderIs(state, p) == \E c \in CloudIds : cloud[c].client = OrderOf[p] /\ cloud[c].state = state

SyncedMeansBooked ==
  \A i \in Rows : PaymentRow(i) /\ queue[i].synced =>
    \/ Booked(queue[i].ent)
    \/ OrderIs("gone", queue[i].ent)
    \/ OrderIs("closed", queue[i].ent)

(***************************************************************************)
(* Somebody still owns every order Cloud does not know: a handler or a     *)
(* recover call at work, a row that will be pushed or that the recovery    *)
(* page shows (or showed, until it was discarded), or the reconciler.      *)
(***************************************************************************)
Owned(op, e) ==
  \E i \in Rows :
    /\ IsRow(i, op, e)
    /\ \/ Active(i) \/ Surfaced(i)
       \/ queue[i].resolution = "discarded"
       \/ pc = "exhaust" /\ flight.row = i

NoOrderStranded ==
  \A o \in known : orderCloud[o] = 0 =>
    \/ Task("order.create", o) \in todo
    \/ recovering[o] # "no"
    \/ Owned("order.create", o)
    \/ OrphanOrder(o)

(***************************************************************************)
(* The same for money: a recorded payment without a cloud_id is in         *)
(* somebody's hands, or will be as soon as its order has a cloud_id.       *)
(***************************************************************************)
NoPaymentStranded ==
  \A p \in recorded : payCloud[p] = 0 =>
    \/ Task("payment.create", p) \in todo
    \/ Owned("payment.create", p)
    \/ ~Unsynced("payment.create", p) /\ p \notin rehomed

(***************************************************************************)
(* A row that has burned its attempts does not die invisibly: it is        *)
(* dead-lettered, so that it surfaces on the recovery page (comment of     *)
(* deadLetterIfExhausted), but for the moment between the two statements.  *)
(***************************************************************************)
ExhaustedIsSurfaced ==
  \A i \in Rows :
    ~queue[i].synced /\ queue[i].attempts >= MaxAttempts =>
      queue[i].dead # "no" \/ (pc = "exhaust" /\ flight.row = i)

(***************************************************************************)
(* A kiosk payment refused by a 409, which the engine takes for done while *)
(* it leaves cloud_id empty, is not queued again on every tick: rehomed_at *)
(* caps the re-homes of reconcileUnsyncedPayments and of the drain at one. *)
(***************************************************************************)
KioskRowsBounded ==
  \A p \in Kiosk : Cardinality({i \in Rows : IsRow(i, "payment.create", p)}) <= 2

-----------------------------------------------------------------------------
(* Liveness, under FairSpec. *)

(***************************************************************************)
(* No row is pushed for ever: each ends synced or dead-lettered, whatever  *)
(* Cloud answers it and however often.                                     *)
(***************************************************************************)
Settled(i) == i \in Rows /\ (queue[i].synced \/ queue[i].dead # "no")

EveryRowSettles == \A i \in 1..MaxQueue : i \in Rows ~> Settled(i)

(***************************************************************************)
(* A poison row does not block the orders and the money behind it.         *)
(***************************************************************************)
OrdersArrive ==
  \A o \in Orders \ Poison : o \in known ~> orderCloud[o] # 0

Wholesome == {p \in Payments : p \notin Poison /\ OrderOf[p] \notin Poison}

MoneyArrives ==
  \A p \in Wholesome : p \in recorded ~> Booked(p)

(***************************************************************************)
(* "A payment recorded locally MUST still reach Cloud after recovery"      *)
(* (RecoverOrderOnCloud): money booked on the order Cloud lost is booked   *)
(* again on the one that replaced it.                                      *)
(***************************************************************************)
MoneyFollowsRecovery ==
  \A p \in Payments :
    (orderCloud[OrderOf[p]] # payCloud[p] /\ orderCloud[OrderOf[p]] # 0 /\ payCloud[p] # 0)
      ~> Booked(p)
=============================================================================

-------------------------- MODULE SyncOwners_proofs --------------------------
(***************************************************************************)
(* Proofs about who owns what Cloud does not hold yet, for every set of    *)
(* orders and payments and every bound.  IInv of SyncQueue_proofs says     *)
(* what the rows and the ids are; the invariants here say how far each row *)
(* has come and what the engine has in hand: the row it works on is live   *)
(* and out of the batch, a row that left it live, synced or dead-lettered  *)
(* has left a Cloud id, a place on the recovery page or a successor.       *)
(*                                                                         *)
(* What cannot be promised is in the hypotheses: BurnSurvives (a crash     *)
(* between the two statements that burn an attempt and dead-letter the     *)
(* row), RecoverCompletes (a recover call dies, or its Enqueue fails, once *)
(* it has resolved the old row), and for a re-homed kiosk payment          *)
(* NothingCloses (another channel settles the order, and the 409 is read   *)
(* as done).  What a synced payment row means needs no hypothesis: the     *)
(* invariants carry the 409 along as TurnedAway.                           *)
(***************************************************************************)
EXTENDS SyncQueue_proofs, FiniteSetTheorems

BurnSurvives == Crashes => "400" \notin Faults
RecoverCompletes == "recover" \in Operator => ~Crashes /\ "enqueue" \notin Faults
NothingCloses == "settle" \notin CloudEvents

(* Another channel closed an order of the payment's own: what a 409 says. *)
TurnedAway(p) == "settle" \in CloudEvents /\ (OrderIs("closed", p) \/ OrderIs("gone", p))

Draining == {"drain", "flight", "rehomedRow", "stamp", "exhaust", "stuck"}

Live(i) == ~queue[i].synced /\ queue[i].dead = "no"
Pending(i) == ~queue[i].synced /\ queue[i].resolution # "recovered"

(* Only what surfaced is resolved, only an order's row by its recovery,    *)
(* and nothing that was synced surfaces.                                   *)
LifeInv ==
  /\ \A i \in Rows : /\ queue[i].synced => queue[i].dead = "no"
                     /\ queue[i].dead = "no" => queue[i].resolution = "no"
                     /\ queue[i].resolution = "recovered" => queue[i].op = "order.create"
                     /\ "recover" \notin Operator => queue[i].resolution # "recovered"
  /\ "recover" \notin Operator => \A o \in Orders : recovering[o] = "no"

(* The row at work is live and nobody else's. *)
DrainInv ==
  /\ pc \notin Draining => batch = {}
  /\ flight.row \notin batch
  /\ \A i \in batch : Live(i)
  /\ pc \in Busy => Live(flight.row)
  /\ pc \in {"rehomedOrphan", "rehomedRow"} => queue[flight.row].op = "payment.create"

(* What an answer says of Cloud. *)
RefusalInv == pc \in Busy /\ flight.answer = "409" =>
  /\ queue[flight.row].op = "payment.create"
  /\ TurnedAway(queue[flight.row].ent)

AnswerInv ==
  /\ flight.answer = "400" => "400" \in Faults
  /\ pc = "exhaust" => flight.answer = "400"
  /\ pc = "stamp" => flight.answer \in {"ok", "409"}
  /\ RefusalInv
  /\ pc \in Busy /\ flight.answer = "ok" /\ queue[flight.row].op = "order.create" => flight.id # 0
  /\ NothingCloses => \A c \in CloudIds : cloud[c].state # "closed"

ExhaustInv == BurnSurvives => ExhaustedIsSurfaced

(* What is about to be stamped has its Cloud id, a successor or a 409. *)
Answers(p) == payCloud[p] # 0 \/ TurnedAway(p)

StampedPayment == pc = "stamp" /\ queue[flight.row].op = "payment.create" =>
  Answers(queue[flight.row].ent)

Succeeded(o) == \E j \in Rows : j # flight.row /\ IsRow(j, "order.create", o) /\ Pending(j)

StampedOrder == pc = "stamp" /\ queue[flight.row].op = "order.create" /\ RecoverCompletes =>
  LET o == queue[flight.row].ent
  IN  orderCloud[o] # 0 \/ recovering[o] # "no" \/ Succeeded(o)

SyncedInv ==
  \A i \in Rows : queue[i].op = "payment.create" /\ queue[i].synced => Answers(queue[i].ent)

RehomedInv ==
  \A p \in rehomed : Answers(p) \/ Unsynced("payment.create", p)

PlacedInv == RecoverCompletes =>
  \A o \in Orders : orderCloud[o] = 0 /\ recovering[o] = "no" /\ Unsynced("order.create", o) =>
    \E i \in Rows : IsRow(i, "order.create", o) /\ Pending(i)

(* A kiosk payment has a row of its handler and one of the reconciler:     *)
(* those that are there and those that may still come are two.             *)
RowsOf(p) == {i \in Rows : IsRow(i, "payment.create", p)}

Handled(p)  == p \in recorded /\ Task("payment.create", p) \notin todo
Rehoming(p) == pc = "rehomedOrphan" /\ queue[flight.row].ent = p

CountInv ==
  /\ \A p \in Payments : Task("payment.create", p) \in todo => p \in recorded
  /\ pc \in {"backfillPayments", "rehomedOrphan"} => pend \cap rehomed = {}
  /\ pc = "rehomedOrphan" => queue[flight.row].ent \notin pend
  /\ ~Crashes => \A p \in Kiosk :
       /\ IsFiniteSet(RowsOf(p))
       /\ Cardinality(RowsOf(p)) + (IF Handled(p) THEN 0 ELSE 1)
                                 + (IF p \in rehomed \/ Rehoming(p) THEN 0 ELSE 1) <= 2

OwnerInv ==
  /\ IInv /\ LifeInv /\ DrainInv /\ AnswerInv /\ ExhaustInv
  /\ StampedPayment /\ StampedOrder /\ SyncedInv /\ RehomedInv /\ PlacedInv /\ CountInv

-----------------------------------------------------------------------------
(* What a step does to a row: where it stands on its way to Cloud. *)

SameButAttempts(i)   == /\ queue'[i].synced = queue[i].synced /\ queue'[i].dead = queue[i].dead
                        /\ queue'[i].resolution = queue[i].resolution
IsKept(i)      == SameButAttempts(i) /\ queue'[i].attempts = queue[i].attempts
IsReset(i)     == SameButAttempts(i) /\ queue'[i].attempts = 0
IsBurned(i)    == /\ SameButAttempts(i) /\ i = flight.row /\ flight' = flight
                  /\ pc = "flight" /\ pc' = "exhaust" /\ flight.answer = "400"
IsStamped(i)   == /\ i = flight.row /\ pc = "stamp" /\ pc' = "drain"
                  /\ queue'[i].synced = TRUE
                  /\ queue'[i].dead = queue[i].dead
                  /\ queue'[i].resolution = queue[i].resolution
                  /\ queue'[i].attempts = queue[i].attempts
IsDeadLettered(i) ==
  /\ \/ pc = "cascade" /\ queue[i].op # "order.create" /\ Live(i)
     \/ i = flight.row /\ pc \in {"flight", "exhaust", "stuck"} /\ pc' = "drain"
  /\ queue'[i].dead # "no" /\ queue'[i].synced = queue[i].synced
  /\ queue'[i].resolution = queue[i].resolution /\ queue'[i].attempts = queue[i].attempts
IsDiscarded(i) == /\ Surfaced(i) /\ queue'[i].resolution = "discarded"
                  /\ queue'[i].synced = queue[i].synced /\ queue'[i].dead = queue[i].dead
                  /\ queue'[i].attempts = queue[i].attempts
IsRevived(i)   == /\ Surfaced(i) /\ queue'[i].dead = "no" /\ queue'[i].resolution = "no"
                  /\ queue'[i].synced = queue[i].synced /\ queue'[i].attempts = 0
IsRecovered(i) == /\ Surfaced(i) /\ queue'[i].resolution = "recovered"
                  /\ queue[i].op = "order.create" /\ recovering[queue[i].ent] = "resolve"
                  /\ recovering'[queue[i].ent] = "revive"
                  /\ queue'[i].synced = queue[i].synced /\ queue'[i].dead = queue[i].dead
                  /\ queue'[i].attempts = queue[i].attempts

Moves(i) == \/ IsKept(i) \/ IsReset(i) \/ IsBurned(i) \/ IsStamped(i) \/ IsDeadLettered(i)
            \/ IsDiscarded(i) \/ IsRevived(i) \/ IsRecovered(i)

Appends(t) ==
  /\ Len(queue') = Len(queue) + 1 /\ \A i \in Rows : queue'[i] = queue[i]
  /\ LET r == queue'[Len(queue) + 1]
     IN  /\ r.op = t.op /\ r.ent = t.ent /\ ~r.synced /\ r.dead = "no" /\ r.resolution = "no"
         /\ r.attempts = 0

(* Who appends. *)
Producer(t) ==
  \/ HandlerEnqueue(t)
  \/ t.op = "order.create" /\ BackfillOrder(t.ent)
  \/ t.op = "payment.create" /\ t.ent \in Payments /\ BackfillPayment(t.ent)
  \/ t.op = "order.create" /\ t.ent \in Orders /\ RecoverEnqueue(t.ent)

QueueLife ==
  \/ Len(queue') = Len(queue) /\ \A i \in Rows : Moves(i)
  \/ \E t \in Tasks : TaskOK(t) /\ Appends(t) /\ Producer(t)

LEMMA RowTyped ==
  ASSUME TypeOK
  PROVE  /\ queue \in [Rows -> Row] /\ Len(queue) \in Nat
         /\ \A i \in Rows : /\ queue[i] \in Row /\ queue[i].synced \in BOOLEAN
                            /\ queue[i].attempts \in Nat
                            /\ queue[i].dead \in Reasons \cup {"no"}
                            /\ queue[i].resolution \in {"no", "discarded", "recovered"}
  <1>1. queue \in [Rows -> Row] /\ Len(queue) \in Nat /\ \A i \in Rows : queue[i] \in Row
    BY LenProperties, ElementOfSeq DEF TypeOK, Rows
  <1> QED BY <1>1 DEF Row

LEMMA EnqueueAppends ==
  ASSUME TypeOK, NEW t \in Tasks, Enqueue(t)
  PROVE  Appends(t)
  <1> DEFINE r == NewRow(t, Len(queue) + 1)
  <1>1. Len(queue) \in Nat /\ MaxQueue \in Nat /\ Len(queue) + 1 \in 1..MaxQueue
    BY SyncQueueAssumption, LenProperties DEF TypeOK, Enqueue
  <1>2. r \in Row
    BY <1>1, SyncQueueAssumption DEF NewRow, KeyFor, Row, Tasks, Reasons, Entities
  <1>3. /\ Len(queue') = Len(queue) + 1 /\ \A i \in Rows : queue'[i] = queue[i]
        /\ queue'[Len(queue) + 1] = r
    BY <1>2, AppendProperties DEF TypeOK, Enqueue, Rows
  <1> QED BY <1>3 DEF Appends, NewRow

(* One row rewritten. *)
LEMMA RowMoves ==
  ASSUME TypeOK, NEW i \in Rows, NEW r, queue' = [queue EXCEPT ![i] = r]
  PROVE  /\ Len(queue') = Len(queue) /\ queue'[i] = r
         /\ \A j \in Rows : j # i => IsKept(j)
  <1>1. queue \in [Rows -> Row] /\ Len(queue) \in Nat
    BY RowTyped
  <1>2. queue' \in [Rows -> Row \cup {r}]
    BY <1>1
  <1>3. Len(queue') = Len(queue)
    BY <1>1, <1>2, FunctionIsSeq DEF Rows
  <1> QED BY <1>1, <1>3 DEF IsKept, SameButAttempts

(* Many rows rewritten. *)
LEMMA RowsMove ==
  ASSUME TypeOK, NEW S, queue' \in [Rows -> S], \A i \in Rows : Moves(i)
  PROVE  QueueLife
  <1>1. Len(queue) \in Nat
    BY RowTyped
  <1>2. Len(queue') = Len(queue)
    BY <1>1, FunctionIsSeq DEF Rows
  <1> QED BY <1>2 DEF QueueLife

LEMMA Untouched ==
  ASSUME TypeOK, queue' = queue
  PROVE  QueueLife
  BY DEF QueueLife, Moves, IsKept, SameButAttempts

(* One row rewritten, in one of the ways there are. *)
LEMMA OneMoves ==
  ASSUME TypeOK, NEW i \in Rows, NEW r, queue' = [queue EXCEPT ![i] = r], Moves(i)
  PROVE  QueueLife
  BY RowMoves DEF QueueLife, Moves

(* The engine's statements on the row it works on. *)
LEMMA EngineMoves ==
  ASSUME TypeOK, \/ StampSynced \/ AuthRejected \/ DataConflict \/ BurnAttempt
                 \/ DeadLetterIfExhausted \/ Transient \/ StuckOrStop
  PROVE  QueueLife
  <1>0. /\ flight.row \in Rows /\ pc \in {"stamp", "flight", "exhaust", "stuck"}
        /\ queue[flight.row] \in Row /\ queue \in [Rows -> Row]
    BY FlightRow, RowTyped
      DEF StampSynced, AuthRejected, DataConflict, BurnAttempt, DeadLetterIfExhausted, Transient,
          StuckOrStop, Answered, Busy
  <1>1. PICK i : i = flight.row
    OBVIOUS
  <1>2. CASE StampSynced
    <2>1. PICK r : r = [queue[i] EXCEPT !.synced = TRUE, !.transient = 0]
      OBVIOUS
    <2>2. queue' = [queue EXCEPT ![i] = r] /\ pc = "stamp" /\ pc' = "drain"
      BY <1>0, <1>1, <1>2, <2>1 DEF StampSynced, Row, NextRow
    <2>3. /\ r.synced = TRUE /\ r.dead = queue[i].dead /\ r.resolution = queue[i].resolution
          /\ r.attempts = queue[i].attempts
      BY <1>0, <1>1, <2>1 DEF Row
    <2>4. queue'[i] = r
      BY <1>0, <1>1, <2>2, RowMoves
    <2>5. IsStamped(i)
      BY <1>1, <2>2, <2>3, <2>4 DEF IsStamped
    <2> QED BY <1>0, <1>1, <2>2, <2>5, OneMoves DEF Moves
  <1>3. CASE AuthRejected
    BY <1>3, Untouched DEF AuthRejected
  <1>4. CASE DataConflict
    <2>1. PICK r : r = [queue[i] EXCEPT !.dead = ConflictReason]
      OBVIOUS
    <2>2. queue' = [queue EXCEPT ![i] = r] /\ pc = "flight" /\ pc' = "drain"
      BY <1>0, <1>1, <1>4, <2>1 DEF DataConflict, Row, Answered, NextRow
    <2>3. /\ r.synced = queue[i].synced /\ r.dead # "no"
          /\ r.resolution = queue[i].resolution /\ r.attempts = queue[i].attempts
      BY <1>0, <1>1, <2>1 DEF Row, ConflictReason
    <2>4. queue'[i] = r
      BY <1>0, <1>1, <2>2, RowMoves
    <2>5. IsDeadLettered(i)
      BY <1>1, <2>2, <2>3, <2>4 DEF IsDeadLettered
    <2> QED BY <1>0, <1>1, <2>2, <2>5, OneMoves DEF Moves
  <1>5. CASE BurnAttempt
    <2>1. PICK r : r = [queue[i] EXCEPT !.attempts = @ + 1]
      OBVIOUS
    <2>2. /\ queue' = [queue EXCEPT ![i] = r] /\ pc = "flight" /\ pc' = "exhaust"
          /\ flight.answer = "400" /\ flight' = flight
      BY <1>0, <1>1, <1>5, <2>1 DEF BurnAttempt, Row, Answered
    <2>3. r.synced = queue[i].synced /\ r.dead = queue[i].dead /\ r.resolution = queue[i].resolution
      BY <1>0, <1>1, <2>1 DEF Row
    <2>4. queue'[i] = r
      BY <1>0, <1>1, <2>2, RowMoves
    <2>5. IsBurned(i)
      BY <1>1, <2>2, <2>3, <2>4 DEF IsBurned, SameButAttempts
    <2> QED BY <1>0, <1>1, <2>2, <2>5, OneMoves DEF Moves
  <1>6. CASE DeadLetterIfExhausted
    <2>1. PICK r : r = [queue[i] EXCEPT !.dead = "max_attempts_exhausted"]
      OBVIOUS
    <2>2. /\ queue' = [queue EXCEPT ![i] = r] \/ queue' = queue
          /\ pc = "exhaust" /\ pc' = "drain"
      BY <1>0, <1>1, <1>6, <2>1 DEF DeadLetterIfExhausted, Row, NextRow
    <2>3. /\ r.synced = queue[i].synced /\ r.dead # "no"
          /\ r.resolution = queue[i].resolution /\ r.attempts = queue[i].attempts
      BY <1>0, <1>1, <2>1 DEF Row
    <2>4. queue' = queue \/ IsDeadLettered(i)
      BY <1>0, <1>1, <2>2, <2>3, RowMoves DEF IsDeadLettered
    <2> QED BY <1>0, <1>1, <2>2, <2>4, OneMoves, Untouched DEF Moves
  <1>7. CASE Transient
    <2>1. PICK r : r = [queue[i] EXCEPT !.transient = IF @ < StuckThreshold THEN @ + 1 ELSE @]
      OBVIOUS
    <2>2. queue' = [queue EXCEPT ![i] = r]
      BY <1>0, <1>1, <1>7, <2>1 DEF Transient, Row
    <2>3. /\ r.synced = queue[i].synced /\ r.dead = queue[i].dead
          /\ r.resolution = queue[i].resolution /\ r.attempts = queue[i].attempts
      BY <1>0, <1>1, <2>1 DEF Row
    <2>4. IsKept(i)
      BY <1>0, <1>1, <2>2, <2>3, RowMoves DEF IsKept, SameButAttempts
    <2> QED BY <1>0, <1>1, <2>2, <2>4, OneMoves DEF Moves
  <1>8. CASE StuckOrStop
    <2>1. PICK r : r = [queue[i] EXCEPT !.dead = "stuck_transient"]
      OBVIOUS
    <2>2. \/ queue' = [queue EXCEPT ![i] = r] /\ pc = "stuck" /\ pc' = "drain"
          \/ queue' = queue
      BY <1>0, <1>1, <1>8, <2>1 DEF StuckOrStop, Row, NextRow
    <2>3. /\ r.synced = queue[i].synced /\ r.dead # "no"
          /\ r.resolution = queue[i].resolution /\ r.attempts = queue[i].attempts
      BY <1>0, <1>1, <2>1 DEF Row
    <2>4. queue' = queue \/ IsDeadLettered(i)
      BY <1>0, <1>1, <2>2, <2>3, RowMoves DEF IsDeadLettered
    <2> QED BY <1>0, <1>1, <2>2, <2>4, OneMoves, Untouched DEF Moves
  <1> QED BY <1>2, <1>3, <1>4, <1>5, <1>6, <1>7, <1>8

(* The statements that take many rows, or one the operator picks. *)
LEMMA CascadeMoves ==
  ASSUME TypeOK, NEW o, Cascade(o)
  PROVE  QueueLife
  <1>1. queue \in [Rows -> Row] /\ \A i \in Rows : queue[i] \in Row
    BY RowTyped
  <1>2. PICK f : f = [i \in Rows |-> [queue[i] EXCEPT !.dead = "parent_order_dead"]]
    OBVIOUS
  <1>3. \A i \in Rows : /\ f[i].synced = queue[i].synced /\ f[i].dead = "parent_order_dead"
                        /\ f[i].resolution = queue[i].resolution
                        /\ f[i].attempts = queue[i].attempts
    BY <1>1, <1>2 DEF Row
  <1>4. /\ pc = "cascade" /\ queue' \in [Rows -> {queue'[i] : i \in Rows}]
        /\ \A i \in Rows : \/ queue'[i] = queue[i]
                           \/ queue'[i] = f[i] /\ queue[i].op # "order.create" /\ Live(i)
    BY <1>2 DEF Cascade, Live
  <1>5. \A i \in Rows : Moves(i)
    BY <1>3, <1>4 DEF Moves, IsKept, SameButAttempts, IsDeadLettered
  <1> QED BY <1>4, <1>5, RowsMove

LEMMA OperatorMoves ==
  ASSUME TypeOK, RetryFailed \/ (\E i \in Rows : Discard(i) \/ ReResolve(i))
  PROVE  QueueLife
  <1>1. queue \in [Rows -> Row] /\ \A i \in Rows : queue[i] \in Row
    BY RowTyped
  <1>2. CASE RetryFailed
    <2>1. PICK f : f = [i \in Rows |-> [queue[i] EXCEPT !.attempts = 0]]
      OBVIOUS
    <2>2. \A i \in Rows : /\ f[i].synced = queue[i].synced /\ f[i].dead = queue[i].dead
                          /\ f[i].resolution = queue[i].resolution /\ f[i].attempts = 0
      BY <1>1, <2>1 DEF Row
    <2>3. /\ queue' \in [Rows -> {queue'[i] : i \in Rows}]
          /\ \A i \in Rows : queue'[i] = queue[i] \/ queue'[i] = f[i]
      BY <1>2, <2>1 DEF RetryFailed
    <2>4. \A i \in Rows : Moves(i)
      BY <2>2, <2>3 DEF Moves, IsKept, IsReset, SameButAttempts
    <2> QED BY <2>3, <2>4, RowsMove
  <1>3. ASSUME NEW i \in Rows, Discard(i) PROVE QueueLife
    <2>1. PICK r : r = [queue[i] EXCEPT !.resolution = "discarded"]
      OBVIOUS
    <2>2. queue' = [queue EXCEPT ![i] = r] /\ Surfaced(i)
      BY <1>1, <1>3, <2>1 DEF Discard, Row
    <2>3. /\ r.synced = queue[i].synced /\ r.dead = queue[i].dead /\ r.resolution = "discarded"
          /\ r.attempts = queue[i].attempts
      BY <1>1, <2>1 DEF Row
    <2>4. IsDiscarded(i)
      BY <2>2, <2>3, RowMoves DEF IsDiscarded
    <2> QED BY <2>2, <2>4, OneMoves DEF Moves
  <1>4. ASSUME NEW i \in Rows, ReResolve(i) PROVE QueueLife
    <2>1. PICK r : r = Revived(queue[i])
      OBVIOUS
    <2>2. queue' = [queue EXCEPT ![i] = r] /\ Surfaced(i)
      BY <1>4, <2>1 DEF ReResolve
    <2>3. /\ r.synced = queue[i].synced /\ r.dead = "no" /\ r.resolution = "no" /\ r.attempts = 0
      BY <1>1, <2>1 DEF Row, Revived
    <2>4. IsRevived(i)
      BY <2>2, <2>3, RowMoves DEF IsRevived
    <2> QED BY <2>2, <2>4, OneMoves DEF Moves
  <1> QED BY <1>2, <1>3, <1>4

LEMMA RecoverMoves ==
  ASSUME TypeOK, WellFormed, NEW o \in Orders, RecoverResolve(o) \/ RecoverRevive(o)
  PROVE  QueueLife
  <1>1. queue \in [Rows -> Row] /\ \A i \in Rows : queue[i] \in Row
    BY RowTyped
  <1>2. CASE RecoverResolve(o)
    <2>1. PICK f : f = [i \in Rows |-> [queue[i] EXCEPT !.resolution = "recovered"]]
      OBVIOUS
    <2>2. \A i \in Rows : /\ f[i].synced = queue[i].synced /\ f[i].dead = queue[i].dead
                          /\ f[i].resolution = "recovered" /\ f[i].attempts = queue[i].attempts
      BY <1>1, <2>1 DEF Row
    <2>3. /\ queue' \in [Rows -> {queue'[i] : i \in Rows}]
          /\ \A i \in Rows : \/ queue'[i] = queue[i]
                             \/ /\ queue'[i] = f[i] /\ Surfaced(i)
                                /\ queue[i].op = "order.create" /\ queue[i].ent = o
      BY <1>2, <2>1 DEF RecoverResolve, IsRow
    <2>4. recovering[o] = "resolve" /\ recovering'[o] = "revive"
      BY <1>2 DEF RecoverResolve, Recovery, TypeOK
    <2>5. \A i \in Rows : Moves(i)
      BY <2>2, <2>3, <2>4 DEF Moves, IsKept, IsRecovered, SameButAttempts
    <2> QED BY <2>3, <2>5, RowsMove
  <1>3. CASE RecoverRevive(o)
    <2>1. PICK f : f = [i \in Rows |-> Revived(queue[i])]
      OBVIOUS
    <2>2. \A i \in Rows : /\ f[i].synced = queue[i].synced /\ f[i].dead = "no"
                          /\ f[i].resolution = "no" /\ f[i].attempts = 0
      BY <1>1, <2>1 DEF Row, Revived
    <2>3. /\ queue' \in [Rows -> {queue'[i] : i \in Rows}]
          /\ \A i \in Rows : \/ queue'[i] = queue[i]
                             \/ queue'[i] = f[i] /\ Surfaced(i)
      BY <1>3, <2>1 DEF RecoverRevive
    <2>4. \A i \in Rows : Moves(i)
      BY <2>2, <2>3 DEF Moves, IsKept, IsRevived, SameButAttempts
    <2> QED BY <2>3, <2>4, RowsMove
  <1> QED BY <1>2, <1>3

LEMMA QueueLives ==
  ASSUME IInv, [Next]_vars
  PROVE  QueueLife
  <1>0. TypeOK /\ WellFormed
    BY DEF IInv
  <1>1. ASSUME NEW t \in Tasks, HandlerEnqueue(t) PROVE QueueLife
    <2>1. TaskOK(t)
      BY <1>0, <1>1 DEF HandlerEnqueue, WellFormed
    <2> QED BY <1>0, <1>1, <2>1, EnqueueAppends DEF HandlerEnqueue, QueueLife, Producer
  <1>2. ASSUME NEW o \in Orders, BackfillOrder(o) \/ RecoverEnqueue(o) PROVE QueueLife
    <2>1. PICK t \in Tasks : t = Task("order.create", o)
      BY DEF Task, Tasks, Ops, Entities
    <2>2. t.op = "order.create" /\ t.ent = o /\ TaskOK(t)
      BY <2>1 DEF Task, TaskOK
    <2>3. Enqueue(t) \/ queue' = queue
      BY <1>2, <2>1 DEF BackfillOrder, RecoverEnqueue
    <2> QED BY <1>0, <1>2, <2>2, <2>3, EnqueueAppends, Untouched DEF QueueLife, Producer
  <1>3. ASSUME NEW p \in Payments, BackfillPayment(p) PROVE QueueLife
    <2>1. PICK t \in Tasks : t = Task("payment.create", p)
      BY DEF Task, Tasks, Ops, Entities
    <2>2. t.op = "payment.create" /\ t.ent = p /\ TaskOK(t)
      BY <2>1 DEF Task, TaskOK
    <2>3. Enqueue(t)
      BY <1>3, <2>1 DEF BackfillPayment
    <2> QED BY <1>0, <1>3, <2>2, <2>3, EnqueueAppends DEF QueueLife, Producer
  <1>4. ASSUME NEW o \in Orders, RecoverResolve(o) \/ RecoverRevive(o) PROVE QueueLife
    BY <1>0, <1>4, RecoverMoves
  <1>5. CASE UNCHANGED queue
    BY <1>0, <1>5, Untouched
  <1> QED
    BY <1>0, <1>1, <1>2, <1>3, <1>4, <1>5, EngineMoves, CascadeMoves, OperatorMoves
    DEF Next, Producers, EngineStep, OperatorStep, RecoverStep, Environment,
        CreateOrder, RecordPayment, HandlerEnqueueFails, Woken, Tick, BackfillFails,
        ReconcileUnsyncedOrders, ReconcileUnsyncedPayments, MarkRehomed, Select,
        DrainDone, DependencyNotReady, BudgetSkip, Push, CloudAnswers, CloudRefuses,
        Timeout, LateRequest, WriteBack, RecoverCheck, RecoverUnlink,
        CooldownElapses, Probe, Outage, CloudMoves, Crash, EngineRest, EnvRest, vars

-----------------------------------------------------------------------------
(* What the engine has in hand. *)

(* The handlers, the operator and the rest of the world.                   *)
Aside == UNCHANGED <<pc, pend, batch, flight>>

(* The request under way ends.                                             *)
Ends ==
  /\ InFlight /\ UNCHANGED <<queue, local, http, pc, pend, batch>>
  /\ flight'.row = flight.row
  /\ \/ flight'.answer \in {"ok", "404", "409"} /\ CloudAnswers
     \/ flight'.answer = "400" /\ "400" \in Faults
     \/ flight'.answer \in {"401", "422", "5xx", "lost"}

(* The sweeps, the loop and what follows an answer.                        *)
Sweeps ==
  \/ Woken \/ Tick \/ ReconcileUnsyncedOrders \/ ReconcileUnsyncedPayments
  \/ \E o \in pend \cap Orders : Cascade(o) \/ BackfillOrder(o)
  \/ \E p \in pend \cap Payments : BackfillPayment(p)
  \/ \E e \in pend : BackfillFails(e)
  \/ MarkRehomed \/ Select \/ DrainDone
Handles ==
  \/ \E i \in batch : DependencyNotReady(i) \/ BudgetSkip(i)
  \/ \E i \in batch : Push(i)
  \/ WriteBack \/ StampSynced \/ AuthRejected \/ DataConflict
  \/ BurnAttempt \/ DeadLetterIfExhausted \/ Transient \/ StuckOrStop

LEMMA StepKinds ==
  ASSUME TypeOK, [Next]_vars
  PROVE  Aside \/ Ends \/ Crash \/ Sweeps \/ Handles
  <1>1. CASE CloudAnswers
    <2>1. PICK answer \in {"ok", "404", "409"}, id \in 0..MaxCloudOrders :
            flight' = [flight EXCEPT !.answer = answer, !.id = id]
      BY <1>1 DEF CloudAnswers
    <2>2. flight'.row = flight.row /\ flight'.answer \in {"ok", "404", "409"}
      BY <2>1 DEF TypeOK
    <2> QED BY <1>1, <2>2 DEF CloudAnswers, Ends
  <1>2. ASSUME NEW f \in {"400", "401", "422", "5xx"}, CloudRefuses(f)
        PROVE  Ends
    <2>1. flight'.row = flight.row /\ flight'.answer = f
      BY <1>2 DEF CloudRefuses, TypeOK
    <2>2. f = "400" => "400" \in Faults
      BY <1>2 DEF CloudRefuses, Doomed
    <2> QED BY <1>2, <2>1, <2>2 DEF CloudRefuses, Ends
  <1>3. CASE Timeout
    <2>1. flight'.row = flight.row /\ flight'.answer = "lost"
      BY <1>3 DEF Timeout, TypeOK
    <2> QED BY <1>3, <2>1 DEF Timeout, Ends
  <1>4. CASE Producers \/ OperatorStep \/ RecoverStep
    BY <1>4 DEF Producers, OperatorStep, RecoverStep, CreateOrder, RecordPayment, HandlerEnqueue,
      RetryFailed, Discard, ReResolve, RecoverCheck, RecoverUnlink, RecoverResolve, RecoverRevive,
      RecoverEnqueue, Recovery, engine, OperatorRest, Aside
  <1>5. CASE UNCHANGED engine
    BY <1>5 DEF engine, Aside
  <1>6. CASE CooldownElapses \/ Probe \/ Outage \/ CloudMoves
    BY <1>6 DEF CooldownElapses, Probe, Outage, CloudMoves, EnvRest, Aside
  <1> QED
    BY <1>1, <1>2, <1>3, <1>4, <1>5, <1>6
    DEF Next, EngineStep, Environment, HandlerEnqueueFails, LateRequest, Sweeps, Handles, vars, engine

LEMMA LiveStays ==
  ASSUME NEW i \in Rows, Moves(i), Live(i), pc # "cascade", i # flight.row \/ pc' # "drain"
  PROVE  Live(i)'
  BY DEF Moves, IsKept, IsReset, IsBurned, IsStamped, IsDeadLettered, IsDiscarded, IsRevived,
         IsRecovered, SameButAttempts, Live, Surfaced

LEMMA RowsLive ==
  ASSUME IInv, [Next]_vars, pc # "cascade"
  PROVE  \A i \in Rows : Live(i) /\ (i # flight.row \/ pc' # "drain") => Live(i)'
  <1>1. CASE Len(queue') = Len(queue) /\ \A i \in Rows : Moves(i)
    BY <1>1, LiveStays
  <1>2. CASE \A i \in Rows : queue'[i] = queue[i]
    BY <1>2 DEF Live
  <1> QED BY <1>1, <1>2, QueueLives DEF QueueLife, Appends

LEMMA DrainKept ==
  ASSUME IInv, DrainInv, [Next]_vars
  PROVE  DrainInv'
  <1>0. /\ TypeOK /\ batch \subseteq Rows /\ (flight.row = 0 <=> pc \notin Busy) /\ 0 \notin Rows
        /\ (pc \in Busy => flight.row \in Rows) /\ NoFlight.row = 0 /\ Len(queue) \in Nat
    BY FlightRow, RowTyped DEF IInv, TypeOK, NoFlight, Rows
  <1>1. \A i \in Rows : queue'[i].op = queue[i].op
    BY SharedMove DEF QueueStep
  <1>2. pc # "cascade" => \A i \in Rows : Live(i) /\ (i # flight.row \/ pc' # "drain") => Live(i)'
    BY RowsLive
  <1>3. CASE Aside
    <2>1. pc' = pc /\ batch' = batch /\ flight' = flight
      BY <1>3 DEF Aside
    <2>2. \A i \in batch : Live(i)'
      BY <1>0, <1>2, <2>1 DEF DrainInv, Draining
    <2>3. pc \in Busy => Live(flight.row)'
      <3>1. PICK r : r = flight.row
        OBVIOUS
      <3>2. pc \in Busy => Live(r)'
        BY <1>0, <1>2, <2>1, <3>1 DEF DrainInv, Busy
      <3>3. flight'.row = r
        BY <2>1, <3>1
      <3> QED BY <3>1, <3>2, <3>3, <2>1 DEF Live
    <2> QED BY <1>0, <1>1, <2>1, <2>2, <2>3 DEF DrainInv, Busy
  <1>4. CASE Ends
    <2>1. pc' = pc /\ batch' = batch /\ flight'.row = flight.row /\ queue' = queue
      BY <1>4 DEF Ends
    <2> QED BY <2>1 DEF DrainInv, Live
  <1>5. CASE Crash
    BY <1>0, <1>5 DEF Crash, DrainInv, Draining, Busy
  <1>6. CASE Woken \/ Tick \/ ReconcileUnsyncedOrders \/ ReconcileUnsyncedPayments
             \/ (\E e \in pend : BackfillFails(e)) \/ DrainDone
    BY <1>0, <1>6 DEF Woken, Tick, ReconcileUnsyncedOrders, ReconcileUnsyncedPayments,
      BackfillFails, DrainDone, DrainInv, Draining, Busy, Live
  <1>7. ASSUME NEW o, Cascade(o) \/ BackfillOrder(o) PROVE DrainInv'
    BY <1>0, <1>7 DEF Cascade, BackfillOrder, DrainInv, Draining, Busy
  <1>8. ASSUME NEW p \in Payments, BackfillPayment(p) PROVE DrainInv'
    <2>1. PICK t \in Tasks : t = Task("payment.create", p)
      BY DEF Task, Tasks, Ops, Entities
    <2>2. Appends(t) /\ t.op = "payment.create"
      BY <1>0, <1>8, <2>1, EnqueueAppends DEF BackfillPayment, Task
    <2>3. pc = "backfillPayments" /\ batch' = batch /\ batch = {}
      BY <1>8 DEF BackfillPayment, DrainInv, Draining
    <2>4. \/ pc' = "rehomedOrphan" /\ flight'.row = Len(queue) + 1
          \/ pc' = pc /\ flight' = flight
      BY <1>8 DEF BackfillPayment, NoFlight
    <2>5. CASE pc' = "rehomedOrphan" /\ flight'.row = Len(queue) + 1
      <3>1. LET r == queue'[flight'.row] IN r.op = "payment.create" /\ ~r.synced /\ r.dead = "no"
        BY <2>2, <2>5 DEF Appends
      <3> QED BY <2>3, <2>5, <3>1 DEF DrainInv, Draining, Live
    <2>6. CASE pc' = pc /\ flight' = flight
      BY <1>0, <2>3, <2>6 DEF DrainInv, Busy, Draining
    <2> QED BY <2>4, <2>5, <2>6
  <1>9. CASE MarkRehomed
    BY <1>0, <1>9 DEF MarkRehomed, DrainInv, Draining, Busy, Live
  <1>10. CASE Select
    <2>1. flight' = flight /\ queue' = queue /\ flight.row = 0
      BY <1>0, <1>10 DEF Select, Busy
    <2>2. \/ pc' = "idle" /\ batch' = {}
          \/ pc' = "drain" /\ \A i \in batch' : i \in Rows /\ Active(i)
      BY <1>10 DEF Select, DrainInv, Draining
    <2> QED BY <1>0, <2>1, <2>2 DEF DrainInv, Draining, Busy, Active, Live
  <1>11. ASSUME NEW i \in batch, DependencyNotReady(i) \/ BudgetSkip(i) PROVE DrainInv'
    BY <1>0, <1>11 DEF DependencyNotReady, BudgetSkip, DrainInv, Draining, Busy, Live
  <1>12. ASSUME NEW i \in batch, Push(i) PROVE DrainInv'
    <2>1. /\ pc = "drain" /\ pc' = "flight" /\ batch' = batch \ {i} /\ queue' = queue
          /\ flight'.row = i
      BY <1>12 DEF Push
    <2> QED BY <2>1 DEF DrainInv, Draining, Live
  <1>13. CASE WriteBack
    BY <1>0, <1>13 DEF WriteBack, Answered, DrainInv, Draining, Busy, Live
  <1>14. CASE StampSynced \/ DataConflict \/ DeadLetterIfExhausted
    <2>1. /\ pc \in Busy /\ pc # "cascade" /\ pc' = "drain" /\ flight' = NoFlight /\ batch' = batch
      BY <1>14 DEF StampSynced, DataConflict, DeadLetterIfExhausted, NextRow, Answered, Busy
    <2>2. \A i \in batch : Live(i)'
      BY <1>0, <1>2, <2>1 DEF DrainInv
    <2> QED BY <1>0, <2>1, <2>2 DEF DrainInv, Draining, Busy
  <1>15. CASE AuthRejected
    <2>1. /\ pc = "flight" /\ batch' = batch
          /\ \/ pc' = "rehomedRow" /\ flight' = flight /\ queue[flight.row].op = "payment.create"
             \/ pc' = "drain" /\ flight' = NoFlight
      BY <1>15 DEF AuthRejected, Answered, NextRow, TheRow
    <2>2. \A i \in batch : Live(i)'
      BY <1>0, <1>2, <2>1 DEF DrainInv
    <2>3. CASE pc' = "rehomedRow" /\ flight' = flight /\ queue[flight.row].op = "payment.create"
      <3>1. PICK r \in Rows : r = flight.row
        BY <1>0, <2>1 DEF Busy
      <3>2. Live(r)'
        BY <1>2, <2>1, <2>3, <3>1 DEF DrainInv, Busy
      <3>3. flight'.row = r /\ Live(flight.row)'
        BY <2>3, <3>1, <3>2 DEF Live
      <3> QED BY <1>1, <2>1, <2>2, <2>3, <3>1, <3>3 DEF DrainInv, Draining
    <2>4. CASE pc' = "drain" /\ flight' = NoFlight
      BY <1>0, <2>1, <2>2, <2>4 DEF DrainInv, Draining, Busy
    <2> QED BY <2>1, <2>3, <2>4
  <1>16. CASE BurnAttempt \/ Transient
    <2>1. pc = "flight" /\ pc' \in {"exhaust", "stuck"} /\ batch' = batch /\ flight' = flight
      BY <1>16 DEF BurnAttempt, Transient, Answered
    <2>2. \A i \in batch : Live(i)'
      BY <1>0, <1>2, <2>1 DEF DrainInv
    <2>3. PICK r \in Rows : r = flight.row
      BY <1>0, <2>1 DEF Busy
    <2>4. Live(r)'
      BY <1>2, <2>1, <2>3 DEF DrainInv, Busy
    <2>5. flight'.row = r /\ Live(flight.row)'
      BY <2>1, <2>3, <2>4 DEF Live
    <2> QED BY <2>1, <2>2, <2>3, <2>5 DEF DrainInv, Draining
  <1>17. CASE StuckOrStop
    <2>1. /\ pc = "stuck" /\ flight' = NoFlight
          /\ \/ pc' = "drain" /\ batch' = batch
             \/ pc' = "idle" /\ batch' = {}
      BY <1>17 DEF StuckOrStop, NextRow, StopCycle
    <2>2. \A i \in batch : Live(i)'
      BY <1>0, <1>2, <2>1 DEF DrainInv
    <2> QED BY <1>0, <2>1, <2>2 DEF DrainInv, Draining, Busy
  <1> QED BY <1>0, <1>3, <1>4, <1>5, <1>6, <1>7, <1>8, <1>9, <1>10, <1>11, <1>12, <1>13, <1>14,
             <1>15, <1>16, <1>17, StepKinds DEF Sweeps, Handles

-----------------------------------------------------------------------------
(* How far a recover call is. *)

LEMMA RecoveringStep ==
  ASSUME IInv, [Next]_vars, NEW o \in Orders
  PROVE  \/ recovering'[o] = recovering[o]
         \/ Crashes /\ Crash /\ recovering'[o] = "no"
         \/ recovering[o] = "no" /\ recovering'[o] = "unlink" /\ "recover" \in Operator
         \/ recovering[o] = "unlink" /\ recovering'[o] = "resolve" /\ RecoverUnlink(o)
         \/ recovering[o] \in {"resolve", "revive"} /\ recovering'[o] # "no"
         \/ recovering[o] = "enqueue" /\ recovering'[o] = "no" /\ RecoverEnqueue(o)
  <1>0. recovering \in [Orders -> RecoverStages]
    BY DEF IInv, TypeOK
  <1>1. ASSUME NEW u \in Orders, RecoverCheck(u)
        PROVE  \/ recovering'[o] = recovering[o]
               \/ recovering[o] = "no" /\ recovering'[o] = "unlink" /\ "recover" \in Operator
    BY <1>0, <1>1 DEF RecoverCheck, Recovery
  <1>2. ASSUME NEW u \in Orders, RecoverUnlink(u)
        PROVE  \/ recovering'[o] = recovering[o]
               \/ recovering[o] = "unlink" /\ recovering'[o] = "resolve" /\ RecoverUnlink(o)
    <2>1. CASE u = o
      BY <1>0, <1>2, <2>1 DEF RecoverUnlink, Recovery
    <2>2. CASE u # o
      BY <1>0, <1>2, <2>2 DEF RecoverUnlink, Recovery
    <2> QED BY <2>1, <2>2
  <1>3. ASSUME NEW u \in Orders, RecoverResolve(u) \/ RecoverRevive(u)
        PROVE  \/ recovering'[o] = recovering[o]
               \/ recovering[o] \in {"resolve", "revive"} /\ recovering'[o] # "no"
    BY <1>0, <1>3 DEF RecoverResolve, RecoverRevive, Recovery
  <1>4. ASSUME NEW u \in Orders, RecoverEnqueue(u)
        PROVE  \/ recovering'[o] = recovering[o]
               \/ recovering[o] = "enqueue" /\ recovering'[o] = "no" /\ RecoverEnqueue(o)
    <2>1. CASE u = o
      BY <1>0, <1>4, <2>1 DEF RecoverEnqueue, Recovery
    <2>2. CASE u # o
      <3>1. recovering' = [recovering EXCEPT ![u] = "no"]
        BY <1>4 DEF RecoverEnqueue, Recovery
      <3> QED BY <1>0, <2>2, <3>1
    <2> QED BY <2>1, <2>2
  <1>5. CASE Crash
    BY <1>5 DEF Crash
  <1>6. CASE UNCHANGED recovering
    BY <1>6
  <1> QED
    BY <1>1, <1>2, <1>3, <1>4, <1>5, <1>6
    DEF Next, Producers, EngineStep, OperatorStep, RecoverStep, Environment,
        CreateOrder, RecordPayment, HandlerEnqueue, HandlerEnqueueFails, Woken, Tick, Cascade,
        BackfillOrder, BackfillPayment, BackfillFails, ReconcileUnsyncedOrders,
        ReconcileUnsyncedPayments, MarkRehomed, Select, DrainDone, DependencyNotReady, BudgetSkip,
        Push, CloudAnswers, CloudRefuses, Timeout, LateRequest, WriteBack, StampSynced,
        AuthRejected, DataConflict, BurnAttempt, DeadLetterIfExhausted, Transient, StuckOrStop,
        RetryFailed, Discard, ReResolve, CooldownElapses, Probe, Outage, CloudMoves, EngineRest,
        EnvRest, OperatorRest, http, vars

LEMMA LifeKept ==
  ASSUME IInv, LifeInv, DrainInv, [Next]_vars
  PROVE  LifeInv'
  <1>1. ASSUME "recover" \notin Operator
        PROVE  \A o \in Orders : recovering'[o] = "no"
    BY <1>1, RecoveringStep DEF LifeInv
  <1>2. ASSUME NEW i \in Rows, Moves(i), queue'[i].op = queue[i].op
        PROVE  /\ queue'[i].synced => queue'[i].dead = "no"
               /\ queue'[i].dead = "no" => queue'[i].resolution = "no"
               /\ queue'[i].resolution = "recovered" => queue'[i].op = "order.create"
               /\ "recover" \notin Operator => queue'[i].resolution # "recovered"
    <2>1. IsRecovered(i) => "recover" \in Operator
      <3>1. TaskOK(queue[i])
        BY DEF IInv, WellFormed, RowOK
      <3> QED BY <3>1 DEF IsRecovered, LifeInv, TaskOK
    <2>2. IsStamped(i) \/ (IsDeadLettered(i) /\ pc # "cascade") => Live(i)
      BY DEF IsStamped, IsDeadLettered, DrainInv, Busy
    <2>3. queue'[i].synced => queue'[i].dead = "no"
      BY <1>2, <2>2 DEF Moves, IsKept, IsReset, IsBurned, IsStamped, IsDeadLettered, Live,
          IsDiscarded, IsRevived, IsRecovered, SameButAttempts, Surfaced, LifeInv
    <2> QED BY <1>2, <2>1, <2>3 DEF Moves, IsKept, IsReset, IsBurned, IsStamped, IsDeadLettered,
          IsDiscarded, IsRevived, IsRecovered, SameButAttempts, Surfaced, LifeInv
  <1>3. \A i \in Rows : queue'[i].op = queue[i].op
    BY SharedMove DEF QueueStep
  <1>4. CASE Len(queue') = Len(queue) /\ \A i \in Rows : Moves(i)
    <2>1. Rows' = Rows
      BY <1>4 DEF Rows
    <2> QED BY <1>1, <1>2, <1>3, <1>4, <2>1 DEF LifeInv
  <1>5. ASSUME NEW t \in Tasks, Appends(t) PROVE LifeInv'
    <2>1. Len(queue) \in Nat
      BY RowTyped DEF IInv
    <2>2. \A i \in Rows' : i \in Rows \/ i = Len(queue) + 1
      BY <1>5, <2>1 DEF Rows, Appends
    <2> QED BY <1>1, <1>5, <2>2 DEF LifeInv, Appends
  <1> QED BY <1>4, <1>5, QueueLives DEF QueueLife

-----------------------------------------------------------------------------
(* What an answer says of Cloud. *)

LEMMA NothingClosesKept ==
  ASSUME IInv, AnswerInv, NothingCloses, [Next]_vars
  PROVE  /\ \A c \in CloudIds' : cloud'[c].state # "closed"
         /\ CloudAnswers => flight'.answer # "409"
  <1>0. /\ cloud \in Seq([client : Orders, state : OrderStates]) /\ Len(cloud) \in Nat
        /\ \A c \in CloudIds : cloud[c].state # "closed"
    BY LenProperties DEF IInv, TypeOK, AnswerInv
  <1>1. ASSUME NEW o, NEW id, StoreOrder(o, id)
        PROVE  \A c \in CloudIds' : cloud'[c].state # "closed"
    <2>1. CASE UNCHANGED cloudVars
      BY <1>0, <2>1 DEF cloudVars, CloudIds
    <2>2. CASE cloud' = Append(cloud, [client |-> o, state |-> "open"])
      <3>1. PICK e : e = [client |-> o, state |-> "open"]
        OBVIOUS
      <3>2. /\ Len(cloud') = Len(cloud) + 1 /\ \A c \in CloudIds : cloud'[c] = cloud[c]
            /\ cloud'[Len(cloud) + 1] = e /\ e.state = "open"
        BY <1>0, <2>2, <3>1 DEF CloudIds
      <3>3. \A c \in CloudIds' : c \in CloudIds \/ c = Len(cloud) + 1
        BY <1>0, <3>2 DEF CloudIds
      <3> QED BY <1>0, <3>2, <3>3
    <2> QED BY <1>1, <2>1, <2>2 DEF StoreOrder
  <1>2. ASSUME NEW i, NEW target, NEW answer, NEW id, Process(i, target, answer, id)
        PROVE  (\A c \in CloudIds' : cloud'[c].state # "closed") /\ answer # "409"
    <2>1. CASE queue[i].op = "order.create"
      BY <1>1, <1>2, <2>1 DEF Process
    <2>2. CASE queue[i].op = "payment.create"
      <3>1. StorePayment(target, queue[i].ent, queue[i].key, answer)
        BY <1>2, <2>2 DEF Process
      <3>2. cloud' = cloud
        BY <3>1 DEF StorePayment, cloudVars
      <3>3. answer # "409"
        BY <1>0, <3>1 DEF StorePayment, Exists
      <3> QED BY <1>0, <3>2, <3>3 DEF CloudIds
    <2>3. CASE queue[i].op # "order.create" /\ queue[i].op # "payment.create"
      BY <1>0, <1>2, <2>3 DEF Process, ConfirmPayment, cloudVars, CloudIds
    <2> QED BY <2>1, <2>2, <2>3
  <1>3. ASSUME NEW c \in CloudIds, TrashOrder(c) \/ LoseOrder(c)
        PROVE  \A d \in CloudIds' : cloud'[d].state # "closed"
    <2>1. PICK e : e = [cloud[c] EXCEPT !.state = IF TrashOrder(c) THEN "trashed" ELSE "gone"]
      OBVIOUS
    <2>2. cloud[c] \in [client : Orders, state : OrderStates]
      BY <1>0, ElementOfSeq DEF CloudIds
    <2>3. e.state # "closed" /\ e \in [client : Orders, state : OrderStates]
      BY <2>1, <2>2 DEF OrderStates
    <2>4. cloud' = [cloud EXCEPT ![c] = e]
      BY <1>0, <1>3, <2>1, <2>2 DEF TrashOrder, LoseOrder
    <2>5. /\ Len(cloud') = Len(cloud)
          /\ \A d \in CloudIds : cloud'[d] = IF d = c THEN e ELSE cloud[d]
      BY <1>0, <2>3, <2>4, ExceptSeq DEF CloudIds
    <2> QED BY <1>0, <2>3, <2>5 DEF CloudIds
  <1>4. ASSUME CloudAnswers
        PROVE  (\A c \in CloudIds' : cloud'[c].state # "closed") /\ flight'.answer # "409"
    <2>1. PICK answer \in {"ok", "404", "409"}, id \in 0..MaxCloudOrders :
            /\ Process(flight.row, flight.target, answer, id)
            /\ flight' = [flight EXCEPT !.answer = answer, !.id = id]
      BY <1>4 DEF CloudAnswers
    <2>2. flight'.answer = answer
      BY <2>1 DEF IInv, TypeOK
    <2> QED BY <1>2, <2>1, <2>2
  <1>5. ASSUME NEW r \in late, LateRequest(r) PROVE \A c \in CloudIds' : cloud'[c].state # "closed"
    <2>1. CASE UNCHANGED cloudVars
      BY <1>0, <2>1 DEF cloudVars, CloudIds
    <2>2. CASE ~UNCHANGED cloudVars
      <3>1. PICK answer, id : Process(r.row, r.target, answer, id)
        BY <1>5, <2>2 DEF LateRequest
      <3> QED BY <1>2, <3>1
    <2> QED BY <2>1, <2>2
  <1>6. ASSUME CloudMoves PROVE \A c \in CloudIds' : cloud'[c].state # "closed"
    BY <1>3, <1>6 DEF CloudMoves, NothingCloses
  <1>7. ASSUME UNCHANGED cloudVars PROVE \A c \in CloudIds' : cloud'[c].state # "closed"
    BY <1>0, <1>7 DEF cloudVars, CloudIds
  <1>8. \A c \in CloudIds' : cloud'[c].state # "closed"
    BY <1>4, <1>5, <1>6, <1>7
    DEF Next, Producers, EngineStep, OperatorStep, RecoverStep, Environment,
        CreateOrder, RecordPayment, HandlerEnqueue, HandlerEnqueueFails, Woken, Tick, Cascade,
        BackfillOrder, BackfillPayment, BackfillFails, ReconcileUnsyncedOrders,
        ReconcileUnsyncedPayments, MarkRehomed, Select, DrainDone, DependencyNotReady, BudgetSkip,
        Push, CloudRefuses, Timeout, WriteBack, StampSynced,
        AuthRejected, DataConflict, BurnAttempt, DeadLetterIfExhausted, Transient, StuckOrStop,
        RetryFailed, Discard, ReResolve, RecoverCheck, RecoverUnlink, RecoverResolve,
        RecoverRevive, RecoverEnqueue, Recovery,
        CooldownElapses, Probe, Outage, Crash, EngineRest,
        EnvRest, OperatorRest, vars
  <1> QED BY <1>4, <1>8

LEMMA AnswerSays ==
  ASSUME IInv, CloudAnswers
  PROVE  /\ flight'.answer = "409" => /\ queue[flight.row].op = "payment.create"
                                      /\ OrderIs("closed", queue[flight.row].ent)
                                      /\ UNCHANGED cloud
         /\ flight'.answer = "ok" /\ queue[flight.row].op = "order.create" => flight'.id # 0
  <1>1. PICK answer \in {"ok", "404", "409"}, id \in 0..MaxCloudOrders :
          /\ Process(flight.row, flight.target, answer, id)
          /\ flight' = [flight EXCEPT !.answer = answer, !.id = id]
    BY DEF CloudAnswers
  <1>2. flight'.answer = answer /\ flight'.id = id
    BY <1>1 DEF IInv, TypeOK
  <1>3. flight.row \in Rows
    BY FlightRow DEF IInv, CloudAnswers, InFlight, Busy
  <1>4. ASSUME queue[flight.row].op = "order.create"
        PROVE  answer = "ok" /\ id # 0
    <2>1. answer = "ok" /\ StoreOrder(queue[flight.row].ent, id)
      BY <1>1, <1>4 DEF Process
    <2>2. queue[flight.row].ent \in Orders
      BY <1>3, <1>4 DEF IInv, WellFormed, RowOK, TaskOK
    <2>3. id \in CloudIds'
      BY <2>1, <2>2, StoreOrderMove
    <2>4. 0 \notin CloudIds'
      BY SharedMove DEF Next
    <2> QED BY <2>1, <2>3, <2>4
  <1>5. ASSUME answer = "409"
        PROVE  /\ queue[flight.row].op = "payment.create"
               /\ OrderIs("closed", queue[flight.row].ent) /\ UNCHANGED cloud
    <2>1. PICK c : c = flight.target
      OBVIOUS
    <2>2. queue[flight.row].op = "payment.create"
      BY <1>1, <1>4, <1>5 DEF Process, ConfirmPayment
    <2>3. StorePayment(c, queue[flight.row].ent, queue[flight.row].key, "409")
      BY <1>1, <1>5, <2>1, <2>2 DEF Process
    <2>4. c \in CloudIds /\ cloud[c].state = "closed" /\ UNCHANGED cloud
      BY <2>3 DEF StorePayment, Exists, cloudVars
    <2>5. Names(c, OrderOf[queue[flight.row].ent])
      BY <1>3, <2>1, <2>2 DEF IInv, TypeOK, IdsInv, OrderOfRow, Rows
    <2>6. c # 0
      BY <2>4 DEF CloudIds
    <2> QED BY <2>2, <2>4, <2>5, <2>6 DEF Names, OrderIs
  <1> QED BY <1>2, <1>4, <1>5

(* A refused payment stays refused; an id once written back stays. *)
LEMMA TurnedAwayStays ==
  ASSUME IInv, [Next]_vars, NEW p \in Payments, TurnedAway(p)
  PROVE  TurnedAway(p)'
  <1>1. PICK c \in CloudIds : cloud[c].client = OrderOf[p] /\ cloud[c].state \in {"closed", "gone"}
    BY DEF TurnedAway, OrderIs
  <1>2. /\ c \in CloudIds' /\ cloud'[c].client = OrderOf[p]
        /\ cloud'[c].state \in {"closed", "gone"}
    BY <1>1, SharedMove DEF CloudMove, CloudStep
  <1> QED BY <1>2 DEF TurnedAway, OrderIs

LEMMA AnswerKept ==
  ASSUME IInv, AnswerInv, [Next]_vars
  PROVE  AnswerInv'
  <1>0. /\ TypeOK /\ NoFlight.row = 0 /\ NoFlight.answer = "none"
        /\ (pc \in Busy => flight.row \in Rows)
    BY FlightRow DEF IInv, NoFlight
  <1>1. \A i \in Rows : queue'[i].op = queue[i].op /\ queue'[i].ent = queue[i].ent
    BY SharedMove DEF QueueStep
  <1>r. ASSUME pc \in Busy, flight' = flight PROVE RefusalInv'
    <2> SUFFICES ASSUME flight.answer = "409", NEW p, p = queue'[flight'.row].ent
                 PROVE  queue'[flight'.row].op = "payment.create" /\ TurnedAway(p)'
      BY <1>r DEF RefusalInv, TurnedAway, OrderIs
    <2>1. /\ flight.row \in Rows /\ queue[flight.row].op = "payment.create"
          /\ p = queue[flight.row].ent /\ queue'[flight'.row].op = "payment.create"
      BY <1>0, <1>1, <1>r DEF AnswerInv, RefusalInv
    <2>2. TurnedAway(p) /\ p \in Payments
      BY <1>r, <2>1 DEF AnswerInv, RefusalInv, IInv, WellFormed, RowOK, TaskOK
    <2> QED BY <2>1, <2>2, TurnedAwayStays
  <1>s. ASSUME flight'.answer # "409" PROVE RefusalInv'
    BY <1>s DEF RefusalInv
  <1>n. ASSUME pc' \notin Busy PROVE RefusalInv'
    BY <1>n DEF RefusalInv, Busy
  <1>2. NothingCloses => \A c \in CloudIds' : cloud'[c].state # "closed"
    BY NothingClosesKept
  <1>3. ASSUME pc' = pc \/ (pc \in Busy /\ pc' \in Busy /\ pc' # "stamp" /\ pc' # "exhaust"),
               flight' = flight
        PROVE  AnswerInv'
    BY <1>0, <1>1, <1>2, <1>3, <1>r, <1>n DEF AnswerInv, Busy
  <1>4. ASSUME flight'.answer = "none", pc' # "exhaust", pc' # "stamp"
        PROVE  AnswerInv'
    BY <1>2, <1>4, <1>s DEF AnswerInv
  <1>5. CASE Aside
    BY <1>3, <1>5 DEF Aside
  <1>6. CASE Ends
    <2>1. pc = "flight" /\ pc' = pc /\ queue' = queue /\ flight'.row = flight.row
      BY <1>6 DEF Ends, InFlight
    <2>2. flight'.answer = "400" => "400" \in Faults
      BY <1>6 DEF Ends
    <2>3. flight'.answer \in {"ok", "409"} => CloudAnswers
      BY <1>6 DEF Ends
    <2>4. RefusalInv'
      <3> SUFFICES ASSUME flight'.answer = "409", NEW p, p = queue'[flight'.row].ent
                   PROVE  queue'[flight'.row].op = "payment.create" /\ TurnedAway(p)'
        BY DEF RefusalInv, TurnedAway, OrderIs
      <3>1. /\ queue[flight.row].op = "payment.create" /\ p = queue[flight.row].ent
            /\ OrderIs("closed", p) /\ UNCHANGED cloud
        BY <2>1, <2>3, AnswerSays
      <3>2. "settle" \in CloudEvents
        BY <2>3, NothingClosesKept DEF NothingCloses
      <3> QED BY <2>1, <3>1, <3>2 DEF TurnedAway, OrderIs, CloudIds
    <2>5. flight'.answer = "ok" /\ queue[flight.row].op = "order.create" => flight'.id # 0
      BY <2>3, AnswerSays
    <2> QED BY <1>2, <2>1, <2>2, <2>4, <2>5 DEF AnswerInv
  <1>7. CASE Crash
    BY <1>0, <1>4, <1>7 DEF Crash
  <1>8. CASE Sweeps
    <2>1. ASSUME NEW p, BackfillPayment(p) PROVE AnswerInv'
      <3>1. (pc' = "rehomedOrphan" /\ flight'.answer = "none") \/ (pc' = pc /\ flight' = flight)
        BY <2>1 DEF BackfillPayment, NoFlight
      <3> QED BY <1>3, <1>4, <3>1
    <2>2. ASSUME NEW e, BackfillFails(e) \/ Cascade(e) \/ BackfillOrder(e) PROVE AnswerInv'
      BY <1>3, <2>2 DEF BackfillFails, Cascade, BackfillOrder
    <2>3. CASE MarkRehomed
      BY <1>0, <1>4, <2>3 DEF MarkRehomed
    <2>4. CASE Woken \/ Tick \/ ReconcileUnsyncedOrders \/ ReconcileUnsyncedPayments \/ Select
               \/ DrainDone
      <3>1. flight' = flight /\ pc' \notin Busy
        BY <2>4 DEF Woken, Tick, ReconcileUnsyncedOrders, ReconcileUnsyncedPayments, Select,
          DrainDone, Busy
      <3> QED BY <1>2, <1>n, <3>1 DEF AnswerInv, Busy
    <2> QED BY <1>8, <2>1, <2>2, <2>3, <2>4 DEF Sweeps
  <1>9. CASE Handles
    <2>1. ASSUME NEW i, DependencyNotReady(i) \/ BudgetSkip(i) PROVE AnswerInv'
      BY <1>3, <2>1 DEF DependencyNotReady, BudgetSkip
    <2>2. ASSUME NEW i, Push(i) PROVE AnswerInv'
      BY <1>4, <2>2 DEF Push
    <2>3. CASE WriteBack
      <3>1. pc = "flight" /\ pc' = "stamp" /\ flight' = flight /\ queue' = queue
            /\ flight.answer \in {"ok", "409"}
        BY <2>3 DEF WriteBack, Answered
      <3> QED BY <1>2, <1>r, <3>1 DEF AnswerInv, Busy
    <2>4. CASE StampSynced \/ DataConflict \/ DeadLetterIfExhausted \/ StuckOrStop
      BY <1>0, <1>4, <2>4 DEF StampSynced, DataConflict, DeadLetterIfExhausted, StuckOrStop,
        NextRow, StopCycle
    <2>5. CASE AuthRejected
      <3>1. \/ pc = "flight" /\ pc' = "rehomedRow" /\ flight' = flight
            \/ pc' = "drain" /\ flight' = NoFlight
        BY <2>5 DEF AuthRejected, NextRow, Answered
      <3> QED BY <1>0, <1>3, <1>4, <3>1 DEF Busy
    <2>6. CASE BurnAttempt
      <3>1. pc = "flight" /\ pc' = "exhaust" /\ flight' = flight /\ flight.answer = "400"
        BY <2>6 DEF BurnAttempt, Answered
      <3> QED BY <1>2, <1>s, <3>1 DEF AnswerInv
    <2>7. CASE Transient
      <3>1. pc = "flight" /\ pc' = "stuck" /\ flight' = flight
        BY <2>7 DEF Transient, Answered
      <3> QED BY <1>3, <3>1 DEF Busy
    <2> QED BY <1>9, <2>1, <2>2, <2>3, <2>4, <2>5, <2>6, <2>7 DEF Handles
  <1> QED BY <1>0, <1>5, <1>6, <1>7, <1>8, <1>9, StepKinds

-----------------------------------------------------------------------------
(* A row that has burned its attempts surfaces. *)

LEMMA ExhaustMoves ==
  ASSUME TypeOK, [Next]_vars, pc = "exhaust"
  PROVE  \/ pc' = "exhaust" /\ flight' = flight
         \/ DeadLetterIfExhausted
         \/ Crashes /\ Crash
  BY StepKinds
    DEF Aside, Ends, InFlight, Sweeps, Handles, Crash, Woken, Tick, ReconcileUnsyncedOrders,
        ReconcileUnsyncedPayments, Cascade, BackfillOrder, BackfillPayment, BackfillFails,
        MarkRehomed, Select, DrainDone, DependencyNotReady, BudgetSkip, Push, WriteBack,
        StampSynced, AuthRejected, DataConflict, BurnAttempt, Transient, StuckOrStop, Answered

LEMMA ExhaustKept ==
  ASSUME IInv, AnswerInv, ExhaustInv, [Next]_vars
  PROVE  ExhaustInv'
  <1> SUFFICES ASSUME BurnSurvives, NEW i \in Rows', ~queue'[i].synced,
                      queue'[i].attempts >= MaxAttempts, queue'[i].dead = "no"
               PROVE  pc' = "exhaust" /\ flight'.row = i
    BY DEF ExhaustInv, ExhaustedIsSurfaced, BurnSurvives
  <1>0. /\ TypeOK /\ queue \in [Rows -> Row] /\ Len(queue) \in Nat /\ MaxAttempts \in Nat \ {0}
        /\ \A j \in Rows : ~queue[j].synced /\ queue[j].attempts >= MaxAttempts =>
             queue[j].dead # "no" \/ (pc = "exhaust" /\ flight.row = j)
    BY RowTyped, SyncQueueAssumption DEF IInv, ExhaustInv, ExhaustedIsSurfaced
  <1>1. pc = "exhaust" => \/ pc' = "exhaust" /\ flight' = flight
                          \/ DeadLetterIfExhausted
    BY <1>0, ExhaustMoves DEF AnswerInv, BurnSurvives
  <1>2. pc = "exhaust" /\ flight.row = i /\ i \in Rows /\ queue[i].attempts >= MaxAttempts
          => ~DeadLetterIfExhausted
    <2>1. ASSUME i \in Rows, flight.row = i, queue[i].attempts >= MaxAttempts, DeadLetterIfExhausted
          PROVE  FALSE
      <3>1. queue' = [queue EXCEPT ![i].dead = "max_attempts_exhausted"]
        BY <2>1 DEF DeadLetterIfExhausted, TheRow
      <3>2. queue'[i].dead = "max_attempts_exhausted"
        BY <1>0, <2>1, <3>1 DEF Row
      <3> QED BY <3>2
    <2> QED BY <2>1
  <1>3. CASE Len(queue') = Len(queue) /\ \A j \in Rows : Moves(j)
    <2>1. i \in Rows /\ Moves(i)
      BY <1>3 DEF Rows
    <2>2. CASE IsKept(i)
      BY <1>0, <1>1, <1>2, <2>1, <2>2 DEF IsKept, SameButAttempts
    <2>3. CASE IsBurned(i)
      BY <2>3 DEF IsBurned
    <2> QED BY <1>0, <2>1, <2>2, <2>3
         DEF Moves, IsReset, IsStamped, IsDeadLettered, IsDiscarded, IsRevived, IsRecovered, Surfaced
  <1>4. ASSUME NEW t \in Tasks, Appends(t), Producer(t)
        PROVE  pc' = "exhaust" /\ flight'.row = i
    <2>1. i \in Rows \/ i = Len(queue) + 1
      BY <1>0, <1>4 DEF Rows, Appends
    <2>2. i # Len(queue) + 1
      BY <1>0, <1>4 DEF Appends
    <2>3. queue'[i] = queue[i] /\ i \in Rows
      BY <1>4, <2>1, <2>2 DEF Appends
    <2> QED BY <1>0, <1>1, <1>2, <2>3
  <1> QED BY <1>3, <1>4, QueueLives DEF QueueLife

-----------------------------------------------------------------------------
(* The Cloud ids the workstation remembers. *)

LEMMA PayCloudStays ==
  ASSUME IInv, AnswerInv, [Next]_vars
  PROVE  /\ \A p \in Payments : payCloud[p] # 0 => payCloud'[p] # 0
         /\ WriteBack /\ queue[flight.row].op = "payment.create" =>
              payCloud'[queue[flight.row].ent] # 0 \/ TurnedAway(queue[flight.row].ent)
  <1>0. payCloud \in [Payments -> {0} \cup CloudIds]
    BY DEF IInv, TypeOK
  <1>1. ASSUME WriteBack
        PROVE  /\ \A p \in Payments : payCloud[p] # 0 => payCloud'[p] # 0
               /\ queue[flight.row].op = "payment.create" =>
                    payCloud'[queue[flight.row].ent] # 0 \/ TurnedAway(queue[flight.row].ent)
    <2>1. flight.row \in Rows /\ flight.row # 0 /\ pc \in Busy
      BY <1>1, FlightRow DEF IInv, TypeOK, WriteBack, Answered, Busy
    <2>2. CASE queue[flight.row].op = "payment.create" /\ flight.answer = "ok"
      <3>1. queue[flight.row].ent \in Payments
        BY <2>1, <2>2 DEF IInv, WellFormed, RowOK, TaskOK
      <3>2. flight.id # 0
        BY <2>1, <2>2 DEF IInv, PaidInv, Paid, CloudIds
      <3>3. payCloud' = [payCloud EXCEPT ![queue[flight.row].ent] = flight.id]
        BY <1>1, <2>2 DEF WriteBack, TheRow
      <3> QED BY <1>0, <3>1, <3>2, <3>3
    <2>3. CASE ~(queue[flight.row].op = "payment.create" /\ flight.answer = "ok")
      <3>1. payCloud' = payCloud
        BY <1>1, <2>3 DEF WriteBack, TheRow
      <3>2. queue[flight.row].op = "payment.create" => TurnedAway(queue[flight.row].ent)
        BY <1>1, <2>1, <2>3 DEF WriteBack, Answered, AnswerInv, RefusalInv
      <3> QED BY <3>1, <3>2
    <2> QED BY <2>2, <2>3
  <1>2. ~WriteBack => UNCHANGED payCloud
    BY DEF Next, Producers, EngineStep, OperatorStep, RecoverStep, Environment,
        CreateOrder, RecordPayment, HandlerEnqueue, HandlerEnqueueFails, Woken, Tick, Cascade,
        BackfillOrder, BackfillPayment, BackfillFails, ReconcileUnsyncedOrders,
        ReconcileUnsyncedPayments, MarkRehomed, Select, DrainDone, DependencyNotReady, BudgetSkip,
        Push, CloudAnswers, CloudRefuses, Timeout, LateRequest, StampSynced,
        AuthRejected, DataConflict, BurnAttempt, DeadLetterIfExhausted, Transient, StuckOrStop,
        RetryFailed, Discard, ReResolve, RecoverCheck, RecoverUnlink, RecoverResolve,
        RecoverRevive, RecoverEnqueue, Recovery, CooldownElapses, Probe, Outage, CloudMoves, Crash,
        EngineRest, EnvRest, OperatorRest, local, vars
  <1> QED BY <1>1, <1>2

LEMMA AnswersStay ==
  ASSUME IInv, AnswerInv, [Next]_vars, NEW p \in Payments, Answers(p)
  PROVE  Answers(p)'
  BY PayCloudStays, TurnedAwayStays DEF Answers

LEMMA OrderCloudStays ==
  ASSUME IInv, AnswerInv, [Next]_vars, NEW o \in Orders
  PROVE  /\ orderCloud[o] # 0 => orderCloud'[o] # 0 \/ recovering'[o] = "resolve"
         /\ WriteBack /\ queue[flight.row].op = "order.create" /\ queue[flight.row].ent = o =>
              orderCloud'[o] # 0
  <1>0. /\ orderCloud \in [Orders -> {0} \cup CloudIds]
        /\ recovering \in [Orders -> RecoverStages]
    BY DEF IInv, TypeOK
  <1>1. ASSUME WriteBack
        PROVE  /\ orderCloud[o] # 0 => orderCloud'[o] # 0
               /\ queue[flight.row].op = "order.create" /\ queue[flight.row].ent = o =>
                    orderCloud'[o] # 0
    <2>1. flight.row \in Rows /\ pc \in Busy /\ flight.answer \in {"ok", "409"}
      BY <1>1, FlightRow DEF IInv, TypeOK, WriteBack, Answered, Busy
    <2>2. CASE queue[flight.row].op = "order.create"
      <3>1. flight.answer = "ok" /\ flight.id # 0
        BY <2>1, <2>2 DEF AnswerInv, RefusalInv
      <3>2. orderCloud' = [orderCloud EXCEPT ![queue[flight.row].ent] = flight.id]
        BY <1>1, <2>2, <3>1 DEF WriteBack, TheRow
      <3> QED BY <1>0, <3>1, <3>2
    <2>3. CASE queue[flight.row].op # "order.create"
      BY <1>1, <2>3 DEF WriteBack, TheRow
    <2> QED BY <2>2, <2>3
  <1>2. ASSUME NEW u \in Orders, RecoverUnlink(u)
        PROVE  /\ orderCloud[o] # 0 => orderCloud'[o] # 0 \/ recovering'[o] = "resolve"
               /\ ~WriteBack
    <2>1. /\ orderCloud' = [orderCloud EXCEPT ![u] = 0]
          /\ recovering' = [recovering EXCEPT ![u] = "resolve"]
          /\ pc' = pc
      BY <1>2 DEF RecoverUnlink, Recovery
    <2>2. ~WriteBack
      BY <2>1 DEF WriteBack, Answered
    <2> QED BY <1>0, <2>1, <2>2
  <1>3. ~WriteBack /\ (\A u \in Orders : ~RecoverUnlink(u)) => UNCHANGED orderCloud
    BY DEF Next, Producers, EngineStep, OperatorStep, RecoverStep, Environment,
        CreateOrder, RecordPayment, HandlerEnqueue, HandlerEnqueueFails, Woken, Tick, Cascade,
        BackfillOrder, BackfillPayment, BackfillFails, ReconcileUnsyncedOrders,
        ReconcileUnsyncedPayments, MarkRehomed, Select, DrainDone, DependencyNotReady, BudgetSkip,
        Push, CloudAnswers, CloudRefuses, Timeout, LateRequest, StampSynced,
        AuthRejected, DataConflict, BurnAttempt, DeadLetterIfExhausted, Transient, StuckOrStop,
        RetryFailed, Discard, ReResolve, RecoverCheck, RecoverResolve,
        RecoverRevive, RecoverEnqueue, CooldownElapses, Probe, Outage, CloudMoves, Crash,
        EngineRest, EnvRest, OperatorRest, local, vars
  <1> QED BY <1>1, <1>2, <1>3

LEMMA StampMoves ==
  ASSUME TypeOK, [Next]_vars, pc' = "stamp"
  PROVE  (pc = "stamp" /\ flight' = flight) \/ WriteBack
  BY StepKinds
    DEF Aside, Ends, InFlight, Sweeps, Handles, Crash, Woken, Tick, ReconcileUnsyncedOrders,
        ReconcileUnsyncedPayments, Cascade, BackfillOrder, BackfillPayment, BackfillFails,
        MarkRehomed, Select, DrainDone, DependencyNotReady, BudgetSkip, Push,
        StampSynced, AuthRejected, DataConflict, BurnAttempt, DeadLetterIfExhausted, Transient,
        StuckOrStop, Answered, NextRow, StopCycle

(* What a step leaves of what rows say. *)
LEMMA RowsStay ==
  ASSUME IInv, [Next]_vars
  PROVE  /\ Rows \subseteq Rows' /\ Len(queue) \in Nat
         /\ \A i \in Rows : /\ queue'[i].op = queue[i].op /\ queue'[i].ent = queue[i].ent
                            /\ ~queue[i].synced => \/ ~queue'[i].synced
                                                   \/ i = flight.row /\ pc = "stamp" /\ pc' = "drain"
                            /\ queue[i].synced => queue'[i].synced
                            /\ Pending(i) => \/ Pending(i)'
                                             \/ i = flight.row /\ pc = "stamp" /\ pc' = "drain"
                                             \/ /\ queue[i].op = "order.create"
                                                /\ recovering'[queue[i].ent] = "revive"
         /\ \A i \in Rows' \ Rows : ~queue'[i].synced /\ queue'[i].resolution = "no"
  <1>1. Rows \subseteq Rows' /\ Len(queue) \in Nat /\ TypeOK
    BY SharedMove, RowTyped DEF IInv
  <1>2. \A i \in Rows : queue'[i].op = queue[i].op /\ queue'[i].ent = queue[i].ent
    BY SharedMove DEF QueueStep
  <1>3. ASSUME NEW i \in Rows, Moves(i)
        PROVE  /\ ~queue[i].synced => \/ ~queue'[i].synced
                                      \/ i = flight.row /\ pc = "stamp" /\ pc' = "drain"
               /\ queue[i].synced => queue'[i].synced
               /\ Pending(i) => \/ Pending(i)'
                                \/ i = flight.row /\ pc = "stamp" /\ pc' = "drain"
                                \/ /\ queue[i].op = "order.create"
                                   /\ recovering'[queue[i].ent] = "revive"
    BY <1>3 DEF Moves, IsKept, IsReset, IsBurned, IsStamped, IsDeadLettered, IsDiscarded, IsRevived,
         IsRecovered, SameButAttempts, Pending
  <1>4. CASE Len(queue') = Len(queue) /\ \A i \in Rows : Moves(i)
    <2>1. Rows' = Rows
      BY <1>4 DEF Rows
    <2> QED BY <1>1, <1>2, <1>3, <1>4, <2>1
  <1>5. ASSUME NEW t \in Tasks, Appends(t)
        PROVE  /\ \A i \in Rows : queue'[i] = queue[i]
               /\ \A i \in Rows' \ Rows : ~queue'[i].synced /\ queue'[i].resolution = "no"
    BY <1>1, <1>5 DEF Appends, Rows
  <1>6. CASE \E t \in Tasks : Appends(t)
    BY <1>1, <1>2, <1>5, <1>6 DEF Pending
  <1> QED BY <1>4, <1>6, QueueLives DEF QueueLife

LEMMA StampedPaymentKept ==
  ASSUME IInv, AnswerInv, StampedPayment, [Next]_vars
  PROVE  StampedPayment'
  <1> SUFFICES ASSUME pc' = "stamp", queue'[flight'.row].op = "payment.create",
                      NEW p, p = queue'[flight'.row].ent
               PROVE  Answers(p)'
    BY DEF StampedPayment, Answers, TurnedAway, OrderIs
  <1>1. TypeOK /\ ((pc = "stamp" /\ flight' = flight) \/ WriteBack)
    BY StampMoves DEF IInv
  <1>2. flight' = flight /\ pc \in Busy
    BY <1>1 DEF WriteBack, Answered, Busy
  <1>3. PICK r \in Rows : r = flight.row
    BY <1>1, <1>2, FlightRow
  <1>4. /\ queue'[r].op = queue[r].op /\ queue'[r].ent = queue[r].ent
        /\ queue[r].op = "payment.create" => queue[r].ent \in Payments
    BY RowsStay DEF IInv, WellFormed, RowOK, TaskOK
  <1>5. queue[r].op = "payment.create" /\ queue[r].ent \in Payments
    BY <1>2, <1>3, <1>4
  <1>6. p = queue[r].ent /\ p \in Payments
    BY <1>2, <1>3, <1>4, <1>5
  <1>7. CASE Answers(p)
    BY <1>6, <1>7, AnswersStay
  <1>8. CASE WriteBack
    <2>1. payCloud'[p] # 0 \/ TurnedAway(p)
      BY <1>3, <1>5, <1>6, <1>8, PayCloudStays
    <2> QED BY <1>6, <2>1, TurnedAwayStays DEF Answers
  <1> QED BY <1>1, <1>3, <1>5, <1>6, <1>7, <1>8 DEF StampedPayment

LEMMA SyncedKept ==
  ASSUME IInv, AnswerInv, StampedPayment, SyncedInv, [Next]_vars
  PROVE  SyncedInv'
  <1> SUFFICES ASSUME NEW i \in Rows', queue'[i].op = "payment.create",
                      queue'[i].synced, NEW p, p = queue'[i].ent
               PROVE  Answers(p)'
    BY DEF SyncedInv, Answers, TurnedAway, OrderIs
  <1>1. i \in Rows /\ queue[i].op = "payment.create" /\ queue'[i].ent = queue[i].ent
    BY RowsStay
  <1>2. queue[i].synced \/ (i = flight.row /\ pc = "stamp")
    BY <1>1, RowsStay
  <1>3. p = queue[i].ent /\ p \in Payments
    BY <1>1 DEF IInv, WellFormed, RowOK, TaskOK
  <1>4. Answers(p)
    BY <1>1, <1>2, <1>3 DEF SyncedInv, StampedPayment
  <1> QED BY <1>3, <1>4, AnswersStay

LEMMA RehomedKept ==
  ASSUME IInv, AnswerInv, DrainInv, StampedPayment, RehomedInv, [Next]_vars
  PROVE  RehomedInv'
  <1> SUFFICES ASSUME NEW p \in rehomed', ~Answers(p)'
               PROVE  Unsynced("payment.create", p)'
    BY DEF RehomedInv
  <1>0. rehomed \subseteq Payments /\ TypeOK /\ rehomed' \subseteq Payments
    BY LocalTypeKept, SyncQueueAssumption DEF IInv, TypeOK, LocalType
  <1>1. CASE p \in rehomed
    <2>1. ~Answers(p)
      BY <1>0, <1>1, AnswersStay
    <2>2. PICK i \in Rows : IsRow(i, "payment.create", p) /\ ~queue[i].synced
      BY <1>1, <2>1 DEF RehomedInv, Unsynced
    <2>3. ~(i = flight.row /\ pc = "stamp")
      BY <2>1, <2>2 DEF StampedPayment, IsRow
    <2>4. i \in Rows' /\ IsRow(i, "payment.create", p)' /\ ~queue'[i].synced
      BY <2>2, <2>3, RowsStay DEF IsRow
    <2> QED BY <2>4 DEF Unsynced
  <1>2. CASE p \notin rehomed
    <2>1. MarkRehomed
      <3>1. ~UNCHANGED rehomed
        BY <1>2
      <3> QED BY <3>1
         DEF Next, Producers, EngineStep, OperatorStep, RecoverStep, Environment,
             CreateOrder, RecordPayment, HandlerEnqueue, HandlerEnqueueFails, Woken, Tick, Cascade,
             BackfillOrder, BackfillPayment, BackfillFails, ReconcileUnsyncedOrders,
             ReconcileUnsyncedPayments, Select, DrainDone, DependencyNotReady, BudgetSkip, Push,
             CloudAnswers, CloudRefuses, Timeout, LateRequest, WriteBack, StampSynced,
             AuthRejected, DataConflict, BurnAttempt, DeadLetterIfExhausted, Transient, StuckOrStop,
             RetryFailed, Discard, ReResolve, RecoverCheck, RecoverUnlink, RecoverResolve,
             RecoverRevive, RecoverEnqueue, Recovery, CooldownElapses, Probe, Outage, CloudMoves,
             Crash, EngineRest, EnvRest, OperatorRest, local, vars
    <2>2. /\ pc \in {"rehomedOrphan", "rehomedRow"} /\ pc \in Busy /\ queue' = queue
          /\ p = queue[flight.row].ent
      BY <1>2, <2>1 DEF MarkRehomed, Busy
    <2>3. PICK i \in Rows : i = flight.row
      BY <1>0, <2>2, FlightRow
    <2>4. queue[i].op = "payment.create" /\ queue[i].ent = p /\ ~queue[i].synced
      BY <2>2, <2>3 DEF DrainInv, Live
    <2> QED BY <2>2, <2>4 DEF Unsynced, IsRow, Rows
  <1> QED BY <1>1, <1>2

-----------------------------------------------------------------------------
(* An order the workstation has no Cloud id of. *)

(* A recover call that ends leaves a fresh row. *)
LEMMA RecoverEnds ==
  ASSUME IInv, LifeInv, RecoverCompletes, [Next]_vars, NEW o \in Orders,
         recovering[o] # "no", recovering'[o] = "no", NEW n, n = Len(queue) + 1
  PROVE  /\ pc' = pc /\ flight' = flight
         /\ n \in Rows' /\ IsRow(n, "order.create", o)' /\ Pending(n)'
  <1>1. "enqueue" \notin Faults /\ ~Crashes
    BY DEF LifeInv, RecoverCompletes
  <1>2. RecoverEnqueue(o)
    BY <1>1, RecoveringStep
  <1>3. PICK t \in Tasks : t = Task("order.create", o)
    BY DEF Task, Tasks, Ops, Entities
  <1>4. Enqueue(t) /\ pc' = pc /\ flight' = flight
    BY <1>1, <1>2, <1>3 DEF RecoverEnqueue, Recovery
  <1>5. Appends(t) /\ t.op = "order.create" /\ t.ent = o
    BY <1>3, <1>4, EnqueueAppends DEF IInv, Task
  <1>6. Len(queue) \in Nat
    BY RowsStay
  <1>7. n \in Rows'
    BY <1>5, <1>6 DEF Appends, Rows
  <1>8. queue'[n].op = "order.create" /\ queue'[n].ent = o /\ ~queue'[n].synced
        /\ queue'[n].resolution = "no"
    BY <1>5 DEF Appends
  <1> QED BY <1>4, <1>7, <1>8 DEF IsRow, Pending

LEMMA StampedOrderKept ==
  ASSUME IInv, LifeInv, AnswerInv, StampedOrder, [Next]_vars
  PROVE  StampedOrder'
  <1> SUFFICES ASSUME pc' = "stamp", RecoverCompletes, queue'[flight'.row].op = "order.create",
                      NEW o, o = queue'[flight'.row].ent, orderCloud'[o] = 0, recovering'[o] = "no"
               PROVE  \E j \in Rows' : /\ j # flight'.row /\ IsRow(j, "order.create", o)'
                                       /\ Pending(j)'
    BY DEF StampedOrder, RecoverCompletes, Succeeded
  <1>1. TypeOK /\ ((pc = "stamp" /\ flight' = flight) \/ WriteBack)
    BY StampMoves DEF IInv
  <1>2. flight' = flight /\ pc \in Busy
    BY <1>1 DEF WriteBack, Answered, Busy
  <1>3. PICK r \in Rows : r = flight.row
    BY <1>1, <1>2, FlightRow
  <1>4. queue[r].op = "order.create" /\ queue[r].ent = o /\ o \in Orders
    <2>1. queue'[r].op = queue[r].op /\ queue'[r].ent = queue[r].ent
      BY RowsStay
    <2>2. queue[r].op = "order.create" => queue[r].ent \in Orders
      BY DEF IInv, WellFormed, RowOK, TaskOK
    <2> QED BY <1>2, <1>3, <2>1, <2>2
  <1>5. pc = "stamp" /\ orderCloud[o] = 0
    BY <1>1, <1>3, <1>4, OrderCloudStays
  <1>6. CASE recovering[o] # "no"
    <2>1. PICK n : n = Len(queue) + 1
      OBVIOUS
    <2>2. n \in Rows' /\ IsRow(n, "order.create", o)' /\ Pending(n)'
      BY <1>4, <1>6, <2>1, RecoverEnds
    <2>3. n # r
      BY <1>3, <2>1, RowsStay DEF Rows
    <2> QED BY <1>2, <1>3, <2>2, <2>3
  <1>7. CASE recovering[o] = "no"
    <2>1. PICK j \in Rows : j # r /\ IsRow(j, "order.create", o) /\ Pending(j)
      BY <1>3, <1>4, <1>5, <1>7 DEF StampedOrder, Succeeded
    <2>2. j \in Rows' /\ IsRow(j, "order.create", o)'
      BY <2>1, RowsStay DEF IsRow
    <2>3. Pending(j)'
      BY <1>3, <2>1, RowsStay DEF IsRow
    <2> QED BY <1>2, <1>3, <2>1, <2>2, <2>3
  <1> QED BY <1>6, <1>7

LEMMA PlacedKept ==
  ASSUME IInv, LifeInv, AnswerInv, StampedOrder, PlacedInv, [Next]_vars
  PROVE  PlacedInv'
  <1> SUFFICES ASSUME RecoverCompletes, NEW o \in Orders, orderCloud'[o] = 0,
                      recovering'[o] = "no", Unsynced("order.create", o)'
               PROVE  \E i \in Rows' : IsRow(i, "order.create", o)' /\ Pending(i)'
    BY DEF PlacedInv, RecoverCompletes
  <1>1. orderCloud[o] = 0
    BY OrderCloudStays
  <1>2. CASE recovering[o] # "no"
    <2>1. PICK n : n = Len(queue) + 1
      OBVIOUS
    <2> QED BY <1>2, <2>1, RecoverEnds
  <1>3. CASE recovering[o] = "no" /\ ~Unsynced("order.create", o)
    <2>1. PICK i \in Rows' : IsRow(i, "order.create", o)' /\ ~queue'[i].synced
      BY DEF Unsynced
    <2>2. i \notin Rows
      BY <1>3, <2>1, RowsStay DEF Unsynced, IsRow
    <2>3. Pending(i)'
      BY <2>1, <2>2, RowsStay DEF Pending
    <2> QED BY <2>1, <2>3
  <1>4. CASE recovering[o] = "no" /\ Unsynced("order.create", o)
    <2>1. PICK i \in Rows : IsRow(i, "order.create", o) /\ Pending(i)
      BY <1>1, <1>4 DEF PlacedInv
    <2>2. ASSUME NEW j \in Rows, IsRow(j, "order.create", o), Pending(j),
                 ~(j = flight.row /\ pc = "stamp")
          PROVE  \E k \in Rows' : IsRow(k, "order.create", o)' /\ Pending(k)'
      <3>1. j \in Rows' /\ IsRow(j, "order.create", o)'
        BY <2>2, RowsStay DEF IsRow
      <3>2. Pending(j)'
        BY <2>2, RowsStay DEF IsRow
      <3> QED BY <3>1, <3>2
    <2>3. CASE i = flight.row /\ pc = "stamp"
      <3>1. PICK j \in Rows : j # i /\ IsRow(j, "order.create", o) /\ Pending(j)
        BY <1>1, <1>4, <2>1, <2>3 DEF StampedOrder, Succeeded, IsRow
      <3> QED BY <2>2, <2>3, <3>1
    <2> QED BY <2>1, <2>2, <2>3
  <1> QED BY <1>2, <1>3, <1>4

-----------------------------------------------------------------------------
(* The rows of a kiosk payment. *)

LEMMA TasksApart ==
  ASSUME NEW a, NEW b, NEW e, NEW f
  PROVE  Task(a, e) = Task(b, f) => a = b /\ e = f
  BY DEF Task

(* A handler that is done with a payment stays done with it. *)
LEMMA TodoStep ==
  ASSUME CountInv, [Next]_vars
  PROVE  \A p \in Payments :
           /\ Handled(p) => Handled(p)'
           /\ Task("payment.create", p) \in todo' => p \in recorded'
  <1> SUFFICES ASSUME NEW p \in Payments
               PROVE  /\ Handled(p) => Handled(p)'
                      /\ Task("payment.create", p) \in todo' => p \in recorded'
    OBVIOUS
  <1>0. PICK t : t = Task("payment.create", p)
    OBVIOUS
  <1>1. ASSUME NEW o \in Orders, CreateOrder(o)
        PROVE  (t \in todo' <=> t \in todo) /\ recorded' = recorded
    <2>1. t # Task("order.create", o)
      BY <1>0 DEF Task
    <2> QED BY <1>1, <2>1 DEF CreateOrder
  <1>2. ASSUME NEW q \in Payments, RecordPayment(q)
        PROVE  /\ recorded \subseteq recorded' /\ (t \in todo' => t \in todo \/ q = p)
               /\ q \notin recorded /\ q \in recorded'
    <2>1. t # Task("payment.confirm", q) /\ (t = Task("payment.create", q) => q = p)
      BY <1>0, TasksApart
    <2> QED BY <1>2, <2>1 DEF RecordPayment
  <1>3. ASSUME NEW u \in Tasks, HandlerEnqueue(u) \/ HandlerEnqueueFails(u)
        PROVE  todo' \subseteq todo /\ recorded' = recorded
    BY <1>3 DEF HandlerEnqueue, HandlerEnqueueFails, local
  <1>4. CASE Crash
    BY <1>4 DEF Crash, local, Handled, CountInv
  <1>5. CASE UNCHANGED <<todo, recorded>>
    BY <1>5 DEF Handled, CountInv
  <1>6. CASE \E o \in Orders : CreateOrder(o)
    BY <1>0, <1>1, <1>6 DEF Handled, CountInv
  <1>7. CASE \E q \in Payments : RecordPayment(q)
    BY <1>0, <1>2, <1>7 DEF Handled, CountInv
  <1>8. CASE \E u \in Tasks : HandlerEnqueue(u) \/ HandlerEnqueueFails(u)
    BY <1>0, <1>3, <1>8 DEF Handled, CountInv
  <1> QED
    BY <1>4, <1>5, <1>6, <1>7, <1>8
    DEF Next, Producers, EngineStep, OperatorStep, RecoverStep, Environment,
        Woken, Tick, Cascade, BackfillOrder, BackfillPayment, BackfillFails,
        ReconcileUnsyncedOrders, ReconcileUnsyncedPayments, MarkRehomed, Select, DrainDone,
        DependencyNotReady, BudgetSkip, Push, CloudAnswers, CloudRefuses, Timeout, LateRequest,
        WriteBack, StampSynced, AuthRejected, DataConflict, BurnAttempt, DeadLetterIfExhausted,
        Transient, StuckOrStop, RetryFailed, Discard, ReResolve, RecoverCheck, RecoverUnlink,
        RecoverResolve, RecoverRevive, RecoverEnqueue, Recovery, CooldownElapses, Probe, Outage,
        CloudMoves, EngineRest, EnvRest, OperatorRest, local, http, vars

(* Only the mark moves a payment to the workstation's route. *)
LEMMA RehomedGrows ==
  ASSUME [Next]_vars
  PROVE  rehomed' = rehomed \/ MarkRehomed
  BY DEF Next, Producers, EngineStep, OperatorStep, RecoverStep, Environment,
         CreateOrder, RecordPayment, HandlerEnqueue, HandlerEnqueueFails, Woken, Tick, Cascade,
         BackfillOrder, BackfillPayment, BackfillFails, ReconcileUnsyncedOrders,
         ReconcileUnsyncedPayments, Select, DrainDone, DependencyNotReady, BudgetSkip, Push,
         CloudAnswers, CloudRefuses, Timeout, LateRequest, WriteBack, StampSynced,
         AuthRejected, DataConflict, BurnAttempt, DeadLetterIfExhausted, Transient, StuckOrStop,
         RetryFailed, Discard, ReResolve, RecoverCheck, RecoverUnlink, RecoverResolve,
         RecoverRevive, RecoverEnqueue, Recovery, CooldownElapses, Probe, Outage, CloudMoves,
         Crash, EngineRest, EnvRest, OperatorRest, local, vars

(* A payment the reconciler has re-homed, or is about to mark, stays so but *)
(* for a crash; what it still has in hand is not re-homed.                  *)
LEMMA RehomedStep ==
  ASSUME IInv, CountInv, [Next]_vars
  PROVE  /\ ~Crashes => \A p : p \in rehomed \/ Rehoming(p) => p \in rehomed' \/ Rehoming(p)'
         /\ pc' \in {"backfillPayments", "rehomedOrphan"} => pend' \cap rehomed' = {}
         /\ pc' = "rehomedOrphan" => queue'[flight'.row].ent \notin pend'
  <1> DEFINE Goal == /\ \A p : p \in rehomed \/ Rehoming(p) => p \in rehomed' \/ Rehoming(p)'
                     /\ pc' \in {"backfillPayments", "rehomedOrphan"} => pend' \cap rehomed' = {}
                     /\ pc' = "rehomedOrphan" => queue'[flight'.row].ent \notin pend'
  <1>0. /\ TypeOK /\ rehomed \subseteq Kiosk
        /\ \A i \in Rows : queue'[i].ent = queue[i].ent
    BY RowsStay DEF IInv, TypeOK
  <1>1. CASE MarkRehomed
    <2>1. /\ rehomed' = rehomed \cup {queue[flight.row].ent} /\ pend' = pend
          /\ \/ pc = "rehomedOrphan" /\ pc' = "backfillPayments"
             \/ pc' = "drain"
      BY <1>1 DEF MarkRehomed
    <2> QED BY <2>1 DEF CountInv, Rehoming
  <1>2. ASSUME rehomed' = rehomed, pc' = pc, pend' \subseteq pend, flight'.row = flight.row
        PROVE  Goal
    <2>1. PICK r : r = flight.row
      OBVIOUS
    <2>2. pc = "rehomedOrphan" => r \in Rows
      BY <1>0, <2>1, FlightRow DEF Busy
    <2>3. pc = "rehomedOrphan" => queue'[flight'.row].ent = queue[flight.row].ent
      BY <1>0, <1>2, <2>1, <2>2
    <2> QED BY <1>2, <2>3 DEF CountInv, Rehoming
  <1>3. ASSUME rehomed' = rehomed, pc # "rehomedOrphan",
               pc' \notin {"backfillPayments", "rehomedOrphan"}
        PROVE  Goal
    BY <1>3 DEF Rehoming
  <1>4. CASE ReconcileUnsyncedPayments
    <2>1. /\ pc = "backfillOrders" /\ pc' = "backfillPayments" /\ rehomed' = rehomed
          /\ pend' = {p \in Payments : OrphanPayment(p)}
      BY <1>4 DEF ReconcileUnsyncedPayments, EngineRest, local
    <2>2. pend' \cap rehomed' = {}
      BY <1>0, <2>1 DEF OrphanPayment
    <2> QED BY <2>1, <2>2 DEF Rehoming
  <1>5. ASSUME NEW p \in pend \cap Payments, BackfillPayment(p) PROVE Goal
    <2>1. PICK t \in Tasks : t = Task("payment.create", p)
      BY DEF Task, Tasks, Ops, Entities
    <2>2. Appends(t) /\ t.ent = p
      BY <1>0, <1>5, <2>1, EnqueueAppends DEF BackfillPayment, Task
    <2>3. /\ pc = "backfillPayments" /\ pend' = pend \ {p} /\ rehomed' = rehomed
          /\ \/ pc' = "rehomedOrphan" /\ flight'.row = Len(queue) + 1
             \/ pc' = pc
      BY <1>5 DEF BackfillPayment, NoFlight, EngineRest, local
    <2>4. pc' = "rehomedOrphan" => queue'[flight'.row].ent = p
      BY <2>2, <2>3 DEF Appends
    <2> QED BY <2>3, <2>4 DEF CountInv, Rehoming
  <1>6. CASE Crash
    BY <1>6 DEF Crash
  <1>7. CASE Aside \/ Ends
    <2>1. pc' = pc /\ pend' = pend /\ flight'.row = flight.row
      BY <1>7 DEF Aside, Ends
    <2> QED BY <1>1, <1>2, <2>1, RehomedGrows
  <1>8. CASE \/ (\E o \in pend \cap Orders : Cascade(o) \/ BackfillOrder(o))
             \/ (\E e \in pend : BackfillFails(e))
    <2>1. pc' = pc /\ pend' \subseteq pend /\ flight' = flight
      BY <1>8 DEF Cascade, BackfillOrder, BackfillFails
    <2> QED BY <1>1, <1>2, <2>1, RehomedGrows
  <1>9. CASE Woken \/ Tick \/ ReconcileUnsyncedOrders \/ Select \/ DrainDone \/ Handles
    <2>1. pc # "rehomedOrphan" /\ pc' \notin {"backfillPayments", "rehomedOrphan"}
      BY <1>9 DEF Woken, Tick, ReconcileUnsyncedOrders, Select, DrainDone, Handles,
        DependencyNotReady, BudgetSkip, Push, WriteBack, StampSynced, AuthRejected, DataConflict,
        BurnAttempt, DeadLetterIfExhausted, Transient, StuckOrStop, Answered, NextRow, StopCycle
    <2> QED BY <1>1, <1>3, <2>1, RehomedGrows
  <1> QED BY <1>0, <1>1, <1>4, <1>5, <1>6, <1>7, <1>8, <1>9, StepKinds DEF Sweeps

(* What a row of a payment costs: its handler, or its re-home. *)
LEMMA RowsOfStep ==
  ASSUME IInv, CountInv, [Next]_vars, NEW p \in Kiosk, IsFiniteSet(RowsOf(p))
  PROVE  \/ RowsOf(p)' = RowsOf(p)
         \/ /\ IsFiniteSet(RowsOf(p)') /\ Cardinality(RowsOf(p)') = Cardinality(RowsOf(p)) + 1
            /\ \/ ~Handled(p) /\ Handled(p)'
               \/ /\ ~(p \in rehomed \/ Rehoming(p))
                  /\ p \in rehomed' \/ Rehoming(p)'
  <1>0. /\ TypeOK /\ Len(queue) \in Nat /\ p \in Payments
        /\ \A i \in Rows : queue'[i].op = queue[i].op /\ queue'[i].ent = queue[i].ent
    BY RowsStay, SyncQueueAssumption DEF IInv
  <1>1. CASE Len(queue') = Len(queue)
    <2>1. Rows' = Rows
      BY <1>1 DEF Rows
    <2> QED BY <1>0, <2>1 DEF RowsOf, IsRow
  <1>2. ASSUME NEW t \in Tasks, Appends(t), Producer(t), TaskOK(t),
               t.op # "payment.create" \/ t.ent # p
        PROVE  RowsOf(p)' = RowsOf(p)
    <2>1. \A i : i \in Rows' <=> i \in Rows \/ i = Len(queue) + 1
      BY <1>0, <1>2 DEF Appends, Rows
    <2>2. PICK n : n = Len(queue) + 1
      OBVIOUS
    <2>3. ~(queue'[n].op = "payment.create" /\ queue'[n].ent = p)
      BY <1>2, <2>2 DEF Appends
    <2> QED BY <1>0, <2>1, <2>2, <2>3 DEF RowsOf, IsRow
  <1>3. ASSUME NEW t \in Tasks, Appends(t), Producer(t), t.op = "payment.create", t.ent = p
        PROVE  /\ IsFiniteSet(RowsOf(p)') /\ Cardinality(RowsOf(p)') = Cardinality(RowsOf(p)) + 1
               /\ \/ ~Handled(p) /\ Handled(p)'
                  \/ /\ ~(p \in rehomed \/ Rehoming(p))
                     /\ p \in rehomed' \/ Rehoming(p)'
    <2>1. PICK n : n = Len(queue) + 1
      OBVIOUS
    <2>2. \A i : i \in Rows' <=> i \in Rows \/ i = n
      BY <1>0, <1>3, <2>1 DEF Appends, Rows
    <2>3. queue'[n].op = "payment.create" /\ queue'[n].ent = p
      BY <1>3, <2>1 DEF Appends
    <2>4. n \notin Rows
      BY <1>0, <2>1 DEF Rows
    <2>5. RowsOf(p)' = RowsOf(p) \cup {n} /\ n \notin RowsOf(p)
      BY <1>0, <2>2, <2>3, <2>4 DEF RowsOf, IsRow
    <2>6. IsFiniteSet(RowsOf(p)') /\ Cardinality(RowsOf(p)') = Cardinality(RowsOf(p)) + 1
      BY <2>5, FS_AddElement
    <2>7. t = Task("payment.create", p)
      BY <1>3 DEF Tasks, Task
    <2>8. CASE HandlerEnqueue(t)
      <3>1. t \in todo /\ todo' = todo \ {t} /\ recorded' = recorded
        BY <2>8 DEF HandlerEnqueue, local
      <3>2. p \in recorded
        BY <1>0, <2>7, <3>1 DEF CountInv
      <3> QED BY <2>6, <2>7, <3>1, <3>2 DEF Handled
    <2>9. CASE BackfillPayment(p)
      <3>1. /\ pc = "backfillPayments" /\ p \in pend
            /\ pc' = "rehomedOrphan" /\ flight'.row = n
        BY <2>1, <2>9 DEF BackfillPayment, NoFlight
      <3>2. Rehoming(p)'
        BY <2>3, <3>1 DEF Rehoming
      <3>3. p \notin rehomed /\ ~Rehoming(p)
        BY <3>1 DEF CountInv, Rehoming
      <3> QED BY <2>6, <3>2, <3>3
    <2> QED BY <1>3, <2>8, <2>9 DEF Producer
  <1> QED BY <1>1, <1>2, <1>3, QueueLives DEF QueueLife

LEMMA CountKept ==
  ASSUME IInv, CountInv, [Next]_vars
  PROVE  CountInv'
  <1>1. ASSUME ~Crashes, NEW p \in Kiosk
        PROVE  /\ IsFiniteSet(RowsOf(p)')
               /\ Cardinality(RowsOf(p)') + (IF Handled(p)' THEN 0 ELSE 1)
                    + (IF p \in rehomed' \/ Rehoming(p)' THEN 0 ELSE 1) <= 2
    <2>0. p \in Payments
      BY SyncQueueAssumption
    <2>1. PICK a \in {0, 1} : a = 0 <=> Handled(p)
      OBVIOUS
    <2>2. PICK b \in {0, 1} : b = 0 <=> p \in rehomed \/ Rehoming(p)
      OBVIOUS
    <2>3. PICK c \in {0, 1} : c = 0 <=> Handled(p)'
      OBVIOUS
    <2>4. PICK d \in {0, 1} : d = 0 <=> p \in rehomed' \/ Rehoming(p)'
      OBVIOUS
    <2>5. IsFiniteSet(RowsOf(p)) /\ Cardinality(RowsOf(p)) \in Nat
      BY <1>1, FS_CardinalityType DEF CountInv
    <2>6. PICK m \in Nat : m = Cardinality(RowsOf(p))
      BY <2>5
    <2>7. m + a + b <= 2
      <3>1. /\ (IF Handled(p) THEN 0 ELSE 1) = a
            /\ (IF p \in rehomed \/ Rehoming(p) THEN 0 ELSE 1) = b
        BY <2>1, <2>2
      <3>2. Cardinality(RowsOf(p)) + (IF Handled(p) THEN 0 ELSE 1)
                                   + (IF p \in rehomed \/ Rehoming(p) THEN 0 ELSE 1) <= 2
        BY <1>1 DEF CountInv
      <3> QED BY <2>6, <3>1, <3>2
    <2>8. (a = 0 => c = 0) /\ (b = 0 => d = 0)
      BY <1>1, <2>0, <2>1, <2>2, <2>3, <2>4, TodoStep, RehomedStep
    <2>9. PICK k : k = Cardinality(RowsOf(p)')
      OBVIOUS
    <2>10. IsFiniteSet(RowsOf(p)') /\ (k = m \/ (k = m + 1 /\ ((a = 1 /\ c = 0) \/ (b = 1 /\ d = 0))))
      BY <2>1, <2>2, <2>3, <2>4, <2>5, <2>6, <2>9, RowsOfStep
    <2>11. k + c + d <= 2
      BY <2>7, <2>8, <2>10
    <2>12. /\ (IF Handled(p)' THEN 0 ELSE 1) = c
           /\ (IF p \in rehomed' \/ Rehoming(p)' THEN 0 ELSE 1) = d
      BY <2>3, <2>4
    <2> QED BY <2>9, <2>10, <2>11, <2>12
  <1>2. /\ \A p \in Payments : Task("payment.create", p) \in todo' => p \in recorded'
        /\ pc' \in {"backfillPayments", "rehomedOrphan"} => pend' \cap rehomed' = {}
        /\ pc' = "rehomedOrphan" => queue'[flight'.row].ent \notin pend'
    BY TodoStep, RehomedStep
  <1> QED BY <1>1, <1>2 DEF CountInv

-----------------------------------------------------------------------------
LEMMA InitOwner == Init => OwnerInv
  <1> SUFFICES ASSUME Init PROVE OwnerInv
    OBVIOUS
  <1>1. /\ IInv /\ queue = <<>> /\ Rows = {} /\ CloudIds = {} /\ pc = "idle" /\ batch = {}
        /\ flight = NoFlight /\ todo = {} /\ rehomed = {} /\ recorded = {}
    BY InitEstablishes, EmptySeq DEF Init, CloudInit, CloudIds, Rows
  <1>2. LifeInv /\ DrainInv /\ AnswerInv
    BY <1>1 DEF Init, LifeInv, DrainInv, AnswerInv, RefusalInv, Draining, Busy, NoFlight
  <1>3. ExhaustInv /\ StampedPayment /\ StampedOrder /\ SyncedInv /\ RehomedInv /\ PlacedInv
    BY <1>1 DEF ExhaustInv, ExhaustedIsSurfaced, StampedPayment, StampedOrder, SyncedInv,
       RehomedInv, PlacedInv, Unsynced
  <1>4. \A p \in Kiosk : RowsOf(p) = {}
    BY <1>1 DEF RowsOf
  <1>5. IsFiniteSet({}) /\ Cardinality({}) = 0
    BY FS_EmptySet
  <1>6. ASSUME NEW p \in Kiosk
        PROVE  /\ IsFiniteSet(RowsOf(p))
               /\ Cardinality(RowsOf(p)) + (IF Handled(p) THEN 0 ELSE 1)
                                         + (IF p \in rehomed \/ Rehoming(p) THEN 0 ELSE 1) <= 2
    <2>1. PICK a \in {0, 1} : a = IF Handled(p) THEN 0 ELSE 1
      OBVIOUS
    <2>2. PICK b \in {0, 1} : b = IF p \in rehomed \/ Rehoming(p) THEN 0 ELSE 1
      OBVIOUS
    <2>3. 0 + a + b <= 2
      OBVIOUS
    <2> QED BY <1>4, <1>5, <2>1, <2>2, <2>3
  <1>7. CountInv
    BY <1>1, <1>6 DEF CountInv
  <1> QED BY <1>1, <1>2, <1>3, <1>7 DEF OwnerInv

LEMMA StepOwner == OwnerInv /\ [Next]_vars => OwnerInv'
  <1> SUFFICES ASSUME OwnerInv, [Next]_vars PROVE OwnerInv'
    OBVIOUS
  <1>1. IInv' /\ LifeInv' /\ DrainInv' /\ AnswerInv' /\ ExhaustInv'
    BY StepKeeps, LifeKept, DrainKept, AnswerKept, ExhaustKept DEF OwnerInv
  <1>2. StampedPayment' /\ StampedOrder' /\ SyncedInv' /\ RehomedInv' /\ PlacedInv' /\ CountInv'
    BY StampedPaymentKept, StampedOrderKept, SyncedKept, RehomedKept, PlacedKept, CountKept
      DEF OwnerInv
  <1> QED BY <1>1, <1>2 DEF OwnerInv

(***************************************************************************)
(* How far each row has come and what the engine has in hand, as OwnerInv  *)
(* says it, holds in every reachable state.                                *)
(***************************************************************************)
THEOREM Ownership == Spec => []OwnerInv
  BY InitOwner, StepOwner, PTL DEF Spec

(***************************************************************************)
(* A row that has burned its attempts is on the recovery page (comment of  *)
(* deadLetterIfExhausted), unless the process can die between the two      *)
(* statements that burn and dead-letter.                                   *)
(***************************************************************************)
THEOREM ExhaustedRowsSurface == BurnSurvives => (Spec => []ExhaustedIsSurfaced)
  <1>1. BurnSurvives /\ OwnerInv => ExhaustedIsSurfaced
    BY DEF OwnerInv, ExhaustInv
  <1>2. BurnSurvives => BurnSurvives'
    BY DEF BurnSurvives
  <1> QED BY <1>1, <1>2, Ownership, PTL

(* An unsynced row that was not recovered is in somebody's hands. *)
LEMMA PendingIsOwned ==
  ASSUME OwnerInv, BurnSurvives, NEW i \in Rows, NEW op, NEW e, IsRow(i, op, e), Pending(i)
  PROVE  Owned(op, e)
  <1>1. /\ queue[i].attempts \in Nat /\ MaxAttempts \in Nat
        /\ queue[i].resolution \in {"no", "discarded", "recovered"}
    BY RowTyped, SyncQueueAssumption DEF OwnerInv, IInv
  <1>2. CASE queue[i].attempts < MaxAttempts
    BY <1>1, <1>2 DEF Pending, Owned, Active, Surfaced
  <1>3. CASE queue[i].attempts >= MaxAttempts
    <2>1. queue[i].dead # "no" \/ (pc = "exhaust" /\ flight.row = i)
      BY <1>3 DEF OwnerInv, ExhaustInv, ExhaustedIsSurfaced, Pending
    <2> QED BY <1>1, <2>1 DEF Pending, Owned, Surfaced
  <1> QED BY <1>1, <1>2, <1>3

(***************************************************************************)
(* No order is stranded between the workstation and Cloud: while Cloud's   *)
(* id for it is not known here, a handler or a recover call is at work, a  *)
(* row will be pushed or shows on the recovery page, or the reconciler     *)
(* will queue one.                                                         *)
(***************************************************************************)
THEOREM OrdersAreOwned == BurnSurvives /\ RecoverCompletes => (Spec => []NoOrderStranded)
  <1>1. BurnSurvives /\ RecoverCompletes /\ OwnerInv => NoOrderStranded
    <2> SUFFICES ASSUME BurnSurvives, RecoverCompletes, OwnerInv, NEW o \in known,
                        orderCloud[o] = 0, recovering[o] = "no"
                 PROVE  Owned("order.create", o) \/ OrphanOrder(o)
      BY DEF NoOrderStranded
    <2>1. CASE Unsynced("order.create", o)
      <3>1. o \in Orders
        BY DEF OwnerInv, IInv, TypeOK
      <3>2. PICK i \in Rows : IsRow(i, "order.create", o) /\ Pending(i)
        BY <2>1, <3>1 DEF OwnerInv, PlacedInv
      <3> QED BY <3>2, PendingIsOwned
    <2>2. CASE ~Unsynced("order.create", o)
      BY <2>2 DEF OrphanOrder
    <2> QED BY <2>1, <2>2
  <1>2. BurnSurvives /\ RecoverCompletes => (BurnSurvives /\ RecoverCompletes)'
    BY DEF BurnSurvives, RecoverCompletes
  <1> QED BY <1>1, <1>2, Ownership, PTL

(***************************************************************************)
(* No recorded payment is stranded, whatever crashes: while it has no      *)
(* cloud_id it is in a handler's hands, has a row that will be pushed or   *)
(* is shown on the recovery page, or the reconciler still takes it.  At a  *)
(* kiosk this needs that nobody closes its order on Cloud: a re-homed      *)
(* payment refused by a 409 is synced, without an id, and never re-queued. *)
(***************************************************************************)
THEOREM PaymentsAreOwned ==
  BurnSurvives /\ (Kiosk = {} \/ NothingCloses) => (Spec => []NoPaymentStranded)
  <1>1. BurnSurvives /\ (Kiosk = {} \/ NothingCloses) /\ OwnerInv => NoPaymentStranded
    <2> SUFFICES ASSUME BurnSurvives, Kiosk = {} \/ NothingCloses, OwnerInv, NEW p \in recorded,
                        payCloud[p] = 0
                 PROVE  \/ Owned("payment.create", p)
                        \/ ~Unsynced("payment.create", p) /\ p \notin rehomed
      BY DEF NoPaymentStranded
    <2>1. CASE Unsynced("payment.create", p)
      <3>1. PICK i \in Rows : IsRow(i, "payment.create", p) /\ ~queue[i].synced
        BY <2>1 DEF Unsynced
      <3>2. Pending(i)
        BY <3>1 DEF OwnerInv, LifeInv, IsRow, Pending
      <3> QED BY <3>1, <3>2, PendingIsOwned
    <2>2. CASE ~Unsynced("payment.create", p)
      <3>1. p \notin rehomed
        BY <2>2 DEF OwnerInv, RehomedInv, Answers, TurnedAway, NothingCloses, IInv, TypeOK
      <3> QED BY <2>2, <3>1
    <2> QED BY <2>1, <2>2
  <1>2. BurnSurvives /\ (Kiosk = {} \/ NothingCloses)
          => (BurnSurvives /\ (Kiosk = {} \/ NothingCloses))'
    BY DEF BurnSurvives, NothingCloses
  <1> QED BY <1>1, <1>2, Ownership, PTL

(***************************************************************************)
(* synced_at on a payment.create row means that Cloud booked the payment,  *)
(* or that another channel settled or Cloud lost its order: the 409 that   *)
(* cloudPost takes for a replay is the only stamp without a booking,       *)
(* whatever times out, is refused, arrives late, crashes or is recovered.  *)
(***************************************************************************)
THEOREM SyncedIsBooked == Spec => []SyncedMeansBooked
  <1>1. OwnerInv => SyncedMeansBooked
    <2> SUFFICES ASSUME OwnerInv, NEW i \in Rows, PaymentRow(i), queue[i].synced,
                        NEW p, p = queue[i].ent
                 PROVE  Booked(p) \/ OrderIs("gone", p) \/ OrderIs("closed", p)
      BY DEF SyncedMeansBooked
    <2>1. p \in Payments
      BY DEF OwnerInv, IInv, WellFormed, RowOK, TaskOK, PaymentRow
    <2>2. Answers(p)
      BY DEF OwnerInv, SyncedInv, PaymentRow
    <2>3. CASE TurnedAway(p)
      BY <2>3 DEF TurnedAway
    <2>4. CASE payCloud[p] # 0
      <3>1. Paid(p, payCloud[p]) /\ Names(payCloud[p], OrderOf[p])
        BY <2>1, <2>4 DEF OwnerInv, IInv, PaidInv, IdsInv
      <3> QED BY <2>4, <3>1 DEF Paid, Names, BookedOn, Booked, OrderIs
    <2> QED BY <2>2, <2>3, <2>4 DEF Answers
  <1> QED BY <1>1, Ownership, PTL

(***************************************************************************)
(* A kiosk payment never gets a third payment.create row, whatever Cloud   *)
(* answers and however often the reconciler and the drain re-home it, on a *)
(* workstation that does not die between the row and its mark.             *)
(***************************************************************************)
THEOREM KioskRowsAreTwo == ~Crashes => (Spec => []KioskRowsBounded)
  <1>1. ~Crashes /\ OwnerInv => KioskRowsBounded
    <2> SUFFICES ASSUME ~Crashes, OwnerInv, NEW p \in Kiosk
                 PROVE  Cardinality(RowsOf(p)) <= 2
      BY DEF KioskRowsBounded, RowsOf
    <2>1. Cardinality(RowsOf(p)) \in Nat
      BY FS_CardinalityType DEF OwnerInv, CountInv
    <2>2. PICK a \in {0, 1} : a = IF Handled(p) THEN 0 ELSE 1
      OBVIOUS
    <2>3. PICK b \in {0, 1} : b = IF p \in rehomed \/ Rehoming(p) THEN 0 ELSE 1
      OBVIOUS
    <2>4. Cardinality(RowsOf(p)) + a + b <= 2
      BY <2>2, <2>3 DEF OwnerInv, CountInv
    <2> QED BY <2>1, <2>4
  <1>2. (~Crashes) => (~Crashes)'
    OBVIOUS
  <1> QED BY <1>1, <1>2, Ownership, PTL
=============================================================================

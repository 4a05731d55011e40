------------------------- MODULE CashMachine_proofs -------------------------
(***************************************************************************)
(* Proofs about CashMachine, for every set of orders, every total, every   *)
(* batch size and any number of sessions, faults and crashes.              *)
(*                                                                         *)
(* IInv holds whatever fails.  OwnInv adds what the stamp of a row is for: *)
(* a row carries the transaction its own session started.  As              *)
(* stampRunningCashSession finds the row by recency, that needs that a     *)
(* row is there for every session, or that no row of an earlier one is     *)
(* still open: of the two writes at most one may fail.  CashInv says where *)
(* the cash is, or who knows, whatever fails but the return of the cash.   *)
(***************************************************************************)
EXTENDS CashMachine, SumFacts, SequenceTheorems, TLAPS

HasTxn == {"stamp", "poll", "record", "insert", "lifecycle"}

(* What the goroutine works on, and what a cancel may name, exists. *)
JobInv ==
  /\ active.session \in 0..Len(sessions)
  /\ pc # "idle" => job.session \in Rows
  /\ pc \in HasTxn => job.txn \in Txns
  /\ pc = "insert" => BookedAs(job.txn) = {}

(* A session starts one transaction at most; what a row or a transaction   *)
(* refers to exists.                                                       *)
BoundsInv ==
  /\ Len(txns) <= Len(sessions) /\ Len(sessions) <= MaxSessions
  /\ pc = "start" => Len(txns) < Len(sessions)
  /\ \A t \in Txns : txns[t].session \in Rows /\ txns[t].amount \in 1..Total
  /\ \A s \in Rows : sessions[s].amount \in 1..Total /\ sessions[s].txn \in 0..Len(txns)

IInv == TypeOK /\ JobInv /\ BoundsInv /\ BookedOnce

(* The row is written before the machine is started, by the one goroutine. *)
PhaseInv ==
  /\ pc \in {"start", "stamp", "poll", "ledger", "report"} => phase = "serving"
  /\ phase = "down" => pc = "idle"
  /\ phase = "serving" /\ pc # "idle" => active.running /\ job.session = Len(sessions)
  /\ pc \in {"start", "stamp"} => /\ sessions[job.session].txn = 0
                                  /\ sessions[job.session].outcome = "none"

Working == {"start", "stamp", "poll", "record", "insert", "lifecycle", "resolve"}

StoredInv == "insert" \notin Faults => \A s \in Rows : sessions[s].stored

OpenInv == "resolve" \notin Faults =>
  /\ phase = "serving" => \A s \in Unresolved : pc \in Working /\ s = job.session
  /\ phase = "boot" => Unresolved \subseteq todo

OneWriteFails == "insert" \notin Faults \/ "resolve" \notin Faults

OwnInv ==
  /\ pc \in {"record", "insert"} => txns[job.txn].status = "finish"
  /\ OneWriteFails => /\ pc \in HasTxn => txns[job.txn].session = job.session
                      /\ \A s \in Rows : sessions[s].txn # 0 => txns[sessions[s].txn].session = s
                      /\ BookedRight

(* Nobody need ask any more about the cash of t, or somebody will: it is   *)
(* the goroutine's, or the row's that the boot asks about.                 *)
Accounted(t) ==
  txns[t].status = "cancel" \/ BookedAs(t) # {} \/ Alerted(t) \/ ~sessions[txns[t].session].stored

OpenRow(t) == txns[t].session \in Unresolved /\ sessions[txns[t].session].txn \in {0, t}

Entrusted(t) ==
  \/ phase = "down"
  \/ phase = "boot" /\ txns[t].session \in todo
  \/ phase = "serving" /\ pc \in {"stamp", "poll", "record", "insert"} /\ job.txn = t

CashInv == "uncancelled" \notin Faults =>
  /\ \A t \in Txns : Accounted(t) \/ (OpenRow(t) /\ Entrusted(t))
  /\ pc = "start" => job.txn = 0
  /\ phase = "boot" /\ pc # "idle" => /\ job.txn = sessions[job.session].txn /\ job.txn # 0
                                      /\ job.session \in todo
  /\ pc \in {"lifecycle", "resolve"} /\ job.txn # 0 => job.txn \in Txns /\ Accounted(job.txn)

SafeInv == IInv /\ PhaseInv /\ StoredInv /\ OpenInv /\ OwnInv /\ CashInv

-----------------------------------------------------------------------------
(* Sequences as functions. *)

LEMMA SeqIsFunction ==
  ASSUME NEW S, NEW q \in Seq(S)
  PROVE  Len(q) \in Nat /\ q \in [1..Len(q) -> S]
  BY LenProperties

LEMMA Appended ==
  ASSUME NEW S, NEW q \in Seq(S), NEW e \in S
  PROVE  /\ Append(q, e) \in Seq(S) /\ Len(Append(q, e)) = Len(q) + 1
         /\ \A i \in 1..Len(q) : Append(q, e)[i] = q[i]
         /\ Append(q, e)[Len(q) + 1] = e
  BY AppendProperties

LEMMA Rewritten ==
  ASSUME NEW S, NEW q \in Seq(S), NEW r \in [1..Len(q) -> S]
  PROVE  r \in Seq(S) /\ Len(r) = Len(q)
  <1>1. Len(q) \in Nat
    BY LenProperties
  <1> QED BY <1>1, SeqDef

LEMMA Typed ==
  ASSUME TypeOK
  PROVE  /\ Len(txns) \in Nat /\ txns \in [Txns -> Txn]
         /\ Len(sessions) \in Nat /\ sessions \in [Rows -> Row]
         /\ Len(payments) \in Nat /\ payments \in [PaymentIds -> Payment]
  BY SeqIsFunction DEF TypeOK, Txns, Rows, PaymentIds

-----------------------------------------------------------------------------
(* The machine: transactions are added, keep their amount and session, and *)
(* end once.                                                               *)

TxnsMove ==
  /\ txns' \in Seq(Txn) /\ Len(txns') >= Len(txns)
  /\ \A t \in Txns : /\ txns'[t].amount = txns[t].amount
                     /\ txns'[t].session = txns[t].session
                     /\ txns[t].status \in Terminal => txns'[t].status = txns[t].status

LEMMA TxnsUntouched ==
  ASSUME TypeOK, txns' = txns
  PROVE  TxnsMove /\ Len(txns') = Len(txns)
  BY Typed DEF TypeOK, TxnsMove

LEMMA StatusSet ==
  ASSUME TypeOK, NEW t \in Txns, NEW to \in Statuses,
         txns[t].status \notin Terminal, txns' = [txns EXCEPT ![t].status = to]
  PROVE  /\ TxnsMove /\ Len(txns') = Len(txns) /\ txns'[t].status = to
         /\ \A u \in Txns \ {t} : txns'[u] = txns[u]
  <1>1. txns' \in [Txns -> Txn]
    BY Typed DEF Txn
  <1>2. txns' \in Seq(Txn) /\ Len(txns') = Len(txns)
    BY <1>1, Rewritten DEF TypeOK, Txns
  <1> QED BY <1>1, <1>2, Typed DEF TxnsMove, Txn

LEMMA ReturnedMove ==
  ASSUME TypeOK, txns' = Returned
  PROVE  /\ TxnsMove /\ Len(txns') = Len(txns)
         /\ \A t \in Txns : txns'[t].status \in {txns[t].status, "cancel"}
  <1>1. txns' \in [Txns -> Txn]
    BY Typed DEF Txn, Returned, Statuses, Terminal
  <1>2. txns' \in Seq(Txn) /\ Len(txns') = Len(txns)
    BY <1>1, Rewritten DEF TypeOK, Txns
  <1>3. \A t \in Txns : /\ txns'[t].amount = txns[t].amount
                        /\ txns'[t].session = txns[t].session
                        /\ txns[t].status \in Terminal => txns'[t].status = txns[t].status
                        /\ txns'[t].status \in {txns[t].status, "cancel"}
    BY Typed DEF Txn, Returned, Terminal
  <1> QED BY <1>2, <1>3, Typed DEF TxnsMove

LEMMA StartMove ==
  ASSUME IInv, StartTransaction
  PROVE  /\ TxnsMove /\ Len(txns') = Len(txns) + 1
         /\ \A t \in Txns : txns'[t] = txns[t]
         /\ txns'[Len(txns) + 1] = NewTxn
         /\ NewTxn \in Txn /\ NewTxn.session = job.session /\ NewTxn.status = "deposit"
         /\ NewTxn.amount = sessions[job.session].amount
  <1>1. job.session \in Rows
    BY DEF IInv, JobInv, StartTransaction
  <1>2. NewTxn \in Txn
    BY <1>1, Typed DEF IInv, NewTxn, Txn, Row, Statuses, Rows
  <1>3. txns' = Append(txns, NewTxn)
    BY DEF StartTransaction
  <1>4. /\ txns' \in Seq(Txn) /\ Len(txns') = Len(txns) + 1
        /\ \A t \in Txns : txns'[t] = txns[t]
        /\ txns'[Len(txns) + 1] = NewTxn
    BY <1>2, <1>3, Appended DEF IInv, TypeOK, Txns
  <1> QED BY <1>2, <1>4, Typed DEF IInv, TxnsMove, NewTxn

-----------------------------------------------------------------------------
(* The rows: they are added, keep what was asked for, and are closed once. *)

Outcomes == {"recorded", "returned", "retained", "unknown"}

Kept(r, old) ==
  /\ r.order = old.order /\ r.amount = old.amount /\ r.stored = old.stored
  /\ old.outcome # "none" => r.outcome = old.outcome

RowsMove ==
  /\ sessions' \in Seq(Row) /\ Len(sessions') >= Len(sessions)
  /\ \A s \in Rows : Kept(sessions'[s], sessions[s])

LEMMA RowsUntouched ==
  ASSUME TypeOK, sessions' = sessions
  PROVE  RowsMove /\ Len(sessions') = Len(sessions) /\ \A s \in Rows : sessions'[s] = sessions[s]
  BY Typed DEF TypeOK, RowsMove, Kept

LEMMA RowsRewritten ==
  ASSUME TypeOK, sessions' \in [Rows -> Row], \A s \in Rows : Kept(sessions'[s], sessions[s])
  PROVE  RowsMove /\ Len(sessions') = Len(sessions)
  <1>1. sessions' \in Seq(Row) /\ Len(sessions') = Len(sessions)
    BY Rewritten DEF TypeOK, Rows
  <1> QED BY <1>1, Typed DEF RowsMove

LEMMA SettleMove ==
  ASSUME TypeOK, NEW s \in Rows, NEW outcome \in Outcomes, sessions' = Settle(s, outcome)
  PROVE  /\ RowsMove /\ Len(sessions') = Len(sessions)
         /\ \A r \in Rows : /\ sessions'[r].txn = sessions[r].txn
                            /\ r # s => sessions'[r] = sessions[r]
         /\ sessions[s].stored => sessions'[s].outcome # "none"
  <1>4. /\ [sessions[s] EXCEPT !.outcome = outcome] \in Row
        /\ sessions \in [Rows -> Row]
    BY Typed DEF Row, Outcomes
  <1> DEFINE row == [sessions[s] EXCEPT !.outcome = outcome]
  <1>5. \/ sessions' = [sessions EXCEPT ![s] = row]
        \/ sessions' = sessions
    BY <1>4 DEF Settle
  <1>1. sessions' \in [Rows -> Row]
    <2> HIDE DEF row
    <2>1. row \in Row
      BY <1>4 DEF row
    <2> QED BY <1>4, <1>5, <2>1
  <1>2. \A r \in Rows : /\ Kept(sessions'[r], sessions[r])
                        /\ sessions'[r].txn = sessions[r].txn
                        /\ r # s => sessions'[r] = sessions[r]
    BY Typed DEF Settle, Row, Kept
  <1>3. sessions[s].stored => sessions'[s].outcome # "none"
    BY Typed DEF Settle, Row, Outcomes
  <1> QED BY <1>1, <1>2, <1>3, RowsRewritten

LEMMA StampMove ==
  ASSUME TypeOK, pc = "stamp", job.txn \in Nat, StampTransaction
  PROVE  /\ RowsMove /\ Len(sessions') = Len(sessions)
         /\ \/ sessions' = sessions
            \/ \E s \in Stampable :
                 /\ \A r \in Stampable : r <= s
                 /\ sessions'[s].txn = job.txn
                 /\ sessions'[s].outcome = "none" /\ sessions'[s].stored
                 /\ \A r \in Rows \ {s} : sessions'[r] = sessions[r]
  <1>1. CASE sessions' = sessions
    BY <1>1, RowsUntouched
  <1>2. CASE sessions' # sessions
    <2>1. PICK s \in Stampable : /\ \A r \in Stampable : r <= s
                                 /\ sessions' = [sessions EXCEPT ![s].txn = job.txn]
      BY <1>2 DEF StampTransaction
    <2>2. s \in Rows /\ sessions[s].stored /\ sessions[s].outcome = "none"
      BY DEF Stampable
    <2>3. sessions' \in [Rows -> Row]
      BY <2>1, <2>2, Typed DEF Row
    <2>4. \A r \in Rows : Kept(sessions'[r], sessions[r]) /\ (r # s => sessions'[r] = sessions[r])
      BY <2>1, <2>2, Typed DEF Row, Kept
    <2>5. /\ sessions'[s].txn = job.txn
          /\ sessions'[s].outcome = "none" /\ sessions'[s].stored
      BY <2>1, <2>2, Typed DEF Row
    <2> QED BY <2>1, <2>2, <2>3, <2>4, <2>5, RowsRewritten
  <1> QED BY <1>1, <1>2

LEMMA LedgerWritten ==
  ASSUME NEW old \in Row, NEW status \in Shown, NEW device \in BOOLEAN
  PROVE  [old EXCEPT !.ledger = status, !.device = device, !.synced = FALSE] \in Row
  BY DEF Row

LEMMA LedgerMove ==
  ASSUME TypeOK, job.session \in Rows, RecordMachineLedger
  PROVE  /\ RowsMove /\ Len(sessions') = Len(sessions)
         /\ \A s \in Rows : /\ sessions'[s].txn = sessions[s].txn
                            /\ sessions'[s].outcome = sessions[s].outcome
  <1>1. job.status \in Shown
    BY DEF TypeOK, Job
  <1>4. PICK device \in BOOLEAN :
          sessions' = IF job.status # "none" /\ sessions[job.session].stored
                      THEN Written(job.session, job.status, device) ELSE sessions
    BY DEF RecordMachineLedger
  <1> DEFINE row == [sessions[job.session] EXCEPT
                      !.ledger = job.status, !.device = device, !.synced = FALSE]
  <1>5. row \in Row
    BY <1>1, Typed, LedgerWritten
  <1>6. /\ Kept(row, sessions[job.session])
        /\ row.txn = sessions[job.session].txn /\ row.outcome = sessions[job.session].outcome
    BY Typed DEF Row, Kept
  <1>7. \/ sessions' = [sessions EXCEPT ![job.session] = row]
        \/ sessions' = sessions
    BY <1>4, Typed DEF Written
  <1> HIDE DEF row
  <1>2. sessions' \in [Rows -> Row]
    BY <1>5, <1>7, Typed
  <1>3. \A s \in Rows : /\ Kept(sessions'[s], sessions[s])
                        /\ sessions'[s].txn = sessions[s].txn
                        /\ sessions'[s].outcome = sessions[s].outcome
    BY <1>6, <1>7, Typed DEF Kept
  <1> QED BY <1>2, <1>3, RowsRewritten

(* What the sync loop leaves alone, whatever answers it gets. *)
LEMMA SyncUpAside ==
  ASSUME SyncUp
  PROVE  /\ UNCHANGED <<machine, payments, closed, alerts, pc, job, process, crashes>>
         /\ faults' = faults \/ faults' = faults + 1
         /\ phase = "serving"
         /\ \E taken, stamped \in SUBSET Batch : Pushed(taken, stamped)
  <1>1. \E taken, stamped \in SUBSET Batch : Pushed(taken, stamped)
    BY DEF SyncUp, Push, IntakeFails, PushUnanswered
  <1>2. faults' = faults \/ faults' = faults + 1
    BY DEF SyncUp, Push, IntakeFails, PushUnanswered, Strikes
  <1> QED BY <1>1, <1>2 DEF Pushed

LEMMA PushMove ==
  ASSUME TypeOK, SyncUp
  PROVE  /\ RowsMove /\ Len(sessions') = Len(sessions)
         /\ \A s \in Rows : /\ sessions'[s].txn = sessions[s].txn
                            /\ sessions'[s].outcome = sessions[s].outcome
  <1>3. PICK taken \in SUBSET Batch, stamped \in SUBSET Batch : Pushed(taken, stamped)
    BY SyncUpAside
  <1>4. sessions' = [s \in Rows |->
          [sessions[s] EXCEPT !.held = sessions[s].held \/ s \in taken,
                              !.synced = sessions[s].synced \/ s \in stamped]]
    BY <1>3, Typed DEF Pushed, Row
  <1>5. ASSUME NEW s \in Rows
        PROVE  /\ sessions'[s] \in Row /\ Kept(sessions'[s], sessions[s])
               /\ sessions'[s].txn = sessions[s].txn
               /\ sessions'[s].outcome = sessions[s].outcome
    <2> DEFINE held == sessions[s].held \/ s \in taken
               synced == sessions[s].synced \/ s \in stamped
    <2>1. sessions'[s] = [sessions[s] EXCEPT !.held = held, !.synced = synced]
      BY <1>4
    <2>2. held \in BOOLEAN /\ synced \in BOOLEAN
      BY Typed DEF Row
    <2>3. sessions[s] \in Row
      BY Typed
    <2> HIDE DEF held, synced
    <2> QED BY <2>1, <2>2, <2>3 DEF Row, Kept
  <1>1. sessions' \in [Rows -> Row]
    BY <1>4, <1>5
  <1>2. \A s \in Rows : /\ Kept(sessions'[s], sessions[s])
                        /\ sessions'[s].txn = sessions[s].txn
                        /\ sessions'[s].outcome = sessions[s].outcome
    BY <1>5
  <1> QED BY <1>1, <1>2, RowsRewritten

NewRow(o, amount, stored) ==
  [order |-> o, amount |-> amount, stored |-> stored, txn |-> 0, outcome |-> "none",
   ledger |-> "none", device |-> FALSE, synced |-> FALSE, held |-> FALSE]

LEMMA BeginMove ==
  ASSUME TypeOK, NEW o \in Orders, NEW amount \in 1..Total, Begin(o, amount)
  PROVE  /\ RowsMove /\ Len(sessions') = Len(sessions) + 1
         /\ \A s \in Rows : sessions'[s] = sessions[s]
         /\ \E stored \in BOOLEAN : /\ sessions'[Len(sessions) + 1] = NewRow(o, amount, stored)
                                    /\ ~stored => Strikes("insert")
  <1>1. PICK stored \in BOOLEAN : /\ sessions' = Append(sessions, NewRow(o, amount, stored))
                                  /\ ~stored => Strikes("insert")
    BY DEF Begin, NewRow
  <1>2. NewRow(o, amount, stored) \in Row
    BY CashMachineAssumption DEF NewRow, Row, Shown
  <1>3. /\ sessions' \in Seq(Row) /\ Len(sessions') = Len(sessions) + 1
        /\ \A s \in Rows : sessions'[s] = sessions[s]
        /\ sessions'[Len(sessions) + 1] = NewRow(o, amount, stored)
    BY <1>1, <1>2, Appended DEF TypeOK, Rows
  <1> QED BY <1>1, <1>3, Typed DEF RowsMove, Kept

-----------------------------------------------------------------------------
(* The payments: they are added. *)

LEMMA OtherPaymentMove ==
  ASSUME TypeOK, NEW o \in Orders, NEW amount \in 1..Total, OtherPayment(o, amount)
  PROVE  /\ payments' \in Seq(Payment) /\ Len(payments') = Len(payments) + 1
         /\ \A p \in PaymentIds : payments'[p] = payments[p]
         /\ payments'[Len(payments) + 1].txn = 0
  <1> DEFINE e == [order |-> o, amount |-> amount, txn |-> 0]
  <1>1. e \in Payment /\ e.txn = 0
    BY CashMachineAssumption DEF Payment
  <1>2. payments' = Append(payments, e)
    BY DEF OtherPayment
  <1> HIDE DEF e
  <1> QED BY <1>1, <1>2, Appended DEF TypeOK, PaymentIds

LEMMA InsertMove ==
  ASSUME IInv, InsertPayment
  PROVE  /\ payments' \in Seq(Payment) /\ Len(payments') = Len(payments) + 1
         /\ \A p \in PaymentIds : payments'[p] = payments[p]
         /\ payments'[Len(payments) + 1] =
              [order |-> OrderOfJob, amount |-> AmountOfJob, txn |-> job.txn]
  <1> DEFINE e == [order |-> OrderOfJob, amount |-> AmountOfJob, txn |-> job.txn]
  <1>1. job.session \in Rows /\ job.txn \in Txns
    BY DEF IInv, JobInv, InsertPayment, HasTxn
  <1>2. e \in Payment
    BY <1>1, Typed DEF IInv, Payment, OrderOfJob, AmountOfJob, Row, Txn, Txns
  <1>3. payments' = Append(payments, e)
    BY DEF InsertPayment
  <1> HIDE DEF e
  <1>4. /\ payments' \in Seq(Payment) /\ Len(payments') = Len(payments) + 1
        /\ \A p \in PaymentIds : payments'[p] = payments[p]
        /\ payments'[Len(payments) + 1] = e
    BY <1>2, <1>3, Appended DEF IInv, TypeOK, PaymentIds
  <1> QED BY <1>4 DEF e

-----------------------------------------------------------------------------
(* What a step does to each of the three tables. *)

TxnsNext ==
  /\ TxnsMove
  /\ \/ Len(txns') = Len(txns)
     \/ /\ pc = "start" /\ pc' # "start" /\ sessions' = sessions
        /\ Len(txns') = Len(txns) + 1
        /\ txns'[Len(txns) + 1].session = job.session
        /\ txns'[Len(txns) + 1].amount = sessions[job.session].amount
        /\ txns'[Len(txns) + 1].status = "deposit"

LEMMA TxnsStep ==
  ASSUME IInv, [Next]_vars
  PROVE  TxnsNext
  <1> USE DEF TxnsNext
  <1>0. TypeOK
    BY DEF IInv
  <1>1. CASE txns' = txns
    BY <1>0, <1>1, TxnsUntouched
  <1>2. ASSUME NEW t \in Txns,
               \/ CustomerPays(t) \/ DepositTimeout(t) \/ Dispensed(t)
               \/ PowerLoss(t) \/ DispenseFails(t)
        PROVE  TxnsNext
    <2>1. \E to \in Statuses : txns[t].status \notin Terminal /\ txns' = [txns EXCEPT ![t].status = to]
      BY <1>2 DEF CustomerPays, DepositTimeout, Dispensed, PowerLoss, DispenseFails, Becomes,
                  Statuses, Terminal
    <2> QED BY <1>0, <2>1, StatusSet
  <1>3. CASE StartTransaction
    <2>1. sessions' = sessions /\ pc = "start" /\ pc' # "start"
      BY <1>3 DEF StartTransaction, Fail, table
    <2> QED BY <1>3, <2>1, StartMove
  <1>4. CASE PollFixes
    <2>1. job.txn \in Txns /\ txns[job.txn].status \notin Terminal
      BY <1>4 DEF IInv, JobInv, HasTxn, PollFixes, Seen, Terminal
    <2>2. "dispense" \in Statuses
      BY DEF Statuses
    <2> QED BY <1>0, <1>4, <2>1, <2>2, StatusSet DEF PollFixes
  <1>5. CASE txns' = Returned
    BY <1>0, <1>5, ReturnedMove
  <1> QED BY <1>1, <1>2, <1>3, <1>4, <1>5
    DEF Next, Bridge, MachineStep, CollectStep, BootStep, Poll, Record, vars, machine, table,
        process, CancelSession, CancelArrives, Begin, OtherPayment, StartRefused,
        StampTransaction, PollEnded, PollWaits, ChangeShortage, PollFails, RecordReplay,
        RecordCheck, RecordFails, InsertPayment, OrderLifecycle, ResolveSession,
        RecordMachineLedger, Report, SyncUp, Push, IntakeFails, PushUnanswered, Pushed, Crash,
        Boot, Reconcile, ReconcileUnreachable, ReconcileUnfinished, ReconcileFinished,
        ReconcileSettles, Serve

RowsNext ==
  /\ RowsMove
  /\ \/ /\ Len(sessions') = Len(sessions)
        /\ pc' = "start" => pc = "start"
     \/ /\ pc' = "start" /\ Len(sessions) < MaxSessions /\ txns' = txns
        /\ Len(sessions') = Len(sessions) + 1
        /\ sessions'[Len(sessions) + 1].amount \in 1..Total
        /\ sessions'[Len(sessions) + 1].txn = 0
  /\ \A s \in Rows : \/ sessions'[s].txn = sessions[s].txn
                     \/ /\ pc = "stamp" /\ sessions'[s].txn = job.txn /\ txns' = txns
                        /\ s \in Stampable /\ \A r \in Stampable : r <= s

LEMMA RowsStep ==
  ASSUME IInv, [Next]_vars
  PROVE  RowsNext
  <1> USE DEF RowsNext
  <1>0. TypeOK
    BY DEF IInv
  <1>1. CASE sessions' = sessions /\ (pc' = "start" => pc = "start")
    BY <1>0, <1>1, RowsUntouched
  <1>2. ASSUME NEW o \in Orders, NEW amount \in 1..Total, Begin(o, amount)
        PROVE  RowsNext
    <2>1. pc' = "start" /\ txns' = txns /\ Len(sessions) < MaxSessions
      BY <1>2 DEF Begin, machine
    <2>2. \E stored \in BOOLEAN : sessions'[Len(sessions) + 1] = NewRow(o, amount, stored)
      BY <1>0, <1>2, BeginMove
    <2>3. /\ RowsMove /\ Len(sessions') = Len(sessions) + 1
          /\ \A s \in Rows : sessions'[s] = sessions[s]
      BY <1>0, <1>2, BeginMove
    <2> QED BY <2>1, <2>2, <2>3 DEF NewRow
  <1>3. CASE StampTransaction
    <2>1. pc = "stamp" /\ pc' = "poll" /\ txns' = txns /\ job.txn \in Nat
      BY <1>0, <1>3 DEF StampTransaction, TypeOK, Job, machine
    <2> QED BY <1>0, <1>3, <2>1, StampMove
  <1>4. CASE RecordMachineLedger
    <2>1. job.session \in Rows /\ pc' # "start"
      BY <1>4 DEF RecordMachineLedger, IInv, JobInv
    <2> QED BY <1>0, <1>4, <2>1, LedgerMove
  <1>5. CASE SyncUp
    <2>1. pc' = pc
      BY <1>5, SyncUpAside
    <2> QED BY <1>0, <1>5, <2>1, PushMove
  <1>6. ASSUME NEW s \in Rows, NEW outcome \in Outcomes, sessions' = Settle(s, outcome),
               pc' # "start"
        PROVE  RowsNext
    BY <1>0, <1>6, SettleMove
  <1>7. CASE ResolveSession \/ ReconcileSettles
    <2>1. job.session \in Rows /\ pc' # "start" /\ OutcomeFor(job.err) \in Outcomes
      BY <1>7 DEF ResolveSession, ReconcileSettles, IInv, JobInv, OutcomeFor, Outcomes
    <2> QED BY <1>1, <1>6, <1>7, <2>1 DEF ResolveSession, ReconcileSettles, SettleAtBoot
  <1>8. ASSUME NEW s \in Rows, Reconcile(s) \/ ReconcileUnreachable(s) \/ ReconcileUnfinished(s)
        PROVE  RowsNext
    <2>1. pc' = pc /\ pc = "idle"
      BY <1>8 DEF Reconcile, ReconcileUnreachable, ReconcileUnfinished
    <2>2. {"unknown", "returned", "retained"} \subseteq Outcomes
      BY DEF Outcomes
    <2> QED BY <1>1, <1>6, <1>8, <2>1, <2>2
      DEF Reconcile, ReconcileUnreachable, ReconcileUnfinished, SettleAtBoot
  <1> QED BY <1>1, <1>2, <1>3, <1>4, <1>5, <1>7, <1>8
    DEF Next, Bridge, MachineStep, CollectStep, BootStep, Poll, Record, vars, machine, table,
        process, CustomerPays, DepositTimeout, Dispensed, PowerLoss, DispenseFails, Becomes,
        CancelSession, CancelArrives, OtherPayment, StartTransaction, StartRefused, Fail,
        PollEnded, PollFixes, PollWaits, ChangeShortage, PollFails, RecordReplay,
        RecordCheck, NotRecorded, RecordFails, InsertPayment, OrderLifecycle,
        Report, Crash, Boot, ReconcileFinished, Serve

PaysNext ==
  /\ payments' \in Seq(Payment)
  /\ \A p \in PaymentIds : payments'[p] = payments[p]
  /\ \/ payments' = payments
     \/ /\ Len(payments') = Len(payments) + 1
        /\ \/ payments'[Len(payments) + 1].txn = 0 /\ pc' = pc /\ job' = job
           \/ InsertPayment /\ payments'[Len(payments) + 1].txn = job.txn

LEMMA PaysStep ==
  ASSUME IInv, [Next]_vars
  PROVE  PaysNext
  <1> USE DEF PaysNext
  <1>0. TypeOK
    BY DEF IInv
  <1>1. CASE payments' = payments
    BY <1>0, <1>1 DEF TypeOK
  <1>2. ASSUME NEW o \in Orders, NEW amount \in 1..Total, OtherPayment(o, amount)
        PROVE  PaysNext
    <2>1. pc' = pc /\ job' = job
      BY <1>2 DEF OtherPayment
    <2> QED BY <1>0, <1>2, <2>1, OtherPaymentMove
  <1>3. CASE InsertPayment
    BY <1>3, InsertMove
  <1> QED BY <1>1, <1>2, <1>3
    DEF Next, Bridge, MachineStep, CollectStep, BootStep, Poll, Record, vars, machine, table,
        process, CustomerPays, DepositTimeout, Dispensed, PowerLoss, DispenseFails, Becomes,
        CancelSession, CancelArrives, Begin, StartTransaction, StartRefused, StampTransaction,
        PollEnded, PollFixes, PollWaits, ChangeShortage, PollFails, RecordReplay,
        RecordCheck, RecordFails, OrderLifecycle, ResolveSession, RecordMachineLedger,
        Report, SyncUp, Push, IntakeFails, PushUnanswered, Pushed, Crash, Boot, Reconcile,
        ReconcileUnreachable, ReconcileUnfinished, ReconcileFinished, ReconcileSettles, Serve

-----------------------------------------------------------------------------
(* The goroutine. *)

JobNext ==
  /\ pc' # "idle" => job'.session \in 1..Len(sessions')
  /\ pc' \in HasTxn => job'.txn \in 1..Len(txns')
  /\ pc' = "insert" => /\ job' = job /\ BookedAs(job.txn) = {}
                       /\ pc \in {"record", "insert"}

LEMMA JobStep ==
  ASSUME IInv, [Next]_vars
  PROVE  JobNext
  <1>0. /\ TypeOK
        /\ pc # "idle" => job.session \in Rows
        /\ pc \in HasTxn => job.txn \in Txns
        /\ pc = "insert" => BookedAs(job.txn) = {}
    BY DEF IInv, JobInv
  <1>1. /\ Len(txns') \in Nat /\ Len(txns') >= Len(txns) /\ Len(txns) \in Nat
        /\ Len(sessions') \in Nat /\ Len(sessions') >= Len(sessions) /\ Len(sessions) \in Nat
    BY <1>0, TxnsStep, RowsStep, LenProperties, Typed DEF TxnsNext, RowsNext, TxnsMove, RowsMove
  <1>2. Rows \subseteq 1..Len(sessions') /\ Txns \subseteq 1..Len(txns')
    BY <1>1 DEF Rows, Txns
  <1> USE DEF JobNext, HasTxn
  <1>3. CASE UNCHANGED <<pc, job>>
    BY <1>0, <1>2, <1>3
  <1>4. CASE pc' = "idle"
    BY <1>4
  <1>5. CASE /\ pc \in HasTxn /\ pc' \in HasTxn \ {"insert"}
             /\ job'.session = job.session /\ job'.txn = job.txn
    BY <1>0, <1>2, <1>5
  <1>6. CASE /\ pc # "idle" /\ pc' \in {"resolve", "ledger", "report"}
             /\ job'.session = job.session
    BY <1>0, <1>2, <1>6
  <1>7. ASSUME NEW o \in Orders, NEW amount \in 1..Total, Begin(o, amount)
        PROVE  JobNext
    <2>1. Len(sessions') = Len(sessions) + 1
      BY <1>0, <1>7, BeginMove
    <2>2. pc' = "start" /\ job'.session = Len(sessions) + 1
      BY <1>7 DEF Begin, NoJob
    <2> QED BY <1>1, <2>1, <2>2
  <1>8. CASE StartTransaction
    <2>1. Len(txns') = Len(txns) + 1
      BY <1>8, StartMove
    <2>2. CASE pc' = "stamp"
      <3>1. job'.txn = Len(txns) + 1 /\ job'.session = job.session /\ pc = "start"
        BY <1>0, <1>8, <2>2 DEF StartTransaction, Fail, TypeOK, Job
      <3>2. job'.session \in 1..Len(sessions')
        BY <1>0, <1>2, <3>1
      <3>3. job'.txn \in 1..Len(txns')
        BY <1>1, <2>1, <3>1
      <3> QED BY <2>2, <3>2, <3>3
    <2>3. CASE pc' # "stamp"
      <3>1. pc' = "resolve" /\ job'.session = job.session /\ pc = "start"
        BY <1>0, <1>8, <2>3 DEF StartTransaction, Fail, TypeOK, Job
      <3> QED BY <1>0, <1>2, <3>1
    <2> QED BY <2>2, <2>3
  <1>9. CASE StartRefused \/ StampTransaction
    BY <1>0, <1>5, <1>6, <1>9 DEF StartRefused, StampTransaction, Fail, TypeOK, Job
  <1>10. CASE Poll
    BY <1>0, <1>5, <1>6, <1>10
      DEF Poll, PollEnded, PollFixes, PollWaits, ChangeShortage, PollFails, Fail, TypeOK, Job
  <1>11. CASE RecordReplay \/ RecordFails \/ InsertPayment \/ OrderLifecycle
    BY <1>0, <1>5, <1>6, <1>11
      DEF RecordReplay, RecordFails, InsertPayment, OrderLifecycle, NotRecorded, TypeOK, Job
  <1>12. CASE RecordCheck
    <2>1. CASE pc' = "insert"
      BY <1>0, <1>2, <1>12, <2>1 DEF RecordCheck, NotRecorded
    <2>2. CASE pc' # "insert"
      BY <1>0, <1>6, <1>12, <2>2 DEF RecordCheck, NotRecorded, TypeOK, Job
    <2> QED BY <2>1, <2>2
  <1>13. CASE ResolveSession \/ RecordMachineLedger \/ Report
    BY <1>0, <1>4, <1>6, <1>13 DEF ResolveSession, RecordMachineLedger, Report
  <1>14. ASSUME NEW s \in Rows, ReconcileFinished(s)
         PROVE  JobNext
    <2>1. /\ pc' = "record" /\ job'.session = s /\ job'.txn = sessions[s].txn
          /\ sessions[s].txn # 0
      BY <1>14 DEF ReconcileFinished, NoJob
    <2>2. sessions[s].txn \in 0..Len(txns)
      BY DEF IInv, BoundsInv
    <2>3. job'.txn \in Txns
      BY <1>1, <2>1, <2>2 DEF Txns
    <2> QED BY <1>2, <1>14, <2>1, <2>3
  <1> QED BY <1>3, <1>4, <1>7, <1>8, <1>9, <1>10, <1>11, <1>12, <1>13, <1>14
    DEF Next, Bridge, MachineStep, CollectStep, BootStep, Record, vars, machine, table,
        process, CustomerPays, DepositTimeout, Dispensed, PowerLoss, DispenseFails, Becomes,
        CancelSession, CancelArrives, OtherPayment, SyncUp, Push, IntakeFails, PushUnanswered,
        Pushed, Crash, Boot, Reconcile, ReconcileUnreachable, ReconcileUnfinished,
        ReconcileSettles, Serve

(* The rest of the state keeps its type. *)
RestOK ==
  /\ closed \subseteq Orders
  /\ alerts \subseteq Alerts /\ active \in Session
  /\ pc \in {"idle", "start", "stamp", "poll", "record", "insert", "lifecycle", "resolve",
             "ledger", "report"}
  /\ job \in Job
  /\ phase \in {"boot", "serving", "down"}
  /\ faults \in Nat /\ crashes \in Nat

LEMMA RestStep ==
  ASSUME IInv, [Next]_vars
  PROVE  RestOK'
  <1>0. /\ TypeOK /\ RestOK
        /\ pc # "idle" => job.session \in Rows
        /\ pc \in HasTxn => job.txn \in Txns
    BY DEF IInv, JobInv, TypeOK, RestOK
  <1>1. Len(sessions) \in Nat /\ Len(txns) \in Nat /\ Len(payments) \in Nat
    BY <1>0, Typed
  <1>2. \A key \in {"txn", "session"} \X Nat, kind \in {"cash_retained", "cash_collected_not_recorded"} :
          Alert(kind, key) \in Alerts
    BY DEF Alert, Alerts
  <1>3. Subject \in {"txn", "session"} \X Nat /\ <<"txn", job.txn>> \in {"txn", "session"} \X Nat
    BY <1>0 DEF RestOK, Subject, Job
  <1>4. \A s \in Rows : sessions[s].order \in Orders /\ sessions[s].txn \in Nat
    BY <1>0, Typed DEF Row
  <1>5. Shown = {"none", "deposit", "sufficient", "dispense", "finish", "cancel",
                 "timeout", "abort", "failure"}
    BY DEF Shown, Statuses, Terminal
  <1>6. pc = "poll" => Seen \in Statuses
    BY <1>0, Typed DEF Seen, HasTxn, Txn
  <1>7. ASSUME NEW err \in Errors, NEW status \in Shown, Fail(err, status)
        PROVE  alerts' \subseteq Alerts /\ job' \in Job /\ pc' = "resolve"
    <2>1. Alert("cash_retained", Subject) \in Alerts
      BY <1>2, <1>3
    <2>2. job' = [job EXCEPT !.err = err, !.status = status]
      BY <1>7 DEF Fail
    <2>3. job' \in Job
      BY <1>0, <2>2 DEF RestOK, Job, Shown
    <2> QED BY <1>0, <1>7, <2>1, <2>3 DEF Fail, RestOK
  <1>8. ASSUME NotRecorded
        PROVE  alerts' \subseteq Alerts /\ job' \in Job /\ pc' = "resolve"
    BY <1>0, <1>2, <1>3, <1>8 DEF NotRecorded, RestOK, Job, Errors
  <1>9. ASSUME NEW fault, Strikes(fault)
        PROVE  faults' \in Nat
    BY <1>0, <1>9 DEF Strikes, RestOK
  <1>10. CASE UNCHANGED vars
    BY <1>0, <1>10 DEF vars, RestOK
  <1>11. CASE MachineStep
    BY <1>0, <1>9, <1>11
      DEF MachineStep, CustomerPays, DepositTimeout, Dispensed, PowerLoss, DispenseFails, Becomes,
          table, process, RestOK
  <1>12. CASE CancelSession \/ (\E s \in cancels : CancelArrives(s))
    BY <1>0, <1>12 DEF CancelSession, CancelArrives, table, process, machine, RestOK
  <1>35. CASE SyncUp
    BY <1>0, <1>35, SyncUpAside DEF process, RestOK
  <1>13. ASSUME NEW o \in Orders, NEW amount \in 1..Total, Begin(o, amount)
         PROVE  RestOK'
    <2>1. faults' \in Nat
      BY <1>0, <1>9, <1>13 DEF Begin, RestOK
    <2>2. /\ active' = [NoSession EXCEPT !.session = Len(sessions) + 1, !.running = TRUE]
          /\ job' = [NoJob EXCEPT !.session = Len(sessions) + 1]
          /\ pc' = "start" /\ UNCHANGED <<closed, alerts, phase, crashes>>
      BY <1>13 DEF Begin
    <2>3. Len(sessions) + 1 \in Nat
      BY <1>1
    <2> QED BY <1>0, <2>1, <2>2, <2>3 DEF RestOK, NoSession, NoJob, Errors, Session, Job, Shown
  <1>14. ASSUME NEW o \in Orders, NEW amount \in 1..Total, OtherPayment(o, amount)
         PROVE  RestOK'
    BY <1>0, <1>14 DEF OtherPayment, RestOK, process
  <1>15. CASE StartTransaction
    <2>1. UNCHANGED <<closed, active, phase, crashes>>
      BY <1>15 DEF StartTransaction, table, process
    <2>2. CASE pc' = "stamp" /\ job' = [job EXCEPT !.txn = Len(txns) + 1] /\ UNCHANGED <<alerts, faults>>
      <3>1. Len(txns) + 1 \in Nat
        BY <1>1
      <3> QED BY <1>0, <2>1, <2>2, <3>1 DEF RestOK, Job
    <2>3. CASE Strikes("lost") /\ Fail("error", "none")
      BY <1>0, <1>7, <1>9, <2>1, <2>3 DEF RestOK, Job, Errors, Shown
    <2> QED BY <1>15, <2>2, <2>3 DEF StartTransaction
  <1>16. CASE StartRefused
    BY <1>0, <1>7, <1>9, <1>16 DEF StartRefused, table, process, RestOK, Job, Errors, Shown
  <1>17. CASE StampTransaction
    BY <1>0, <1>9, <1>17 DEF StampTransaction, process, RestOK
  <1>18. CASE Poll
    <2>1. UNCHANGED <<closed, active, phase, crashes>> /\ pc = "poll"
      BY <1>18 DEF Poll, PollEnded, PollFixes, PollWaits, ChangeShortage, PollFails, table, process
    <2>2. {"canceled", "retained", "shortage", "error"} \subseteq Errors
      BY DEF Errors
    <2>3. CASE PollEnded
      BY <1>0, <1>6, <1>7, <2>1, <2>2, <2>3 DEF PollEnded, RestOK, Job, Shown
    <2>4. CASE PollFixes \/ PollWaits
      BY <1>0, <1>6, <2>1, <2>4 DEF PollFixes, PollWaits, RestOK, Job, Shown
    <2>5. CASE ChangeShortage
      BY <1>0, <1>6, <1>7, <1>9, <2>1, <2>2, <2>5 DEF ChangeShortage, RestOK, Job, Shown
    <2>6. CASE PollFails
      BY <1>0, <1>7, <1>9, <2>1, <2>2, <2>6 DEF PollFails, RestOK, Job
    <2> QED BY <1>18, <2>3, <2>4, <2>5, <2>6 DEF Poll
  <1>19. CASE RecordReplay
    <2>1. \A p \in BookedAs(job.txn) : p \in Nat
      BY <1>1 DEF BookedAs, PaymentIds
    <2> QED BY <1>0, <1>19, <2>1 DEF RecordReplay, table, process, RestOK, Job
  <1>20. CASE RecordCheck \/ RecordFails
    BY <1>0, <1>8, <1>9, <1>20 DEF RecordCheck, RecordFails, table, process, RestOK
  <1>21. CASE InsertPayment
    <2>1. Len(payments) + 1 \in Nat
      BY <1>1
    <2> QED BY <1>0, <1>21, <2>1 DEF InsertPayment, process, RestOK, Job
  <1>22. CASE OrderLifecycle
    <2>1. OrderOfJob \in Orders
      BY <1>0, <1>4, <1>22 DEF OrderLifecycle, OrderOfJob
    <2> QED BY <1>0, <1>22, <2>1 DEF OrderLifecycle, process, RestOK
  <1>23. CASE ResolveSession \/ RecordMachineLedger
    BY <1>0, <1>9, <1>23 DEF ResolveSession, RecordMachineLedger, process, RestOK
  <1>24. CASE Report
    BY <1>0, <1>5, <1>24 DEF Report, table, RestOK, NoJob, Errors, Session, Job, Shown
  <1>25. CASE Crash
    BY <1>0, <1>25 DEF Crash, table, RestOK, NoJob, NoSession, Errors, Session, Job, Shown
  <1>26. CASE Boot \/ Serve
    BY <1>0, <1>26 DEF Boot, Serve, table, process, RestOK
  <1>27. ASSUME NEW s \in Rows, Reconcile(s) \/ ReconcileUnreachable(s) \/ ReconcileUnfinished(s)
         PROVE  RestOK'
    <2>1. <<"session", s>> \in {"txn", "session"} \X Nat
          /\ <<"txn", sessions[s].txn>> \in {"txn", "session"} \X Nat
      BY <1>1, <1>4 DEF Rows
    <2>2. /\ Alert("cash_collected_not_recorded", <<"session", s>>) \in Alerts
          /\ Alert("cash_retained", <<"txn", sessions[s].txn>>) \in Alerts
          /\ Alert("cash_collected_not_recorded", <<"txn", sessions[s].txn>>) \in Alerts
      BY <1>2, <2>1
    <2> QED BY <1>0, <1>9, <1>27, <2>2
      DEF Reconcile, ReconcileUnreachable, ReconcileUnfinished, SettleAtBoot, RestOK
  <1>28. CASE ReconcileSettles
    BY <1>0, <1>5, <1>9, <1>28 DEF ReconcileSettles, SettleAtBoot, RestOK, NoJob, Errors, Session, Job, Shown
  <1>29. ASSUME NEW s \in Rows, ReconcileFinished(s)
         PROVE  RestOK'
    <2>1. job' = [session |-> s, txn |-> sessions[s].txn, status |-> "finish", err |-> "none",
                  payment |-> 0]
      BY <1>29 DEF ReconcileFinished, NoJob
    <2>2. s \in Nat
      BY <1>1 DEF Rows
    <2>3. job' \in Job
      BY <1>4, <1>5, <2>1, <2>2 DEF Job, Errors
    <2> QED BY <1>0, <1>29, <2>3 DEF ReconcileFinished, table, process, RestOK
  <1> QED BY <1>10, <1>11, <1>12, <1>13, <1>14, <1>15, <1>16, <1>17, <1>18, <1>19, <1>20, <1>21,
             <1>22, <1>23, <1>24, <1>25, <1>26, <1>27, <1>28, <1>29, <1>35
    DEF Next, Bridge, CollectStep, BootStep, Record

-----------------------------------------------------------------------------
(* Together. *)

LEMMA RefsStep ==
  ASSUME IInv, [Next]_vars
  PROVE  /\ cancels' \subseteq 1..Len(sessions') /\ todo' \subseteq 1..Len(sessions')
         /\ active'.session \in 0..Len(sessions')
  <1>0. /\ cancels \subseteq Rows /\ todo \subseteq Rows /\ active.session \in 0..Len(sessions)
        /\ pc # "idle" => job.session \in Rows
    BY DEF IInv, TypeOK, JobInv
  <1>1. /\ Len(sessions) \in Nat /\ Len(sessions') \in Nat
        /\ Len(sessions') \in {Len(sessions), Len(sessions) + 1}
    BY RowsStep, LenProperties, Typed DEF IInv, RowsNext, RowsMove
  <1>2. Rows \subseteq 1..Len(sessions') /\ 0..Len(sessions) \subseteq 0..Len(sessions')
    BY <1>1 DEF Rows
  <1>3. CASE UNCHANGED <<cancels, todo, active>>
    BY <1>0, <1>2, <1>3
  <1>4. CASE CancelSession
    <2>1. active.session \in Rows
      BY <1>0, <1>1, <1>4 DEF CancelSession, Rows
    <2> QED BY <1>0, <1>2, <1>4, <2>1 DEF CancelSession
  <1>5. CASE \E s \in cancels : CancelArrives(s)
    BY <1>0, <1>2, <1>5 DEF CancelArrives
  <1>6. ASSUME NEW o \in Orders, NEW amount \in 1..Total, Begin(o, amount)
        PROVE  /\ cancels' \subseteq 1..Len(sessions') /\ todo' \subseteq 1..Len(sessions')
               /\ active'.session \in 0..Len(sessions')
    <2>1. Len(sessions') = Len(sessions) + 1
      BY <1>6, BeginMove DEF IInv
    <2>2. active'.session = Len(sessions) + 1 /\ UNCHANGED <<cancels, todo>>
      BY <1>6 DEF Begin, NoSession
    <2>3. active'.session \in 0..Len(sessions')
      BY <1>1, <2>1, <2>2
    <2> QED BY <1>0, <1>2, <2>2, <2>3
  <1>7. CASE Report
    <2>1. active'.session = job.session /\ job.session \in Rows /\ UNCHANGED <<cancels, todo>>
      BY <1>0, <1>7 DEF Report
    <2>2. active'.session \in 0..Len(sessions')
      BY <1>1, <2>1 DEF Rows
    <2> QED BY <1>0, <1>2, <2>1, <2>2
  <1>8. CASE Crash
    <2>1. active'.session = 0 /\ cancels' = {} /\ todo' = {}
      BY <1>8 DEF Crash, NoSession
    <2> QED BY <1>1, <2>1
  <1>9. CASE Boot
    <2>1. todo' \subseteq Rows /\ UNCHANGED <<cancels, active>>
      BY <1>9 DEF Boot, Unresolved
    <2> QED BY <1>0, <1>2, <2>1
  <1>10. ASSUME NEW s \in Rows,
                \/ Reconcile(s) \/ ReconcileUnreachable(s) \/ ReconcileUnfinished(s)
                \/ ReconcileFinished(s) \/ ReconcileSettles
         PROVE  /\ cancels' \subseteq 1..Len(sessions') /\ todo' \subseteq 1..Len(sessions')
                /\ active'.session \in 0..Len(sessions')
    <2>1. todo' \subseteq todo /\ UNCHANGED <<cancels, active>>
      BY <1>10 DEF Reconcile, ReconcileUnreachable, ReconcileUnfinished, ReconcileFinished,
                   ReconcileSettles, SettleAtBoot, process
    <2> QED BY <1>0, <1>2, <2>1
  <1>11. CASE ReconcileSettles
    <2>1. todo' \subseteq todo /\ UNCHANGED <<cancels, active>>
      BY <1>11 DEF ReconcileSettles, SettleAtBoot
    <2> QED BY <1>0, <1>2, <2>1
  <1> QED BY <1>3, <1>4, <1>5, <1>6, <1>7, <1>8, <1>9, <1>10, <1>11
    DEF Next, Bridge, MachineStep, CollectStep, BootStep, Poll, Record, vars, machine, table,
        process, CustomerPays, DepositTimeout, Dispensed, PowerLoss, DispenseFails, Becomes,
        OtherPayment, StartTransaction, StartRefused, StampTransaction,
        PollEnded, PollFixes, PollWaits, ChangeShortage, PollFails, RecordReplay,
        RecordCheck, RecordFails, InsertPayment, OrderLifecycle, ResolveSession,
        RecordMachineLedger, SyncUp, Push, IntakeFails, PushUnanswered, Pushed, Serve

LEMMA InitIInv == Init => IInv
  <1> SUFFICES ASSUME Init PROVE IInv
    OBVIOUS
  <1>1. txns = <<>> /\ sessions = <<>> /\ payments = <<>> /\ Len(<<>>) = 0
    BY DEF Init
  <1>2. TypeOK
    BY <1>1, CashMachineAssumption
      DEF Init, TypeOK, NoJob, NoSession, Job, Session, Shown, Errors, Rows
  <1>3. JobInv /\ BoundsInv /\ BookedOnce
    BY <1>1, CashMachineAssumption
      DEF Init, NoSession, JobInv, BoundsInv, BookedOnce, HasTxn, Rows, Txns, PaymentIds
  <1> QED BY <1>2, <1>3 DEF IInv

LEMMA NextIInv == IInv /\ [Next]_vars => IInv'
  <1> SUFFICES ASSUME IInv, [Next]_vars PROVE IInv'
    OBVIOUS
  <1>0. TypeOK /\ JobInv /\ BoundsInv /\ BookedOnce
    BY DEF IInv
  <1>1. TxnsNext /\ RowsNext /\ PaysNext /\ JobNext
    BY TxnsStep, RowsStep, PaysStep, JobStep
  <1>2. /\ Len(txns) \in Nat /\ Len(txns') \in Nat /\ Len(txns') >= Len(txns)
        /\ Len(sessions) \in Nat /\ Len(sessions') \in Nat /\ Len(sessions') >= Len(sessions)
        /\ Len(payments) \in Nat
    BY <1>0, <1>1, Typed, LenProperties DEF TxnsNext, TxnsMove, RowsNext, RowsMove
  <1>3. TypeOK'
    BY <1>1, RestStep, RefsStep
      DEF TypeOK, RestOK, TxnsNext, TxnsMove, RowsNext, RowsMove, PaysNext, Rows
  <1>4. JobInv'
    <2>1. /\ active'.session \in 0..Len(sessions')
          /\ pc' # "idle" => job'.session \in 1..Len(sessions')
          /\ pc' \in HasTxn => job'.txn \in 1..Len(txns')
      BY <1>1, RefsStep DEF JobNext
    <2>2. ASSUME pc' = "insert"
          PROVE  BookedAs(job.txn)' = {}
      <3>1. job' = job /\ BookedAs(job.txn) = {} /\ pc \in {"record", "insert"}
        BY <1>1, <2>2 DEF JobNext
      <3>2. job.txn \in Txns
        BY <1>0, <3>1 DEF JobInv, HasTxn
      <3>3. ~InsertPayment
        BY <2>2 DEF InsertPayment
      <3>4. CASE payments' = payments
        BY <3>1, <3>4 DEF BookedAs, PaymentIds
      <3>5. CASE Len(payments') = Len(payments) + 1 /\ payments'[Len(payments) + 1].txn = 0
        <4>1. \A p \in PaymentIds : payments'[p] = payments[p]
          BY <1>1 DEF PaysNext
        <4>2. job.txn # 0
          BY <1>2, <3>2 DEF Txns
        <4> QED BY <1>2, <3>1, <3>5, <4>1, <4>2 DEF BookedAs, PaymentIds
      <3> QED BY <1>1, <3>3, <3>4, <3>5 DEF PaysNext
    <2> QED BY <2>1, <2>2 DEF JobInv, Rows, Txns
  <1>5. BoundsInv'
    <2>1. /\ Len(txns) <= Len(sessions) /\ Len(sessions) <= MaxSessions
          /\ pc = "start" => Len(txns) < Len(sessions)
          /\ MaxSessions \in Nat
      BY <1>0, CashMachineAssumption DEF BoundsInv
    <2>2. /\ Len(txns') <= Len(sessions') /\ Len(sessions') <= MaxSessions
          /\ pc' = "start" => Len(txns') < Len(sessions')
      BY <1>1, <1>2, <2>1 DEF TxnsNext, RowsNext
    <2>3. ASSUME NEW t \in 1..Len(txns')
          PROVE  txns'[t].session \in 1..Len(sessions') /\ txns'[t].amount \in 1..Total
      <3>1. CASE t \in Txns
        <4>1. txns[t].session \in Rows /\ txns[t].amount \in 1..Total
          BY <1>0, <3>1 DEF BoundsInv
        <4>2. txns'[t].session = txns[t].session /\ txns'[t].amount = txns[t].amount
          BY <1>1, <3>1 DEF TxnsNext, TxnsMove
        <4> QED BY <1>2, <4>1, <4>2 DEF Rows
      <3>2. CASE t \notin Txns
        <4>1. /\ pc = "start" /\ t = Len(txns) + 1
              /\ txns'[t].session = job.session
              /\ txns'[t].amount = sessions[job.session].amount
          BY <1>1, <1>2, <3>2 DEF TxnsNext, Txns
        <4>2. job.session \in Rows /\ sessions[job.session].amount \in 1..Total
          BY <1>0, <4>1 DEF JobInv, BoundsInv
        <4> QED BY <1>2, <4>1, <4>2 DEF Rows
      <3> QED BY <3>1, <3>2
    <2>4. ASSUME NEW s \in 1..Len(sessions')
          PROVE  sessions'[s].amount \in 1..Total /\ sessions'[s].txn \in 0..Len(txns')
      <3>1. CASE s \in Rows
        <4>1. sessions[s].amount \in 1..Total /\ sessions[s].txn \in 0..Len(txns)
          BY <1>0, <3>1 DEF BoundsInv
        <4>2. sessions'[s].amount = sessions[s].amount
          BY <1>1, <3>1 DEF RowsNext, RowsMove, Kept
        <4>3. \/ sessions'[s].txn = sessions[s].txn
              \/ pc = "stamp" /\ sessions'[s].txn = job.txn
          BY <1>1, <3>1 DEF RowsNext
        <4>4. pc = "stamp" => job.txn \in Txns
          BY <1>0 DEF JobInv, HasTxn
        <4> QED BY <1>2, <4>1, <4>2, <4>3, <4>4 DEF Txns
      <3>2. CASE s \notin Rows
        <4>1. s = Len(sessions) + 1 /\ sessions'[s].amount \in 1..Total /\ sessions'[s].txn = 0
          BY <1>1, <1>2, <3>2 DEF RowsNext, Rows
        <4> QED BY <1>2, <4>1
      <3> QED BY <3>1, <3>2
    <2> QED BY <2>2, <2>3, <2>4 DEF BoundsInv, Rows, Txns
  <1>6. BookedOnce'
    <2>1. \A p \in PaymentIds : payments'[p] = payments[p]
      BY <1>1 DEF PaysNext
    <2>2. CASE payments' = payments
      BY <1>0, <2>2 DEF BookedOnce, PaymentIds
    <2>3. CASE Len(payments') = Len(payments) + 1 /\ payments'[Len(payments) + 1].txn = 0
      BY <1>0, <1>2, <2>1, <2>3 DEF BookedOnce, PaymentIds
    <2>4. CASE /\ Len(payments') = Len(payments) + 1 /\ InsertPayment
               /\ payments'[Len(payments) + 1].txn = job.txn
      <3>1. \A p \in PaymentIds : payments[p].txn # job.txn
        BY <1>0, <2>4 DEF JobInv, InsertPayment, BookedAs
      <3> QED BY <1>0, <1>2, <2>1, <2>4, <3>1 DEF BookedOnce, PaymentIds
    <2> QED BY <1>1, <2>2, <2>3, <2>4 DEF PaysNext
  <1> QED BY <1>3, <1>4, <1>5, <1>6 DEF IInv

(***************************************************************************)
(* IInv holds of every reachable state, whatever fails.                    *)
(***************************************************************************)
THEOREM Invariance == Spec => []IInv
  BY InitIInv, NextIInv, PTL DEF Spec

(***************************************************************************)
(* The state keeps its type: no row, transaction or payment is named that  *)
(* does not exist.                                                         *)
(***************************************************************************)
THEOREM TypeCorrect == Spec => []TypeOK
  <1>1. IInv => TypeOK
    BY DEF IInv
  <1> QED BY <1>1, Invariance, PTL

(***************************************************************************)
(* No collection of the machine is booked twice, though the goroutine and  *)
(* the boot reconciliation of a later process may both record it.          *)
(***************************************************************************)
THEOREM NeverBookedTwice == Spec => []BookedOnce
  <1>1. IInv => BookedOnce
    BY DEF IInv
  <1> QED BY <1>1, Invariance, PTL

-----------------------------------------------------------------------------
(* The books of an order. *)

LEMMA Adds ==
  ASSUME TypeOK, NEW o
  PROVE  /\ IsFiniteSet(PaymentsOf(o)) /\ Captured(o) \in Nat
         /\ \A p \in PaymentIds : [q \in PaymentIds |-> payments[q].amount][p] \in Nat
  <1>1. Len(payments) \in Nat /\ \A p \in PaymentIds : payments[p] \in Payment
    BY Typed
  <1>2. IsFiniteSet(PaymentIds)
    BY <1>1, FS_Interval DEF PaymentIds
  <1>3. IsFiniteSet(PaymentsOf(o))
    BY <1>2, FS_Subset DEF PaymentsOf
  <1>4. PICK f : f = [p \in PaymentIds |-> payments[p].amount]
    OBVIOUS
  <1>5. \A p \in PaymentIds : f[p] \in Nat
    BY <1>1, <1>4 DEF Payment
  <1>6. SumFunctionOnSet(f, PaymentsOf(o)) \in Nat
    BY <1>3, <1>5, SumIsNat DEF PaymentsOf
  <1> QED BY <1>3, <1>4, <1>5, <1>6 DEF Captured

(* What is captured for an order only grows, by what is added for it. *)
LEMMA CapturedGrows ==
  ASSUME IInv, [Next]_vars, NEW o
  PROVE  /\ Captured(o) \in Nat /\ Captured(o)' \in Nat /\ Captured(o) <= Captured(o)'
         /\ \A n : /\ n = Len(payments) + 1 /\ n = Len(payments') /\ payments'[n].order = o
                   => Captured(o)' = Captured(o) + payments'[n].amount
  <1>1. TypeOK /\ TypeOK' /\ PaysNext
    BY NextIInv, PaysStep DEF IInv
  <1>2. /\ Len(payments) \in Nat /\ Len(payments') \in Nat
        /\ \A p \in PaymentIds : payments[p] \in Payment
        /\ \A p \in PaymentIds' : payments'[p] \in Payment
    <2>1. Len(payments) \in Nat /\ \A p \in PaymentIds : payments[p] \in Payment
      BY <1>1, Typed
    <2>2. Len(payments') \in Nat /\ payments' \in [1..Len(payments') -> Payment]
      BY <1>1, SeqIsFunction DEF PaysNext
    <2> QED BY <2>1, <2>2 DEF PaymentIds
  <1>3. /\ PaymentIds \subseteq PaymentIds'
        /\ \A p \in PaymentIds : payments'[p] = payments[p]
    BY <1>1, <1>2 DEF PaysNext, PaymentIds
  <1>4. PICK f : f = [p \in PaymentIds |-> payments[p].amount]
    OBVIOUS
  <1>5. PICK g : g = [p \in PaymentIds' |-> payments'[p].amount]
    OBVIOUS
  <1>6. PICK S : S = PaymentsOf(o)
    OBVIOUS
  <1>7. PICK T : T = PaymentsOf(o)'
    OBVIOUS
  <1>8. S \subseteq T /\ IsFiniteSet(S) /\ IsFiniteSet(T)
    <2>1. IsFiniteSet(1..Len(payments')) /\ T \subseteq 1..Len(payments')
      BY <1>2, <1>7, FS_Interval DEF PaymentsOf, PaymentIds
    <2>2. S \subseteq T
      BY <1>3, <1>6, <1>7 DEF PaymentsOf
    <2> QED BY <2>1, <2>2, FS_Subset
  <1>9. /\ \A p \in S : f[p] = g[p] /\ f[p] \in Nat
        /\ \A p \in T : g[p] \in Nat
    BY <1>2, <1>3, <1>4, <1>5, <1>6, <1>7 DEF PaymentsOf, Payment
  <1>10. Captured(o) = SumFunctionOnSet(g, S) /\ Captured(o)' = SumFunctionOnSet(g, T)
    <2>1. Captured(o) = SumFunctionOnSet(f, S)
      BY <1>4, <1>6 DEF Captured
    <2>2. Captured(o)' = SumFunctionOnSet(g, T)
      BY <1>5, <1>7 DEF Captured
    <2> QED BY <1>8, <1>9, <2>1, <2>2, SumLooks
  <1>11. SumFunctionOnSet(g, S) \in Nat /\ SumFunctionOnSet(g, T) \in Nat
    BY <1>8, <1>9, SumIsNat
  <1>12. SumFunctionOnSet(g, S) <= SumFunctionOnSet(g, T)
    BY <1>8, <1>9, SumGrows
  <1>13. ASSUME NEW n, n = Len(payments) + 1, n = Len(payments'), payments'[n].order = o
         PROVE  SumFunctionOnSet(g, T) = SumFunctionOnSet(g, S) + payments'[n].amount
    <2>1. n \in PaymentIds' /\ n \notin PaymentIds /\ PaymentIds' = PaymentIds \cup {n}
      BY <1>2, <1>13 DEF PaymentIds
    <2>2. T = S \cup {n} /\ n \notin S
      BY <1>3, <1>6, <1>7, <1>13, <2>1 DEF PaymentsOf
    <2>3. g[n] = payments'[n].amount /\ g[n] \in Nat
      BY <1>5, <1>9, <2>1, <2>2
    <2>4. SumFunctionOnSet(g, T) = g[n] + SumFunctionOnSet(g, S)
      BY <1>8, <1>9, <2>2, <2>3, SumAdds
    <2> QED BY <1>11, <2>3, <2>4
  <1> QED BY <1>10, <1>11, <1>12, <1>13

LEMMA ClosedStep ==
  ASSUME IInv, ClosedIsPaid, [Next]_vars
  PROVE  ClosedIsPaid'
  <1>0. /\ TypeOK /\ Total \in Nat /\ Len(payments) \in Nat
        /\ \A o : Captured(o) \in Nat /\ Captured(o)' \in Nat /\ Captured(o) <= Captured(o)'
    BY CapturedGrows, CashMachineAssumption, Typed DEF IInv
  <1>1. CASE closed' = closed
    BY <1>0, <1>1 DEF ClosedIsPaid
  <1>2. ASSUME NEW o \in Orders, NEW amount \in 1..Total, OtherPayment(o, amount)
        PROVE  ClosedIsPaid'
    <2>1. closed' = closed \/ (closed' = closed \cup {o} /\ amount = Outstanding(o))
      BY <1>2 DEF OtherPayment
    <2>2. CASE amount = Outstanding(o)
      <3>1. PICK e : e = [order |-> o, amount |-> amount, txn |-> 0]
        OBVIOUS
      <3>2. payments' = Append(payments, e) /\ e \in Payment /\ e.order = o /\ e.amount = amount
        BY <1>2, <3>1, CashMachineAssumption DEF OtherPayment, Payment
      <3>3. PICK n : n = Len(payments) + 1
        OBVIOUS
      <3>4. n = Len(payments') /\ payments'[n] = e
        BY <1>0, <3>2, <3>3, Appended DEF TypeOK
      <3>5. Captured(o)' = Captured(o) + amount
        BY <3>2, <3>3, <3>4, CapturedGrows
      <3>6. Captured(o)' = Total
        BY <1>0, <2>2, <3>5 DEF Outstanding
      <3> QED BY <1>0, <2>1, <3>6 DEF ClosedIsPaid
    <2> QED BY <1>1, <2>1, <2>2
  <1>3. CASE OrderLifecycle
    <2>1. /\ payments' = payments
          /\ closed' = IF Outstanding(OrderOfJob) <= 0 THEN closed \cup {OrderOfJob} ELSE closed
      BY <1>3 DEF OrderLifecycle
    <2>2. PICK o : o = OrderOfJob
      OBVIOUS
    <2>3. Outstanding(o) <= 0 => Captured(o)' >= Total
      BY <1>0 DEF Outstanding
    <2> QED BY <1>0, <2>1, <2>2, <2>3 DEF ClosedIsPaid
  <1> QED BY <1>1, <1>2, <1>3
    DEF Next, Bridge, MachineStep, CollectStep, BootStep, Poll, Record, vars, machine, table,
        process, CustomerPays, DepositTimeout, Dispensed, PowerLoss, DispenseFails, Becomes,
        CancelSession, CancelArrives, Begin, StartTransaction, StartRefused, StampTransaction,
        PollEnded, PollFixes, PollWaits, ChangeShortage, PollFails, RecordReplay,
        RecordCheck, RecordFails, InsertPayment, ResolveSession, RecordMachineLedger,
        Report, SyncUp, Push, IntakeFails, PushUnanswered, Pushed, Crash, Boot, Reconcile,
        ReconcileUnreachable, ReconcileUnfinished, ReconcileFinished, ReconcileSettles, Serve

(***************************************************************************)
(* An order that is closed is paid in full: the lifecycle statement after  *)
(* a collection, and the other handlers, close on captured money only, and *)
(* no step takes any back, whatever fails and whoever dies in between.     *)
(***************************************************************************)
THEOREM ClosedOrdersArePaid == Spec => []ClosedIsPaid
  <1>1. Init => ClosedIsPaid
    BY DEF Init, ClosedIsPaid
  <1>2. IInv /\ ClosedIsPaid /\ [Next]_vars => ClosedIsPaid'
    BY ClosedStep
  <1> QED BY <1>1, <1>2, Invariance, PTL DEF Spec

-----------------------------------------------------------------------------
(* What no step takes away. *)

LEMMA NothingGoes ==
  ASSUME IInv, [Next]_vars
  PROVE  /\ Len(txns) \in Nat /\ Len(txns') \in Nat /\ Len(txns') >= Len(txns)
         /\ Len(sessions) \in Nat /\ Len(sessions') \in Nat /\ Len(sessions') >= Len(sessions)
         /\ Len(payments) \in Nat /\ Len(payments') \in Nat /\ Len(payments') >= Len(payments)
         /\ \A s \in Rows : Kept(sessions'[s], sessions[s])
         /\ \A p \in PaymentIds : payments'[p] = payments[p]
         /\ TxnsMove
  BY TxnsStep, RowsStep, PaysStep, Typed, LenProperties
    DEF IInv, TxnsNext, TxnsMove, RowsNext, RowsMove, PaysNext

LEMMA AlertsGrow ==
  ASSUME [Next]_vars
  PROVE  alerts \subseteq alerts'
  BY DEF Next, Bridge, MachineStep, CollectStep, BootStep, Poll, Record, vars, machine, table,
         process, CustomerPays, DepositTimeout, Dispensed, PowerLoss, DispenseFails, Becomes,
         CancelSession, CancelArrives, Begin, OtherPayment, StartTransaction, StartRefused, Fail,
         StampTransaction, PollEnded, PollFixes, PollWaits, ChangeShortage, PollFails,
         RecordReplay, RecordCheck, NotRecorded, RecordFails, InsertPayment, OrderLifecycle,
         ResolveSession, RecordMachineLedger, Report, SyncUp, Push, IntakeFails, PushUnanswered,
         Pushed, Crash, Boot, Reconcile, ReconcileUnreachable, ReconcileUnfinished,
         ReconcileFinished, ReconcileSettles, SettleAtBoot, Serve

(* The steps the goroutine, the process and the rows have no part in. *)
Aside ==
  /\ UNCHANGED <<pc, job, active, phase, todo>>
  /\ Len(sessions') = Len(sessions)
  /\ \A s \in Rows : /\ sessions'[s].txn = sessions[s].txn
                     /\ sessions'[s].outcome = sessions[s].outcome

LEMMA AsideStep ==
  ASSUME TypeOK,
         \/ UNCHANGED vars \/ MachineStep \/ CancelSession \/ SyncUp
         \/ \E s \in cancels : CancelArrives(s)
         \/ \E o \in Orders, amount \in 1..Total : OtherPayment(o, amount)
  PROVE  Aside
  <1>1. CASE SyncUp
    BY <1>1, PushMove, SyncUpAside DEF process, Aside
  <1>2. CASE ~SyncUp
    <2>1. UNCHANGED <<pc, job, active, phase, todo, sessions>>
      BY <1>2 DEF MachineStep, CustomerPays, DepositTimeout, Dispensed, PowerLoss, DispenseFails,
                  Becomes, CancelSession, CancelArrives, OtherPayment, process, table, vars
    <2> QED BY <2>1 DEF Aside
  <1> QED BY <1>1, <1>2

(* The steps of the goroutine, wherever it runs, between the start of the  *)
(* machine and the closing of the row.                                     *)
Onward ==
  /\ pc \in Working /\ pc' \in Working \ {"start", "stamp"}
  /\ pc' = "poll" => pc \in {"stamp", "poll"}
  /\ UNCHANGED <<active, phase, todo>>
  /\ job'.session = job.session /\ job'.txn = job.txn
  /\ Len(sessions') = Len(sessions)

LEMMA OnwardStep ==
  ASSUME IInv,
         StartRefused \/ StampTransaction \/ Poll \/ Record
  PROVE  Onward
  <1>0. TypeOK /\ pc \in Working
    BY DEF IInv, StartRefused, StampTransaction, Poll, PollEnded, PollFixes, PollWaits,
           ChangeShortage, PollFails, Record, RecordReplay, RecordCheck, RecordFails,
           InsertPayment, OrderLifecycle, Working
  <1>1. UNCHANGED <<active, phase, todo>>
    BY DEF StartRefused, StampTransaction, Poll, PollEnded, PollFixes, PollWaits,
           ChangeShortage, PollFails, Record, RecordReplay, RecordCheck, RecordFails,
           InsertPayment, OrderLifecycle, process
  <1>2. Len(sessions') = Len(sessions)
    <2>1. CASE StampTransaction
      BY <1>0, <2>1, StampMove DEF StampTransaction, TypeOK, Job
    <2>2. CASE ~StampTransaction
      BY <2>2 DEF StartRefused, Poll, PollEnded, PollFixes, PollWaits,
                  ChangeShortage, PollFails, Record, RecordReplay, RecordCheck, RecordFails,
                  InsertPayment, OrderLifecycle, table
    <2> QED BY <2>1, <2>2
  <1>3. job'.session = job.session /\ job'.txn = job.txn
    BY <1>0 DEF StartRefused, StampTransaction, Poll, PollEnded, PollFixes, PollWaits,
           ChangeShortage, PollFails, Record, RecordReplay, RecordCheck, RecordFails,
           InsertPayment, OrderLifecycle, Fail, NotRecorded, TypeOK, Job
  <1>4. pc' \in Working \ {"start", "stamp"} /\ (pc' = "poll" => pc \in {"stamp", "poll"})
    BY <1>0 DEF StartRefused, StampTransaction, Poll, PollEnded, PollFixes, PollWaits,
           ChangeShortage, PollFails, Record, RecordReplay, RecordCheck, RecordFails,
           InsertPayment, OrderLifecycle, Fail, NotRecorded, Working
  <1> QED BY <1>0, <1>1, <1>2, <1>3, <1>4 DEF Onward

-----------------------------------------------------------------------------
(* The goroutine and the process. *)

LEMMA PhaseStep ==
  ASSUME IInv, PhaseInv, [Next]_vars
  PROVE  PhaseInv'
  <1>0. TypeOK /\ (pc # "idle" => job.session \in Rows)
    BY DEF IInv, JobInv
  <1>1. CASE Aside
    BY <1>0, <1>1 DEF Aside, PhaseInv
  <1>2. CASE Onward
    BY <1>2 DEF Onward, PhaseInv, Working
  <1>3. CASE pc' = "idle"
    BY <1>3 DEF PhaseInv
  <1>4. ASSUME NEW o \in Orders, NEW amount \in 1..Total, Begin(o, amount)
        PROVE  PhaseInv'
    <2>1. /\ Len(sessions') = Len(sessions) + 1
          /\ sessions'[Len(sessions) + 1].txn = 0 /\ sessions'[Len(sessions) + 1].outcome = "none"
      <3>1. PICK stored \in BOOLEAN : sessions'[Len(sessions) + 1] = NewRow(o, amount, stored)
        BY <1>0, <1>4, BeginMove
      <3>2. Len(sessions') = Len(sessions) + 1
        BY <1>0, <1>4, BeginMove
      <3> QED BY <3>1, <3>2 DEF NewRow
    <2>2. /\ pc' = "start" /\ phase' = "serving"
          /\ job'.session = Len(sessions) + 1 /\ active'.running
      BY <1>4 DEF Begin, NoJob, NoSession
    <2> QED BY <2>1, <2>2 DEF PhaseInv
  <1>5. CASE StartTransaction
    <2>1. /\ UNCHANGED <<sessions, active, phase>> /\ job'.session = job.session
          /\ pc = "start" /\ pc' \in {"stamp", "resolve"}
      BY <1>0, <1>5 DEF StartTransaction, Fail, table, process, TypeOK, Job
    <2> QED BY <2>1 DEF PhaseInv
  <1>6. CASE ResolveSession \/ RecordMachineLedger
    <2>1. /\ UNCHANGED <<active, phase, job>> /\ phase = "serving" /\ pc # "idle"
          /\ pc' \in {"ledger", "report"}
      BY <1>6 DEF ResolveSession, RecordMachineLedger, process, PhaseInv
    <2>2. Len(sessions') = Len(sessions)
      <3>1. OutcomeFor(job.err) \in Outcomes
        BY DEF OutcomeFor, Outcomes
      <3>2. CASE ResolveSession
        BY <1>0, <3>1, <3>2, SettleMove DEF ResolveSession
      <3>3. CASE RecordMachineLedger
        BY <1>0, <3>3, LedgerMove DEF RecordMachineLedger
      <3> QED BY <1>6, <3>2, <3>3
    <2> QED BY <2>1, <2>2 DEF PhaseInv
  <1>7. ASSUME NEW s \in Rows, ReconcileFinished(s)
        PROVE  PhaseInv'
    BY <1>7 DEF ReconcileFinished, process, PhaseInv
  <1>8. CASE Report \/ Crash \/ Boot \/ Serve \/ ReconcileSettles
    BY <1>3, <1>8 DEF Report, Crash, Boot, Serve, ReconcileSettles, PhaseInv
  <1>9. ASSUME NEW s \in Rows, Reconcile(s) \/ ReconcileUnreachable(s) \/ ReconcileUnfinished(s)
        PROVE  PhaseInv'
    BY <1>3, <1>9 DEF Reconcile, ReconcileUnreachable, ReconcileUnfinished
  <1> QED BY <1>0, <1>1, <1>2, <1>4, <1>5, <1>6, <1>7, <1>8, <1>9, AsideStep, OnwardStep
    DEF Next, Bridge, CollectStep, BootStep

-----------------------------------------------------------------------------
(* The rows a boot would ask about. *)

LEMMA StillUnresolved ==
  ASSUME IInv, [Next]_vars, NEW s \in Rows, s \in Unresolved'
  PROVE  s \in Unresolved
  <1>1. Kept(sessions'[s], sessions[s])
    BY NothingGoes
  <1> QED BY <1>1 DEF Unresolved, Kept

LEMMA StoredStep ==
  ASSUME IInv, StoredInv, [Next]_vars
  PROVE  StoredInv'
  <1> SUFFICES ASSUME "insert" \notin Faults, NEW s \in 1..Len(sessions')
               PROVE  sessions'[s].stored
    BY DEF StoredInv, Rows
  <1>1. CASE s \in Rows
    BY <1>1, NothingGoes DEF StoredInv, Kept
  <1>2. CASE s \notin Rows
    <2>1. Len(sessions') # Len(sessions) /\ s \notin 1..Len(sessions) /\ TypeOK
      BY <1>2 DEF Rows, IInv
    <2>2. PICK o \in Orders, amount \in 1..Total : Begin(o, amount)
      <3>1. ~Aside /\ ~Onward
        BY <2>1 DEF Aside, Onward
      <3>2. sessions' # sessions
        BY <2>1
      <3>3. ~ResolveSession /\ ~RecordMachineLedger
        <4>1. OutcomeFor(job.err) \in Outcomes
          BY DEF OutcomeFor, Outcomes
        <4>2. (job.session \in Rows /\ TypeOK) \/ pc = "idle"
          BY DEF IInv, JobInv
        <4> QED BY <2>1, <4>1, <4>2, SettleMove, LedgerMove, <3>2 DEF ResolveSession, RecordMachineLedger
      <3>4. \A r \in Rows, outcome \in Outcomes : sessions' # Settle(r, outcome)
        BY <2>1, SettleMove
      <3>5. {"unknown", "returned", "retained"} \subseteq Outcomes /\ OutcomeFor(job.err) \in Outcomes
        BY DEF OutcomeFor, Outcomes
      <3>6. ~ReconcileSettles
        BY <3>2, <3>4, <3>5 DEF ReconcileSettles, SettleAtBoot, IInv, JobInv
      <3>7. \A r \in Rows : ~Reconcile(r) /\ ~ReconcileUnreachable(r) /\ ~ReconcileUnfinished(r)
        BY <3>2, <3>4, <3>5 DEF Reconcile, ReconcileUnreachable, ReconcileUnfinished, SettleAtBoot
      <3> QED BY <2>1, <3>1, <3>2, <3>3, <3>6, <3>7, AsideStep, OnwardStep
        DEF Next, Bridge, CollectStep, BootStep, StartTransaction, Report, Crash, Boot, Serve,
            ReconcileFinished, table
    <2>3. PICK stored \in BOOLEAN : /\ sessions'[Len(sessions) + 1] = NewRow(o, amount, stored)
                                    /\ ~stored => Strikes("insert")
      BY <2>1, <2>2, BeginMove
    <2>4. s = Len(sessions) + 1
      BY <1>2, <2>1, <2>2, NothingGoes, BeginMove DEF Rows
    <2> QED BY <2>3, <2>4 DEF NewRow, Strikes
  <1> QED BY <1>1, <1>2

LEMMA OpenStep ==
  ASSUME IInv, PhaseInv, OpenInv, [Next]_vars
  PROVE  OpenInv'
  <1> SUFFICES ASSUME "resolve" \notin Faults
               PROVE  /\ phase' = "serving" =>
                           \A s \in Unresolved' : pc' \in Working /\ s = job'.session
                      /\ phase' = "boot" => Unresolved' \subseteq todo'
    BY DEF OpenInv
  <1>0. /\ TypeOK /\ (pc # "idle" => job.session \in Rows)
        /\ phase = "serving" => \A s \in Unresolved : pc \in Working /\ s = job.session
        /\ phase = "boot" => Unresolved \subseteq todo
    BY DEF IInv, JobInv, OpenInv
  <1>1. ASSUME Len(sessions') = Len(sessions)
        PROVE  Unresolved' \subseteq Unresolved
    <2>1. \A s \in Unresolved' : s \in Rows
      BY <1>1 DEF Unresolved, Rows
    <2> QED BY <2>1, StillUnresolved
  <1>2. CASE Aside \/ Onward
    BY <1>0, <1>1, <1>2 DEF Aside, Onward
  <1>3. ASSUME NEW o \in Orders, NEW amount \in 1..Total, Begin(o, amount)
        PROVE  /\ phase' = "serving" =>
                    \A s \in Unresolved' : pc' \in Working /\ s = job'.session
               /\ phase' = "boot" => Unresolved' \subseteq todo'
    <2>1. /\ phase = "serving" /\ phase' = "serving" /\ pc = "idle"
          /\ pc' = "start" /\ job'.session = Len(sessions) + 1
      BY <1>3 DEF Begin, NoJob, PhaseInv
    <2>2. Unresolved = {}
      BY <1>0, <2>1 DEF Working
    <2>3. Len(sessions') = Len(sessions) + 1
      BY <1>0, <1>3, BeginMove
    <2>4. \A s \in Unresolved' : s = Len(sessions) + 1
      <3>1. \A s \in Unresolved' : s \in 1..Len(sessions')
        BY DEF Unresolved, Rows
      <3> QED BY <2>2, <2>3, <3>1, StillUnresolved, NothingGoes DEF Rows
    <2> QED BY <2>1, <2>4 DEF Working
  <1>4. CASE StartTransaction
    <2>1. /\ UNCHANGED <<sessions, phase, todo>> /\ job'.session = job.session
          /\ pc' \in {"stamp", "resolve"}
      BY <1>0, <1>4 DEF StartTransaction, Fail, table, process, TypeOK, Job
    <2> QED BY <1>0, <1>1, <2>1 DEF Working
  <1>5. ASSUME NEW s \in Rows, NEW outcome \in Outcomes, sessions' = Settle(s, outcome)
        PROVE  Len(sessions') = Len(sessions) /\ Unresolved' \subseteq Unresolved \ {s}
    <2>1. Len(sessions') = Len(sessions) /\ (sessions[s].stored => sessions'[s].outcome # "none")
      BY <1>0, <1>5, SettleMove
    <2>2. Kept(sessions'[s], sessions[s])
      BY NothingGoes
    <2>3. s \notin Unresolved'
      BY <2>1, <2>2 DEF Unresolved, Kept
    <2> QED BY <1>1, <2>1, <2>3
  <1>6. {"unknown", "returned", "retained"} \subseteq Outcomes /\ OutcomeFor(job.err) \in Outcomes
    BY DEF OutcomeFor, Outcomes
  <1>7. CASE ResolveSession
    <2>1. /\ phase = "serving" /\ phase' = "serving" /\ pc = "resolve"
          /\ sessions' = Settle(job.session, OutcomeFor(job.err))
      BY <1>7 DEF ResolveSession, process, Strikes
    <2>2. Unresolved' \subseteq Unresolved \ {job.session}
      BY <1>0, <1>5, <1>6, <2>1
    <2> QED BY <1>0, <2>1, <2>2
  <1>8. CASE RecordMachineLedger
    <2>1. phase = "serving" /\ pc \notin Working /\ phase' = phase /\ pc # "idle"
      BY <1>8 DEF RecordMachineLedger, process, PhaseInv, Working
    <2>2. Len(sessions') = Len(sessions)
      BY <1>0, <1>8, <2>1, LedgerMove
    <2> QED BY <1>0, <1>1, <2>1, <2>2
  <1>9. CASE Report
    <2>1. /\ phase = "serving" /\ pc \notin Working /\ phase' = phase
          /\ sessions' = sessions
      BY <1>9 DEF Report, table, PhaseInv, Working
    <2> QED BY <1>0, <1>1, <2>1
  <1>10. CASE Crash
    BY <1>10 DEF Crash
  <1>11. CASE Boot
    <2>1. phase' = "boot" /\ todo' = Unresolved /\ sessions' = sessions
      BY <1>11 DEF Boot, table
    <2> QED BY <1>1, <2>1
  <1>12. CASE Serve
    <2>1. phase = "boot" /\ todo = {} /\ sessions' = sessions /\ phase' = "serving"
      BY <1>12 DEF Serve, table
    <2> QED BY <1>0, <1>1, <2>1
  <1>13. ASSUME NEW s \in Rows, Reconcile(s) \/ ReconcileUnreachable(s) \/ ReconcileUnfinished(s)
         PROVE  phase' = "boot" /\ Unresolved' \subseteq todo'
    <2>1. phase = "boot" /\ phase' = "boot" /\ todo' = todo \ {s}
      BY <1>13 DEF Reconcile, ReconcileUnreachable, ReconcileUnfinished, SettleAtBoot
    <2>2. \E outcome \in Outcomes : sessions' = Settle(s, outcome)
      BY <1>6, <1>13 DEF Reconcile, ReconcileUnreachable, ReconcileUnfinished, SettleAtBoot, Strikes
    <2> QED BY <1>0, <1>5, <2>1, <2>2
  <1>14. CASE ReconcileSettles
    <2>1. /\ phase = "boot" /\ phase' = "boot" /\ todo' = todo \ {job.session}
          /\ pc # "idle"
          /\ sessions' = Settle(job.session, OutcomeFor(job.err))
      BY <1>14 DEF ReconcileSettles, SettleAtBoot, Strikes
    <2> QED BY <1>0, <1>5, <1>6, <2>1
  <1>15. ASSUME NEW s \in Rows, ReconcileFinished(s)
         PROVE  phase' = "boot" /\ Unresolved' \subseteq todo'
    <2>1. phase = "boot" /\ UNCHANGED <<phase, todo, sessions>>
      BY <1>15 DEF ReconcileFinished, table, process
    <2> QED BY <1>0, <1>1, <2>1
  <1> QED BY <1>0, <1>2, <1>3, <1>4, <1>7, <1>8, <1>9, <1>10, <1>11, <1>12, <1>13, <1>14, <1>15,
             AsideStep, OnwardStep
    DEF Next, Bridge, CollectStep, BootStep

-----------------------------------------------------------------------------
(* Which row a transaction is stamped on, and what is booked. *)

LEMMA StampsItsOwn ==
  ASSUME IInv, PhaseInv, StoredInv, OpenInv, OneWriteFails, pc = "stamp",
         NEW s \in Stampable, \A r \in Stampable : r <= s
  PROVE  s = job.session
  <1>1. /\ phase = "serving" /\ job.session = Len(sessions) /\ job.session \in Rows
        /\ sessions[job.session].txn = 0 /\ sessions[job.session].outcome = "none"
    BY DEF IInv, JobInv, PhaseInv
  <1>2. s \in Rows /\ s \in Unresolved
    BY DEF Stampable, Unresolved
  <1>3. CASE "resolve" \notin Faults
    BY <1>1, <1>2, <1>3 DEF OpenInv
  <1>4. CASE "insert" \notin Faults
    <2>1. job.session \in Stampable
      BY <1>1, <1>4 DEF StoredInv, Stampable
    <2>2. Len(sessions) \in Nat
      BY NothingGoes, Typed DEF IInv
    <2> QED BY <1>1, <1>2, <2>1, <2>2 DEF Rows
  <1> QED BY <1>3, <1>4 DEF OneWriteFails

LEMMA FinishStep ==
  ASSUME IInv, OwnInv, [Next]_vars, pc' \in {"record", "insert"}
  PROVE  txns'[job'.txn].status = "finish"
  <1>0. /\ TypeOK
        /\ pc \in HasTxn => job.txn \in Txns
        /\ pc \in {"record", "insert"} => txns[job.txn].status = "finish"
        /\ \A t \in Txns : txns[t].status = "finish" => txns'[t].status = "finish"
    BY NothingGoes DEF IInv, JobInv, OwnInv, TxnsMove, Terminal
  <1>1. CASE pc \in {"record", "insert"} /\ job'.txn = job.txn
    BY <1>0, <1>1 DEF HasTxn
  <1>2. CASE PollEnded
    <2>1. Seen = "finish" /\ job'.txn = job.txn /\ txns' = txns
      BY <1>0, <1>2 DEF PollEnded, Fail, machine, TypeOK, Job
    <2> QED BY <2>1 DEF Seen
  <1>3. ASSUME NEW s \in Rows, ReconcileFinished(s)
        PROVE  txns'[job'.txn].status = "finish"
    BY <1>3 DEF ReconcileFinished, NoJob, machine
  <1>4. CASE Aside
    BY <1>0, <1>1, <1>4 DEF Aside
  <1>5. CASE Onward /\ ~PollEnded
    <2>1. job'.txn = job.txn
      BY <1>5 DEF Onward
    <2>2. CASE Record
      BY <1>1, <2>1, <2>2 DEF Record, RecordReplay, RecordCheck, RecordFails, InsertPayment,
                              OrderLifecycle
    <2>3. CASE ~Record
      <3>1. ~StartRefused /\ ~StampTransaction /\ ~Poll
        BY <1>5 DEF StartRefused, StampTransaction, Poll, PollFixes, PollWaits, ChangeShortage,
                    PollFails, Fail
      <3>2. \A o \in Orders, amount \in 1..Total : ~Begin(o, amount)
        BY DEF Begin
      <3>3. ~StartTransaction /\ ~ResolveSession /\ ~RecordMachineLedger /\ ~Report /\ ~Crash
        BY DEF StartTransaction, Fail, ResolveSession, RecordMachineLedger, Report, Crash
      <3>4. ~ReconcileSettles /\ ~Serve /\ (Boot => pc' = pc)
        BY DEF ReconcileSettles, Serve, Boot
      <3>5. \A s \in Rows : /\ ~Reconcile(s) /\ ~ReconcileUnreachable(s)
                            /\ ~ReconcileUnfinished(s) /\ ~ReconcileFinished(s)
        BY <1>5 DEF Reconcile, ReconcileUnreachable, ReconcileUnfinished, ReconcileFinished,
                    Onward, Working
      <3> QED BY <1>0, <1>1, <1>4, <2>1, <2>3, <3>1, <3>2, <3>3, <3>4, <3>5, AsideStep
        DEF Next, Bridge, CollectStep, BootStep, Aside
    <2> QED BY <2>2, <2>3
  <1>6. CASE ~Aside /\ ~Onward
    <2>1. \A o \in Orders, amount \in 1..Total : ~Begin(o, amount)
      BY DEF Begin
    <2>2. ~StartTransaction /\ ~ResolveSession /\ ~RecordMachineLedger /\ ~Report /\ ~Crash
      BY DEF StartTransaction, Fail, ResolveSession, RecordMachineLedger, Report, Crash
    <2>3. ~ReconcileSettles /\ ~Serve /\ (Boot => UNCHANGED <<pc, job>>)
      BY DEF ReconcileSettles, Serve, Boot
    <2>4. \A s \in Rows : ~Reconcile(s) /\ ~ReconcileUnreachable(s) /\ ~ReconcileUnfinished(s)
      BY DEF Reconcile, ReconcileUnreachable, ReconcileUnfinished
    <2> QED BY <1>0, <1>1, <1>3, <1>6, <2>1, <2>2, <2>3, <2>4, AsideStep, OnwardStep
      DEF Next, Bridge, CollectStep, BootStep
  <1> QED BY <1>2, <1>4, <1>5, <1>6

LEMMA JobOwnStep ==
  ASSUME IInv, OwnInv, OneWriteFails, [Next]_vars, pc' \in HasTxn
  PROVE  txns'[job'.txn].session = job'.session
  <1>0. /\ TypeOK
        /\ pc \in HasTxn => job.txn \in Txns /\ txns[job.txn].session = job.session
        /\ \A t \in Txns : txns'[t].session = txns[t].session
    BY NothingGoes DEF IInv, JobInv, OwnInv, TxnsMove
  <1>1. CASE pc \in HasTxn /\ job'.txn = job.txn /\ job'.session = job.session
    BY <1>0, <1>1
  <1>2. CASE Aside
    BY <1>1, <1>2 DEF Aside
  <1>3. CASE StartRefused \/ StampTransaction \/ Poll \/ Record
    <2>1. pc \in HasTxn
      BY <1>3 DEF StartRefused, Fail, StampTransaction, Poll, PollEnded, PollFixes, PollWaits,
                  ChangeShortage, PollFails, Record, RecordReplay, RecordCheck, RecordFails,
                  InsertPayment, OrderLifecycle, HasTxn
    <2>2. Onward
      BY <1>3, OnwardStep
    <2> QED BY <1>1, <2>1, <2>2 DEF Onward
  <1>4. CASE StartTransaction
    <2>1. /\ txns'[Len(txns) + 1] = NewTxn /\ NewTxn.session = job.session
          /\ job'.txn = Len(txns) + 1 /\ job'.session = job.session
      BY <1>0, <1>4, StartMove DEF StartTransaction, Fail, HasTxn, TypeOK, Job
    <2> QED BY <2>1
  <1>5. ASSUME NEW s \in Rows, ReconcileFinished(s)
        PROVE  txns'[job'.txn].session = job'.session
    BY <1>5 DEF ReconcileFinished, NoJob, machine, OwnInv
  <1>6. \A o \in Orders, amount \in 1..Total : ~Begin(o, amount)
    BY DEF Begin, HasTxn
  <1>7. ~ResolveSession /\ ~RecordMachineLedger /\ ~Report /\ ~Crash
    BY DEF HasTxn, ResolveSession, RecordMachineLedger, Report, Crash
  <1>8. ~ReconcileSettles /\ ~Serve /\ (Boot => UNCHANGED <<pc, job>>)
    BY DEF HasTxn, ReconcileSettles, Serve, Boot
  <1>9. \A s \in Rows : ~Reconcile(s) /\ ~ReconcileUnreachable(s) /\ ~ReconcileUnfinished(s)
    BY DEF HasTxn, Reconcile, ReconcileUnreachable, ReconcileUnfinished
  <1> QED BY <1>0, <1>1, <1>2, <1>3, <1>4, <1>5, <1>6, <1>7, <1>8, <1>9, AsideStep
    DEF Next, Bridge, CollectStep, BootStep

LEMMA RowOwnStep ==
  ASSUME IInv, PhaseInv, StoredInv, OpenInv, OwnInv, OneWriteFails, [Next]_vars,
         NEW s \in 1..Len(sessions'), sessions'[s].txn # 0
  PROVE  txns'[sessions'[s].txn].session = s
  <1>0. /\ Len(txns) \in Nat /\ Len(sessions) \in Nat
        /\ \A t \in Txns : txns'[t].session = txns[t].session
        /\ \A r \in Rows : /\ sessions[r].txn \in 0..Len(txns)
                           /\ sessions[r].txn # 0 => txns[sessions[r].txn].session = r
    BY NothingGoes DEF IInv, BoundsInv, OwnInv, TxnsMove
  <1>1. s \in Rows
    BY <1>0, RowsStep DEF RowsNext, Rows
  <1>2. CASE sessions'[s].txn = sessions[s].txn
    BY <1>0, <1>1, <1>2 DEF Txns
  <1>3. CASE /\ pc = "stamp" /\ sessions'[s].txn = job.txn /\ txns' = txns
             /\ s \in Stampable /\ \A r \in Stampable : r <= s
    BY <1>3, StampsItsOwn DEF OwnInv, HasTxn
  <1> QED BY <1>1, <1>2, <1>3, RowsStep DEF RowsNext

LEMMA BookedRightStep ==
  ASSUME IInv, OwnInv, OneWriteFails, [Next]_vars
  PROVE  BookedRight'
  <1> SUFFICES ASSUME NEW p \in 1..Len(payments'), payments'[p].txn # 0
               PROVE  /\ payments'[p].txn \in 1..Len(txns')
                      /\ txns'[payments'[p].txn].status = "finish"
                      /\ payments'[p].order = sessions'[txns'[payments'[p].txn].session].order
                      /\ payments'[p].amount = txns'[payments'[p].txn].amount
    BY DEF BookedRight, PaymentIds, Txns, OwnerOf
  <1>1. CASE p \in PaymentIds
    <2> DEFINE t == payments[p].txn
    <2>1. /\ t \in Txns /\ txns[t].status = "finish" /\ payments'[p] = payments[p]
          /\ payments[p].order = sessions[txns[t].session].order
          /\ payments[p].amount = txns[t].amount
          /\ txns[t].session \in Rows
      BY <1>1, NothingGoes DEF OwnInv, BookedRight, OwnerOf, IInv, BoundsInv
    <2>2. /\ txns'[t].status = "finish" /\ txns'[t].amount = txns[t].amount
          /\ txns'[t].session = txns[t].session
      BY <2>1, NothingGoes DEF TxnsMove, Terminal
    <2>3. sessions'[txns[t].session].order = sessions[txns[t].session].order
      BY <2>1, NothingGoes DEF Kept
    <2>4. t \in 1..Len(txns')
      BY <2>1, NothingGoes DEF Txns
    <2> QED BY <2>1, <2>2, <2>3, <2>4
  <1>2. CASE p \notin PaymentIds
    <2>1. p = Len(payments) + 1 /\ InsertPayment
      BY <1>2, PaysStep, NothingGoes DEF PaysNext, PaymentIds
    <2>2. payments'[p] = [order |-> OrderOfJob, amount |-> AmountOfJob, txn |-> job.txn]
      BY <2>1, InsertMove
    <2>3. /\ job.txn \in Txns /\ txns[job.txn].status = "finish"
          /\ txns[job.txn].session = job.session
          /\ UNCHANGED <<txns, sessions>>
      BY <2>1 DEF InsertPayment, machine, IInv, JobInv, OwnInv, HasTxn
    <2> QED BY <2>2, <2>3 DEF OrderOfJob, AmountOfJob, Txns
  <1> QED BY <1>1, <1>2

LEMMA OwnStep ==
  ASSUME IInv, PhaseInv, StoredInv, OpenInv, OwnInv, [Next]_vars
  PROVE  OwnInv'
  <1>1. pc' \in {"record", "insert"} => txns'[job'.txn].status = "finish"
    BY FinishStep
  <1>2. ASSUME OneWriteFails
        PROVE  /\ pc' \in HasTxn => txns'[job'.txn].session = job'.session
               /\ \A s \in 1..Len(sessions') :
                    sessions'[s].txn # 0 => txns'[sessions'[s].txn].session = s
               /\ BookedRight'
    BY <1>2, JobOwnStep, RowOwnStep, BookedRightStep
  <1>3. OneWriteFails' <=> OneWriteFails
    BY DEF OneWriteFails
  <1> QED BY <1>1, <1>2, <1>3 DEF OwnInv, Rows

-----------------------------------------------------------------------------
(* Where the cash is. *)

LEMMA AccountedStays ==
  ASSUME IInv, [Next]_vars, NEW t \in Txns, Accounted(t)
  PROVE  Accounted(t)'
  <1>0. /\ txns'[t].session = txns[t].session /\ txns[t].session \in Rows
        /\ txns[t].status = "cancel" => txns'[t].status = "cancel"
    BY NothingGoes DEF TxnsMove, Terminal, IInv, BoundsInv
  <1>1. CASE txns[t].status = "cancel"
    BY <1>0, <1>1 DEF Accounted
  <1>2. CASE BookedAs(t) # {}
    <2>1. PICK p \in PaymentIds : payments[p].txn = t
      BY <1>2 DEF BookedAs
    <2>2. p \in 1..Len(payments') /\ payments'[p].txn = t
      BY <2>1, NothingGoes DEF PaymentIds
    <2> QED BY <2>2 DEF Accounted, BookedAs, PaymentIds
  <1>3. CASE Alerted(t)
    <2>1. \E a \in alerts' : a.key \in {<<"txn", t>>, <<"session", txns[t].session>>}
      BY <1>3, AlertsGrow DEF Alerted
    <2> QED BY <1>0, <2>1 DEF Accounted, Alerted
  <1>4. CASE ~sessions[txns[t].session].stored
    BY <1>0, <1>4, NothingGoes DEF Accounted, Kept
  <1> QED BY <1>1, <1>2, <1>3, <1>4 DEF Accounted

LEMMA OpenRowStays ==
  ASSUME IInv, [Next]_vars, NEW t \in Txns, OpenRow(t),
         sessions'[txns[t].session].outcome = sessions[txns[t].session].outcome,
         sessions'[txns[t].session].txn \in {sessions[txns[t].session].txn, t}
  PROVE  OpenRow(t)'
  <1>1. /\ txns'[t].session = txns[t].session
        /\ txns[t].session \in Unresolved /\ txns[t].session \in 1..Len(sessions)
    BY NothingGoes DEF TxnsMove, OpenRow, Unresolved, Rows
  <1>2. sessions'[txns[t].session].stored = sessions[txns[t].session].stored
    BY <1>1, NothingGoes DEF Kept, Rows
  <1>3. txns[t].session \in 1..Len(sessions')
    BY <1>1, NothingGoes
  <1> QED BY <1>1, <1>2, <1>3 DEF OpenRow, Unresolved, Rows

(* The watch of a transaction, or its booking, ends in somebody knowing.   *)
LEMMA FailTells ==
  ASSUME NEW err, NEW status, Fail(err, status), CashMayBeRetained(err), job.txn # 0
  PROVE  \E a \in alerts' : a.key = <<"txn", job.txn>>
  <1>1. Alert("cash_retained", <<"txn", job.txn>>) \in alerts'
    BY DEF Fail, Subject
  <1> QED BY <1>1 DEF Alert

LEMMA NotRecordedTells ==
  ASSUME NotRecorded
  PROVE  \E a \in alerts' : a.key = <<"txn", job.txn>>
  <1>1. Alert("cash_collected_not_recorded", <<"txn", job.txn>>) \in alerts'
    BY DEF NotRecorded
  <1> QED BY <1>1 DEF Alert

LEMMA WatchEnds ==
  ASSUME IInv, CashInv, "uncancelled" \notin Faults, Poll \/ Record, [Next]_vars,
         pc' \in {"lifecycle", "resolve"}, NEW t \in Txns, t = job.txn
  PROVE  Accounted(t)'
  <1>1. TypeOK /\ job.txn # 0
    BY NothingGoes DEF IInv, Txns
  <1>2. ASSUME \E a \in alerts' : a.key = <<"txn", t>>
        PROVE  Accounted(t)'
    BY <1>2 DEF Accounted, Alerted
  <1>3. CASE PollEnded
    <2>1. CASE Seen = "cancel"
      BY <1>3, <2>1 DEF PollEnded, machine, Seen, Accounted
    <2>2. CASE Seen # "cancel"
      <3>1. Fail("retained", Seen)
        BY <1>3, <2>2 DEF PollEnded
      <3> QED BY <1>1, <1>2, <3>1, FailTells DEF CashMayBeRetained
    <2> QED BY <2>1, <2>2
  <1>4. CASE ChangeShortage
    <2>1. txns' = Returned /\ txns[t].status \in {"deposit", "sufficient"}
      BY <1>4 DEF ChangeShortage, Strikes, Seen
    <2>2. txns'[t].status = "cancel"
      BY <1>1, <2>1, Typed DEF Returned, Txn
    <2> QED BY <2>2 DEF Accounted
  <1>5. CASE PollFails
    <2>1. Fail("error", job.status)
      BY <1>5 DEF PollFails
    <2> QED BY <1>1, <1>2, <2>1, FailTells DEF CashMayBeRetained
  <1>6. CASE RecordReplay
    <2>1. BookedAs(t) # {} /\ payments' = payments
      BY <1>6 DEF RecordReplay, table
    <2> QED BY <2>1, AccountedStays DEF Accounted
  <1>7. CASE RecordCheck \/ RecordFails
    <2>1. NotRecorded
      BY <1>7 DEF RecordCheck, RecordFails
    <2> QED BY <1>2, <2>1, NotRecordedTells
  <1>8. CASE InsertPayment
    <2>1. Len(payments) + 1 \in 1..Len(payments') /\ payments'[Len(payments) + 1].txn = t
      BY <1>8, InsertMove, NothingGoes
    <2> QED BY <2>1 DEF Accounted, BookedAs, PaymentIds
  <1>9. CASE OrderLifecycle
    BY <1>1, <1>9, AccountedStays DEF OrderLifecycle, CashInv
  <1> QED BY <1>3, <1>4, <1>5, <1>6, <1>7, <1>8, <1>9
    DEF Poll, PollFixes, PollWaits, Record

LEMMA HandedOn ==
  ASSUME IInv, PhaseInv, CashInv, "uncancelled" \notin Faults, Poll \/ Record, [Next]_vars,
         NEW t \in Txns, OpenRow(t), Entrusted(t)
  PROVE  Accounted(t)' \/ (OpenRow(t) /\ Entrusted(t))'
  <1>1. UNCHANGED <<sessions, phase, todo>> /\ phase # "down"
    BY DEF Poll, PollEnded, PollFixes, PollWaits, ChangeShortage, PollFails, Record, RecordReplay,
           RecordCheck, RecordFails, InsertPayment, OrderLifecycle, table, process, PhaseInv
  <1>2. OpenRow(t)' /\ txns'[t].session = txns[t].session
    BY <1>1, OpenRowStays, NothingGoes DEF TxnsMove
  <1>3. CASE phase = "boot"
    BY <1>1, <1>2, <1>3 DEF Entrusted
  <1>4. CASE phase = "serving"
    <2>1. job.txn = t
      BY <1>4 DEF Entrusted
    <2>2. CASE pc' \in {"lifecycle", "resolve"}
      BY <2>1, <2>2, WatchEnds
    <2>3. CASE pc' \in {"stamp", "poll", "record", "insert"}
      <3>1. job'.txn = job.txn
        BY OnwardStep DEF Onward
      <3> QED BY <1>1, <1>2, <1>4, <2>1, <2>3, <3>1 DEF Entrusted
    <2>4. pc' \in Working \ {"start", "stamp"}
      BY OnwardStep DEF Onward
    <2> QED BY <2>2, <2>3, <2>4 DEF Working
  <1> QED BY <1>1, <1>3, <1>4 DEF IInv, TypeOK

LEMMA SettleAtBootHands ==
  ASSUME IInv, [Next]_vars, NEW t \in Txns, OpenRow(t), Entrusted(t), NEW s \in Rows,
         txns[t].session # s, phase = "boot", phase' = "boot", todo' = todo \ {s},
         sessions' = sessions \/ \E outcome \in Outcomes : sessions' = Settle(s, outcome)
  PROVE  (OpenRow(t) /\ Entrusted(t))'
  <1>1. txns[t].session \in Rows /\ txns'[t].session = txns[t].session
    BY NothingGoes DEF OpenRow, Unresolved, TxnsMove
  <1>2. sessions'[txns[t].session] = sessions[txns[t].session]
    BY <1>1, SettleMove DEF IInv
  <1>3. OpenRow(t)'
    BY <1>2, OpenRowStays
  <1> QED BY <1>1, <1>3 DEF Entrusted

LEMMA ReconcileHands ==
  ASSUME IInv, [Next]_vars, NEW t \in Txns, OpenRow(t), Entrusted(t), NEW s \in Rows,
         Reconcile(s) \/ ReconcileUnreachable(s) \/ ReconcileUnfinished(s)
  PROVE  Accounted(t)' \/ (OpenRow(t) /\ Entrusted(t))'
  <1>1. /\ phase = "boot" /\ phase' = "boot" /\ todo' = todo \ {s} /\ txns' = txns
        /\ sessions' = sessions \/ \E outcome \in Outcomes : sessions' = Settle(s, outcome)
    BY DEF Reconcile, ReconcileUnreachable, ReconcileUnfinished, SettleAtBoot, machine, Outcomes
  <1>2. CASE txns[t].session # s
    BY <1>1, <1>2, SettleAtBootHands
  <1>3. CASE txns[t].session = s
    <2>1. sessions[s].txn # 0 => sessions[s].txn = t
      BY <1>3 DEF OpenRow
    <2>2. ASSUME \E a \in alerts' : a.key \in {<<"txn", t>>, <<"session", s>>}
          PROVE  Accounted(t)'
      BY <1>1, <1>3, <2>2 DEF Accounted, Alerted
    <2>3. CASE Reconcile(s)
      <3>1. Alert("cash_collected_not_recorded", <<"session", s>>) \in alerts'
        BY <2>3 DEF Reconcile, SettleAtBoot
      <3> QED BY <2>2, <3>1 DEF Alert
    <2>4. CASE ReconcileUnreachable(s)
      <3>1. Alert("cash_collected_not_recorded", <<"txn", t>>) \in alerts'
        BY <2>1, <2>4 DEF ReconcileUnreachable
      <3> QED BY <2>2, <3>1 DEF Alert
    <2>5. CASE ReconcileUnfinished(s)
      <3>1. sessions[s].txn = t
        BY <2>1, <2>5 DEF ReconcileUnfinished
      <3>2. CASE txns[t].status = "cancel"
        BY <1>1, <3>2 DEF Accounted
      <3>3. CASE txns[t].status # "cancel"
        <4>1. Alert("cash_retained", <<"txn", t>>) \in alerts'
          BY <2>5, <3>1, <3>3 DEF ReconcileUnfinished, SettleAtBoot
        <4> QED BY <2>2, <4>1 DEF Alert
      <3> QED BY <3>2, <3>3
    <2> QED BY <2>3, <2>4, <2>5
  <1> QED BY <1>2, <1>3

LEMMA OldCashStep ==
  ASSUME IInv, PhaseInv, CashInv, "uncancelled" \notin Faults, [Next]_vars,
         NEW t \in Txns, OpenRow(t), Entrusted(t)
  PROVE  Accounted(t)' \/ (OpenRow(t) /\ Entrusted(t))'
  <1>0. /\ TypeOK /\ (pc # "idle" => job.session \in Rows)
        /\ txns[t].session \in Rows /\ txns'[t].session = txns[t].session
        /\ phase = "serving" => pc \in {"stamp", "poll", "record", "insert"} /\ job.txn = t
        /\ phase = "boot" => txns[t].session \in todo
    BY NothingGoes DEF IInv, JobInv, OpenRow, Unresolved, Entrusted, TxnsMove
  <1>1. ASSUME sessions' = sessions
        PROVE  OpenRow(t)'
    BY <1>1, OpenRowStays
  <1>2. CASE Aside
    <2>1. OpenRow(t)'
      BY <1>0, <1>2, OpenRowStays DEF Aside
    <2> QED BY <1>0, <1>2, <2>1 DEF Aside, Entrusted
  <1>3. \A o \in Orders, amount \in 1..Total : ~Begin(o, amount)
    BY <1>0 DEF Begin, PhaseInv
  <1>4. ~StartTransaction /\ ~StartRefused
    BY <1>0 DEF StartTransaction, StartRefused, PhaseInv
  <1>5. CASE StampTransaction
    <2>1. /\ pc = "stamp" /\ pc' = "poll" /\ job' = job /\ phase = "serving" /\ phase' = "serving"
          /\ job.txn = t
      BY <1>0, <1>5 DEF StampTransaction, process, PhaseInv
    <2>2. /\ sessions'[txns[t].session].txn \in {sessions[txns[t].session].txn, t}
          /\ sessions'[txns[t].session].outcome = sessions[txns[t].session].outcome
      BY <1>0, <1>5, <2>1, StampMove DEF TypeOK, Job, OpenRow, Unresolved
    <2>3. OpenRow(t)'
      BY <2>2, OpenRowStays
    <2> QED BY <2>1, <2>3 DEF Entrusted
  <1>6. CASE Poll \/ Record
    BY <1>6, HandedOn
  <1>7. ~ResolveSession /\ ~RecordMachineLedger /\ ~Report
    BY <1>0 DEF ResolveSession, RecordMachineLedger, Report, PhaseInv
  <1>8. CASE Crash
    BY <1>1, <1>8 DEF Crash, table, Entrusted
  <1>9. CASE Boot
    BY <1>0, <1>1, <1>9 DEF Boot, table, Entrusted, OpenRow
  <1>10. ~Serve
    BY <1>0 DEF Serve
  <1>11. ASSUME NEW s \in Rows, Reconcile(s) \/ ReconcileUnreachable(s) \/ ReconcileUnfinished(s)
         PROVE  Accounted(t)' \/ (OpenRow(t) /\ Entrusted(t))'
    BY <1>11, ReconcileHands
  <1>12. ASSUME NEW s \in Rows, ReconcileFinished(s)
         PROVE  Accounted(t)' \/ (OpenRow(t) /\ Entrusted(t))'
    BY <1>0, <1>1, <1>12 DEF ReconcileFinished, table, process, Entrusted
  <1>13. CASE ReconcileSettles
    <2>1. /\ phase = "boot" /\ phase' = "boot" /\ pc = "resolve" /\ job.session \in Rows
          /\ todo' = todo \ {job.session}
          /\ sessions' = sessions \/ \E outcome \in Outcomes : sessions' = Settle(job.session, outcome)
      BY <1>0, <1>13 DEF ReconcileSettles, SettleAtBoot, OutcomeFor, Outcomes
    <2>2. CASE txns[t].session # job.session
      BY <2>1, <2>2, SettleAtBootHands
    <2>3. CASE txns[t].session = job.session
      <3>1. job.txn = sessions[job.session].txn /\ job.txn # 0 /\ Accounted(job.txn)
        BY <2>1 DEF CashInv
      <3>2. job.txn = t
        BY <2>3, <3>1 DEF OpenRow
      <3> QED BY <3>1, <3>2, AccountedStays
    <2> QED BY <2>2, <2>3
  <1> QED BY <1>0, <1>2, <1>3, <1>4, <1>5, <1>6, <1>7, <1>8, <1>9, <1>10, <1>11, <1>12, <1>13, AsideStep
    DEF Next, Bridge, CollectStep, BootStep

LEMMA NewCashStep ==
  ASSUME IInv, PhaseInv, CashInv, "uncancelled" \notin Faults, [Next]_vars,
         NEW t \in 1..Len(txns'), t \notin Txns
  PROVE  Accounted(t)' \/ (OpenRow(t) /\ Entrusted(t))'
  <1>1. /\ t = Len(txns) + 1 /\ pc = "start" /\ pc' # "start" /\ sessions' = sessions
        /\ txns'[t].session = job.session /\ txns' # txns
    BY TxnsStep, NothingGoes DEF TxnsNext, Txns
  <1>2. StartTransaction
    BY <1>1
      DEF Next, Bridge, MachineStep, CollectStep, BootStep, Poll, Record, vars, machine, table,
          process, CustomerPays, DepositTimeout, Dispensed, PowerLoss, DispenseFails, Becomes,
          CancelSession, CancelArrives, Begin, OtherPayment, StartRefused,
          StampTransaction, PollEnded, PollFixes, PollWaits, ChangeShortage, PollFails,
          RecordReplay, RecordCheck, RecordFails, InsertPayment, OrderLifecycle, ResolveSession,
          RecordMachineLedger, Report, SyncUp, Push, IntakeFails, PushUnanswered, Pushed, Crash,
          Boot, Reconcile, ReconcileUnreachable, ReconcileUnfinished, ReconcileFinished,
          ReconcileSettles, Serve
  <1>3. /\ phase = "serving" /\ phase' = "serving" /\ job.session \in Rows /\ TypeOK
        /\ sessions[job.session].txn = 0 /\ sessions[job.session].outcome = "none"
        /\ job.txn = 0
    BY <1>1, <1>2 DEF PhaseInv, IInv, JobInv, CashInv, StartTransaction, process
  <1>4. CASE pc' = "stamp"
    <2>1. job'.txn = t
      BY <1>1, <1>2, <1>3, <1>4 DEF StartTransaction, Fail, TypeOK, Job
    <2>2. CASE sessions[job.session].stored
      <3>1. OpenRow(t)'
        BY <1>1, <1>3, <2>2 DEF OpenRow, Unresolved, Rows
      <3> QED BY <1>3, <1>4, <2>1, <3>1 DEF Entrusted
    <2>3. CASE ~sessions[job.session].stored
      BY <1>1, <2>3 DEF Accounted
    <2> QED BY <2>2, <2>3
  <1>5. CASE pc' # "stamp"
    <2>1. Alert("cash_retained", <<"session", job.session>>) \in alerts'
      BY <1>2, <1>3, <1>5 DEF StartTransaction, Fail, CashMayBeRetained, Subject
    <2>2. \E a \in alerts' : a.key = <<"session", txns'[t].session>>
      BY <1>1, <2>1 DEF Alert
    <2> QED BY <2>2 DEF Accounted, Alerted
  <1> QED BY <1>4, <1>5

LEMMA BootJobStep ==
  ASSUME IInv, PhaseInv, CashInv, "uncancelled" \notin Faults, [Next]_vars
  PROVE  /\ pc' = "start" => job'.txn = 0
         /\ phase' = "boot" /\ pc' # "idle" => /\ job'.txn = sessions'[job'.session].txn
                                               /\ job'.txn # 0 /\ job'.session \in todo'
         /\ pc' \in {"lifecycle", "resolve"} /\ job'.txn # 0 =>
              job'.txn \in 1..Len(txns') /\ Accounted(job.txn)'
  <1> DEFINE Goal ==
        /\ pc' = "start" => job'.txn = 0
        /\ phase' = "boot" /\ pc' # "idle" => /\ job'.txn = sessions'[job'.session].txn
                                              /\ job'.txn # 0 /\ job'.session \in todo'
        /\ pc' \in {"lifecycle", "resolve"} /\ job'.txn # 0 =>
             job'.txn \in 1..Len(txns') /\ Accounted(job.txn)'
  <1>0. /\ TypeOK /\ (pc # "idle" => job.session \in Rows)
        /\ Txns \subseteq 1..Len(txns')
        /\ pc \in HasTxn => job.txn \in Txns
        /\ pc = "start" => job.txn = 0
        /\ phase = "boot" /\ pc # "idle" => /\ job.txn = sessions[job.session].txn /\ job.txn # 0
                                            /\ job.session \in todo
        /\ pc \in {"lifecycle", "resolve"} /\ job.txn # 0 => job.txn \in Txns /\ Accounted(job.txn)
    BY NothingGoes DEF IInv, JobInv, CashInv, Txns
  <1>1. ASSUME NEW t \in Txns, Accounted(t), job'.txn = t
        PROVE  Accounted(job.txn)'
    <2>1. Accounted(t)'
      BY <1>1, AccountedStays
    <2> QED BY <1>1, <2>1 DEF Accounted, BookedAs, Alerted
  <1>2. CASE Aside
    <2>1. UNCHANGED <<pc, job, phase, todo>>
      BY <1>2 DEF Aside
    <2>2. pc # "idle" => sessions'[job.session].txn = sessions[job.session].txn
      BY <1>0, <1>2 DEF Aside
    <2>3. pc \in {"lifecycle", "resolve"} /\ job.txn # 0 => Accounted(job.txn)'
      BY <1>0, <1>1, <2>1
    <2> QED BY <1>0, <2>1, <2>2, <2>3
  <1>3. ASSUME NEW o \in Orders, NEW amount \in 1..Total, Begin(o, amount)
        PROVE  Goal
    BY <1>3 DEF Begin, NoJob
  <1>4. CASE StartTransaction \/ StartRefused
    <2>1. phase' = "serving" /\ pc' \in {"stamp", "resolve"} /\ job.txn = 0
      BY <1>0, <1>4 DEF StartTransaction, StartRefused, Fail, process, PhaseInv
    <2>2. pc' = "resolve" => job'.txn = job.txn
      BY <1>0, <1>4 DEF StartTransaction, StartRefused, Fail, TypeOK, Job
    <2> QED BY <2>1, <2>2
  <1>5. CASE StampTransaction
    BY <1>5 DEF StampTransaction, process, PhaseInv
  <1>6. CASE Poll \/ Record
    <2>1. /\ pc' \in Working \ {"start", "stamp"} /\ UNCHANGED <<phase, todo>>
          /\ job'.txn = job.txn /\ job'.session = job.session
      BY <1>6, OnwardStep DEF Onward
    <2>2. sessions' = sessions /\ pc \in HasTxn
      BY <1>6 DEF Poll, PollEnded, PollFixes, PollWaits, ChangeShortage, PollFails, Record,
                  RecordReplay, RecordCheck, RecordFails, InsertPayment, OrderLifecycle, table, HasTxn
    <2>3. ASSUME pc' \in {"lifecycle", "resolve"}
          PROVE  Accounted(job.txn)'
      <3>1. PICK t \in Txns : t = job.txn
        BY <1>0, <2>2
      <3>2. Accounted(t)'
        BY <1>6, <2>3, <3>1, WatchEnds
      <3> QED BY <2>1, <3>1, <3>2 DEF Accounted, BookedAs, Alerted
    <2> QED BY <1>0, <2>1, <2>2, <2>3, NothingGoes DEF Working, HasTxn
  <1>7. CASE ResolveSession \/ RecordMachineLedger \/ Report
    <2>1. phase' = "serving" /\ pc' \in {"ledger", "report", "idle"}
      BY <1>7 DEF ResolveSession, RecordMachineLedger, Report, process, PhaseInv
    <2> QED BY <2>1
  <1>8. CASE Crash \/ Boot \/ Serve \/ ReconcileSettles
    <2>1. pc' = "idle"
      BY <1>8 DEF Crash, Boot, Serve, ReconcileSettles, PhaseInv
    <2> QED BY <2>1
  <1>9. ASSUME NEW s \in Rows, Reconcile(s) \/ ReconcileUnreachable(s) \/ ReconcileUnfinished(s)
        PROVE  Goal
    <2>1. pc' = "idle"
      BY <1>9 DEF Reconcile, ReconcileUnreachable, ReconcileUnfinished
    <2> QED BY <2>1
  <1>10. ASSUME NEW s \in Rows, ReconcileFinished(s)
         PROVE  Goal
    <2>1. /\ pc' = "record" /\ job'.txn = sessions[s].txn /\ job'.txn # 0 /\ job'.session = s
          /\ s \in todo' /\ sessions' = sessions
      BY <1>10 DEF ReconcileFinished, NoJob, table, process, Oldest
    <2> QED BY <2>1
  <1>11. \/ Aside \/ StartTransaction \/ StartRefused \/ StampTransaction \/ Poll \/ Record
         \/ ResolveSession \/ RecordMachineLedger \/ Report
         \/ Crash \/ Boot \/ Serve \/ ReconcileSettles
         \/ \E o \in Orders, amount \in 1..Total : Begin(o, amount)
         \/ \E s \in Rows : \/ Reconcile(s) \/ ReconcileUnreachable(s)
                            \/ ReconcileUnfinished(s) \/ ReconcileFinished(s)
    BY <1>0, AsideStep DEF Next, Bridge, CollectStep, BootStep
  <1> QED BY <1>2, <1>3, <1>4, <1>5, <1>6, <1>7, <1>8, <1>9, <1>10, <1>11

LEMMA CashStep ==
  ASSUME IInv, PhaseInv, CashInv, [Next]_vars
  PROVE  CashInv'
  <1> SUFFICES ASSUME "uncancelled" \notin Faults
               PROVE  /\ \A t \in 1..Len(txns') : Accounted(t)' \/ (OpenRow(t) /\ Entrusted(t))'
                      /\ pc' = "start" => job'.txn = 0
                      /\ phase' = "boot" /\ pc' # "idle" =>
                           /\ job'.txn = sessions'[job'.session].txn
                           /\ job'.txn # 0 /\ job'.session \in todo'
                      /\ pc' \in {"lifecycle", "resolve"} /\ job'.txn # 0 =>
                           job'.txn \in 1..Len(txns') /\ Accounted(job.txn)'
    BY DEF CashInv, Txns
  <1>1. ASSUME NEW t \in 1..Len(txns')
        PROVE  Accounted(t)' \/ (OpenRow(t) /\ Entrusted(t))'
    <2>1. CASE t \in Txns
      <3>1. Accounted(t) \/ (OpenRow(t) /\ Entrusted(t))
        BY <2>1 DEF CashInv
      <3> QED BY <2>1, <3>1, AccountedStays, OldCashStep
    <2>2. CASE t \notin Txns
      BY <2>2, NewCashStep
    <2> QED BY <2>1, <2>2
  <1> QED BY <1>1, BootJobStep

-----------------------------------------------------------------------------
(* Together. *)

LEMMA InitSafe == Init => SafeInv
  <1> SUFFICES ASSUME Init PROVE SafeInv
    OBVIOUS
  <1>1. IInv /\ txns = <<>> /\ sessions = <<>> /\ payments = <<>> /\ Len(<<>>) = 0
    BY InitIInv DEF Init
  <1> QED BY <1>1 DEF Init, SafeInv, PhaseInv, StoredInv, OpenInv, OwnInv, CashInv, BookedRight,
                      HasTxn, Rows, Txns, PaymentIds, Unresolved

LEMMA NextSafe == SafeInv /\ [Next]_vars => SafeInv'
  BY NextIInv, PhaseStep, StoredStep, OpenStep, OwnStep, CashStep DEF SafeInv

(***************************************************************************)
(* SafeInv holds of every reachable state; what each part assumes of the   *)
(* faults is in the part.                                                  *)
(***************************************************************************)
THEOREM Safety == Spec => []SafeInv
  BY InitSafe, NextSafe, PTL DEF Spec

(***************************************************************************)
(* What is booked for the machine is what it finished, on the order whose  *)
(* collection started it, for its amount, also after restarts: provided    *)
(* the insert of a session row or its resolution may fail, not both.       *)
(***************************************************************************)
THEOREM BookedOnItsOwner == OneWriteFails => (Spec => []BookedRight)
  <1>1. OneWriteFails /\ SafeInv => BookedRight
    BY DEF SafeInv, OwnInv
  <1>2. OneWriteFails => []OneWriteFails
    <2>1. OneWriteFails => OneWriteFails'
      BY DEF OneWriteFails
    <2> QED BY <2>1, PTL
  <1> QED BY <1>1, <1>2, Safety, PTL

CashReturns == "uncancelled" \notin Faults

(***************************************************************************)
(* Cash the machine keeps never goes unnoticed, whatever fails and however *)
(* often the workstation dies, if a cancel the machine is asked for after  *)
(* a change shortage does return the cash.                                 *)
(***************************************************************************)
THEOREM CashIsNeverSilent == CashReturns => (Spec => []NoSilentCash)
  <1>1. CashReturns /\ SafeInv => NoSilentCash
    <2> SUFFICES ASSUME CashReturns, SafeInv, NEW t \in Txns, KeptByMachine(t)
                 PROVE  \/ BookedAs(t) # {} \/ Alerted(t) \/ InHand(t)
                        \/ ~sessions[txns[t].session].stored
      BY DEF NoSilentCash
    <2>1. Accounted(t) \/ OpenRow(t)
      BY DEF SafeInv, CashInv, CashReturns
    <2> QED BY <2>1 DEF Accounted, OpenRow, InHand, KeptByMachine
  <1>2. CashReturns => []CashReturns
    <2>1. CashReturns => CashReturns'
      BY DEF CashReturns
    <2> QED BY <2>1, PTL
  <1> QED BY <1>1, <1>2, Safety, PTL

-----------------------------------------------------------------------------
(* The refinement: the machine's finish is Finish, the insert is Book. *)

Finished == [t \in FinishedTxns |-> [order |-> OwnerOf(t), amount |-> txns[t].amount]]

Books == {[txn |-> payments[p].txn, order |-> payments[p].order, amount |-> payments[p].amount] :
            p \in {q \in PaymentIds : payments[q].txn # 0}}

LEMMA FinishedByMachine ==
  ASSUME IInv, [Next]_vars, NEW t \in 1..Len(txns'), txns'[t].status = "finish",
         ~(t \in Txns /\ txns[t].status = "finish")
  PROVE  t \in Txns /\ Dispensed(t)
  <1>0. TypeOK
    BY DEF IInv
  <1>1. t \in Txns
    BY TxnsStep, NothingGoes DEF TxnsNext, Txns
  <1>2. txns'[t] # txns[t]
    BY <1>1
  <1>3. ~StartTransaction
    BY <1>1, <1>2, StartMove
  <1>4. txns' # Returned
    BY <1>0, <1>1, ReturnedMove
  <1>5. ASSUME NEW u \in Txns, NEW to \in Statuses \ {"finish"}, txns[u].status \notin Terminal,
               txns' = [txns EXCEPT ![u].status = to]
        PROVE  FALSE
    BY <1>0, <1>1, <1>5, StatusSet
  <1>6. ~PollFixes
    <2>1. PollFixes => job.txn \in Txns /\ txns[job.txn].status \notin Terminal
      BY DEF IInv, JobInv, HasTxn, PollFixes, Seen, Terminal
    <2>2. "dispense" \in Statuses \ {"finish"}
      BY DEF Statuses
    <2> QED BY <1>5, <2>1, <2>2 DEF PollFixes
  <1>7. ASSUME NEW u \in Txns,
               CustomerPays(u) \/ DepositTimeout(u) \/ PowerLoss(u) \/ DispenseFails(u)
        PROVE  FALSE
    <2>1. \E to \in Statuses \ {"finish"} :
            txns[u].status \notin Terminal /\ txns' = [txns EXCEPT ![u].status = to]
      BY <1>7 DEF CustomerPays, DepositTimeout, PowerLoss, DispenseFails, Becomes, Statuses, Terminal
    <2> QED BY <1>5, <2>1
  <1>8. \E u \in Txns : Dispensed(u)
    BY <1>2, <1>3, <1>4, <1>6, <1>7
      DEF Next, Bridge, MachineStep, CollectStep, BootStep, Poll, Record, vars, machine, table,
          process, CancelSession, CancelArrives, Begin, OtherPayment, StartRefused,
          StampTransaction, PollEnded, PollWaits, ChangeShortage, PollFails, RecordReplay,
          RecordCheck, RecordFails, InsertPayment, OrderLifecycle, ResolveSession,
          RecordMachineLedger, Report, SyncUp, Push, IntakeFails, PushUnanswered, Pushed, Crash,
          Boot, Reconcile, ReconcileUnreachable, ReconcileUnfinished, ReconcileFinished,
          ReconcileSettles, Serve
  <1>9. PICK u \in Txns : Dispensed(u)
    BY <1>8
  <1>10. u = t
    BY <1>0, <1>1, <1>2, <1>9, Typed DEF Dispensed, Becomes
  <1> QED BY <1>1, <1>9, <1>10

LEMMA FinishedKept ==
  ASSUME IInv, [Next]_vars, NEW t \in FinishedTxns
  PROVE  t \in FinishedTxns' /\ Finished'[t] = Finished[t]
  <1>1. t \in Txns /\ txns[t].status = "finish" /\ txns[t].session \in Rows
    BY DEF FinishedTxns, IInv, BoundsInv
  <1>2. /\ txns'[t].status = "finish" /\ txns'[t].amount = txns[t].amount
        /\ txns'[t].session = txns[t].session /\ t \in 1..Len(txns')
    BY <1>1, NothingGoes DEF TxnsMove, Terminal, Txns
  <1>3. sessions'[txns[t].session].order = sessions[txns[t].session].order
    BY <1>1, NothingGoes DEF Kept
  <1>4. t \in FinishedTxns'
    BY <1>2 DEF FinishedTxns, Txns
  <1> QED BY <1>2, <1>3, <1>4 DEF Finished, OwnerOf

LEMMA FinishedNext ==
  ASSUME IInv, [Next]_vars
  PROVE  \/ Finished' = Finished
         \/ \E t \in 1..MaxSessions, o \in Orders, a \in 1..Total :
              /\ t \notin FinishedTxns
              /\ Finished' = [u \in FinishedTxns \cup {t} |->
                                IF u = t THEN [order |-> o, amount |-> a] ELSE Finished[u]]
              /\ payments' = payments
  <1>1. CASE FinishedTxns' \subseteq FinishedTxns
    <2>1. FinishedTxns' = FinishedTxns
      BY <1>1, FinishedKept
    <2>2. \A t \in FinishedTxns : Finished'[t] = Finished[t]
      BY FinishedKept
    <2> QED BY <2>1, <2>2 DEF Finished
  <1>2. CASE ~(FinishedTxns' \subseteq FinishedTxns)
    <2>1. PICK t \in FinishedTxns' : t \notin FinishedTxns
      BY <1>2
    <2>2. t \in Txns /\ Dispensed(t) /\ txns'[t].status = "finish"
      BY <2>1, FinishedByMachine DEF FinishedTxns, Txns
    <2>3. /\ UNCHANGED <<sessions, payments>> /\ txns' = [txns EXCEPT ![t].status = "finish"]
          /\ txns \in [Txns -> Txn]
      BY <2>2, Typed DEF Dispensed, Becomes, table, IInv
    <2>4. FinishedTxns' = FinishedTxns \cup {t}
      <3>1. \A u \in FinishedTxns' : u \in FinishedTxns \cup {t}
        BY <2>2, <2>3, FinishedByMachine DEF FinishedTxns, Txns, Dispensed, Becomes
      <3> QED BY <2>1, <3>1, FinishedKept
    <2>5. /\ t \in 1..MaxSessions /\ OwnerOf(t)' \in Orders /\ txns'[t].amount \in 1..Total
      <3>1. txns[t].session \in Rows /\ txns[t].amount \in 1..Total /\ t \in 1..MaxSessions
        BY <2>2, NothingGoes, CashMachineAssumption DEF IInv, BoundsInv, Txns
      <3>2. sessions[txns[t].session].order \in Orders
        BY <3>1, Typed DEF IInv, Row
      <3>3. txns'[t].session = txns[t].session /\ txns'[t].amount = txns[t].amount
        BY <2>2, NothingGoes DEF TxnsMove
      <3> QED BY <2>3, <3>1, <3>2, <3>3 DEF OwnerOf
    <2>6. Finished' = [u \in FinishedTxns \cup {t} |->
                         IF u = t THEN [order |-> OwnerOf(t)', amount |-> txns'[t].amount]
                         ELSE Finished[u]]
      <3>1. \A u \in FinishedTxns : Finished'[u] = Finished[u]
        BY FinishedKept
      <3>2. Finished' = [u \in FinishedTxns' |-> [order |-> OwnerOf(u)', amount |-> txns'[u].amount]]
        BY DEF Finished
      <3> QED BY <2>1, <2>4, <3>1, <3>2
    <2> QED BY <2>1, <2>3, <2>5, <2>6
  <1> QED BY <1>1, <1>2

LEMMA BooksNext ==
  ASSUME IInv, [Next]_vars
  PROVE  \/ Books' = Books
         \/ /\ InsertPayment
            /\ Books' = Books \cup {[txn |-> job.txn, order |-> OrderOfJob, amount |-> AmountOfJob]}
  <1> DEFINE Booked == {q \in PaymentIds : payments[q].txn # 0}
             entry(p) == [txn |-> payments[p].txn, order |-> payments[p].order,
                          amount |-> payments[p].amount]
  <1>0. /\ Books = {entry(p) : p \in Booked} /\ Books' = {entry(p)' : p \in Booked'}
        /\ \A p \in PaymentIds : entry(p)' = entry(p)
        /\ Len(payments) \in Nat
    BY NothingGoes DEF Books
  <1>1. CASE payments' = payments
    BY <1>1 DEF Books, PaymentIds
  <1>2. CASE Len(payments') = Len(payments) + 1 /\ payments'[Len(payments) + 1].txn = 0
    <2>1. Booked' = Booked
      BY <1>2, NothingGoes DEF PaymentIds
    <2> QED BY <1>0, <2>1
  <1>3. CASE InsertPayment
    <2>0. PICK n \in Nat : n = Len(payments) + 1
      BY <1>0
    <2>1. /\ Len(payments') = n
          /\ payments'[n] = [order |-> OrderOfJob, amount |-> AmountOfJob, txn |-> job.txn]
      BY <1>3, <2>0, InsertMove
    <2>2. job.txn # 0
      BY <1>3, NothingGoes DEF InsertPayment, IInv, JobInv, HasTxn, Txns
    <2>3. Booked' = Booked \cup {n}
      BY <2>0, <2>1, <2>2, NothingGoes DEF PaymentIds
    <2>4. entry(n)' = [txn |-> job.txn, order |-> OrderOfJob, amount |-> AmountOfJob]
      BY <2>1
    <2>5. /\ \A b : b \in Books' <=> \E p \in Booked' : b = entry(p)'
          /\ \A b : b \in Books <=> \E p \in Booked : b = entry(p)
      BY <1>0
    <2>6. ASSUME NEW b
          PROVE  b \in Books' <=> b \in Books \/ b = entry(n)'
      <3>1. b \in Books' <=> \E p \in Booked \cup {n} : b = entry(p)'
        BY <2>3, <2>5
      <3>2. b \in Books <=> \E p \in Booked : b = entry(p)
        BY <2>5
      <3>3. \A p \in Booked : entry(p)' = entry(p)
        BY <1>0
      <3> HIDE DEF Booked, Books
      <3> QED BY <3>1, <3>2, <3>3
    <2> HIDE DEF Books
    <2> QED BY <1>3, <2>4, <2>6
  <1> QED BY <1>1, <1>2, <1>3, PaysStep DEF PaysNext

LEMMA BridgeInit == Init => Promise!Init
  <1> SUFFICES ASSUME Init PROVE Finished = <<>> /\ Books = {}
    BY DEF Promise!Init, Finished, Books
  <1>1. FinishedTxns = {} /\ PaymentIds = {}
    BY DEF Init, FinishedTxns, Txns, PaymentIds
  <1> QED BY <1>1 DEF Finished, Books

LEMMA BridgeStep ==
  ASSUME IInv, OwnInv, OneWriteFails, [Next]_vars
  PROVE  Promise!Next \/ (Finished' = Finished /\ Books' = Books)
  <1>1. ASSUME NEW t \in 1..MaxSessions, NEW o \in Orders, NEW a \in 1..Total,
               t \notin FinishedTxns, payments' = payments,
               Finished' = [u \in FinishedTxns \cup {t} |->
                              IF u = t THEN [order |-> o, amount |-> a] ELSE Finished[u]]
        PROVE  Promise!Next
    <2>1. DOMAIN Finished = FinishedTxns
      BY DEF Finished
    <2>2. Books' = Books
      BY <1>1 DEF Books, PaymentIds
    <2>3. /\ t \notin DOMAIN Finished
          /\ Finished' = [u \in DOMAIN Finished \cup {t} |->
                            IF u = t THEN [order |-> o, amount |-> a] ELSE Finished[u]]
      BY <1>1, <2>1
    <2>4. Promise!Finish(t, o, a)
      BY <2>2, <2>3 DEF Promise!Finish, Finished, Books
    <2> QED BY <2>4 DEF Promise!Next
  <1>2. ASSUME InsertPayment,
               Books' = Books \cup {[txn |-> job.txn, order |-> OrderOfJob, amount |-> AmountOfJob]}
        PROVE  Promise!Next
    <2>0. PICK t \in Txns : t = job.txn
      BY <1>2 DEF InsertPayment, IInv, JobInv, HasTxn
    <2>1. /\ t \in Txns /\ txns[t].status = "finish" /\ txns[t].session = job.session
          /\ BookedAs(t) = {} /\ UNCHANGED <<txns, sessions>>
      BY <1>2, <2>0 DEF InsertPayment, machine, IInv, JobInv, OwnInv, HasTxn
    <2>2. t \in FinishedTxns /\ t \in 1..MaxSessions
      BY <2>1, NothingGoes, CashMachineAssumption DEF FinishedTxns, IInv, BoundsInv, Txns
    <2>3. \A b \in Books : b.txn # t
      BY <2>1 DEF Books, BookedAs
    <2>4. Finished[t] = [order |-> OrderOfJob, amount |-> AmountOfJob]
      BY <2>0, <2>1, <2>2 DEF Finished, OwnerOf, OrderOfJob, AmountOfJob
    <2>5. Finished' = Finished
      BY <2>1 DEF Finished, FinishedTxns, Txns, OwnerOf
    <2>6. t \in DOMAIN Finished
      BY <2>2 DEF Finished
    <2>7. Books' = Books \cup {[txn |-> t, order |-> Finished[t].order, amount |-> Finished[t].amount]}
      BY <1>2, <2>0, <2>4
    <2>8. Promise!Book(t)
      BY <2>3, <2>5, <2>6, <2>7 DEF Promise!Book, Promise!Entry, Finished, Books
    <2> QED BY <2>2, <2>8 DEF Promise!Next
  <1> QED BY <1>1, <1>2, FinishedNext, BooksNext

(***************************************************************************)
(* The bridge implements CashLedger: it books a finished collection at     *)
(* most once, on its order and for its amount, and nothing else.           *)
(***************************************************************************)
THEOREM BridgeKeepsBooks == OneWriteFails => (Spec => KeepsBooks)
  <1>1. OneWriteFails /\ SafeInv /\ [Next]_vars =>
          [Promise!Next]_<<Finished, Books>>
    BY BridgeStep DEF SafeInv
  <1>2. OneWriteFails => []OneWriteFails
    <2>1. OneWriteFails => OneWriteFails'
      BY DEF OneWriteFails
    <2> QED BY <2>1, PTL
  <1>3. KeepsBooks <=> Promise!Init /\ [][Promise!Next]_<<Finished, Books>>
    BY DEF KeepsBooks, Promise!Spec, Finished, Books
  <1> QED BY <1>1, <1>2, <1>3, BridgeInit, Safety, PTL DEF Spec
=============================================================================

----------------------------- MODULE CashMachine -----------------------------
(***************************************************************************)
(* Cash collection through the Glory cash changer: CashChangerService with *)
(* its session goroutine, the Collector that drives one transaction, the   *)
(* recorder that books it, the session rows and their reconciliation at    *)
(* boot, against the machine itself (external: what its adapter answers).  *)
(*                                                                         *)
(* The goroutine of a session, the machine, a cancel request, the other    *)
(* payment handlers and a crash interleave between any two steps.  Left    *)
(* out: the deposit counter (a deposit is short or sufficient), wording    *)
(* and levels of alerts, the audit log, printing, broadcasts and the sync  *)
(* row (SyncQueue), and the incident book.                                 *)
(***************************************************************************)
EXTENDS Integers, Sequences, FiniteSets, Functions

CONSTANTS
  Orders,
  Total,        \* total_amount of an order
  MaxSessions,  \* bound: how many collections are begun
  MaxPayments,  \* bound: other handlers take no payment beyond so many
  BatchSize,    \* cashDevicePushBatchSize
  Faults,       \* what may go wrong
  MaxFaults,    \* bound: how often
  MaxCrashes    \* bound: how often the workstation dies

ASSUME CashMachineAssumption ==
  /\ Total \in Nat \ {0} /\ MaxSessions \in Nat /\ MaxPayments \in Nat
  /\ Faults \subseteq {"insert", "unreachable", "lost", "stamp", "shortage", "uncancelled",
                       "book", "resolve", "abort", "unregistered", "intake", "answer"}
  /\ BatchSize \in Nat \ {0} /\ MaxFaults \in Nat /\ MaxCrashes \in Nat

VARIABLES
  txns,      \* the machine: its transactions, numbered; a history of the session that asked
  sessions,  \* cash_changer_sessions, one entry per Begin, with whether Cloud holds it
  payments,  \* the payments table
  closed,    \* the closed orders
  alerts,    \* the alerts raised
  active,    \* CashChangerService.active, with what its Snapshot shows
  pc, job,   \* the goroutine of the active session, or the boot reconciliation
  cancels,   \* CancelSession calls past the check of the session id
  phase,     \* "boot" | "serving" | "down"
  todo,      \* the rows ReconcileUnfinishedSessions has read and not yet settled
  faults, crashes

machine == txns
table   == <<sessions, payments, closed>>
process == <<active, cancels, phase, todo>>
vars == <<txns, sessions, payments, closed, alerts, active, pc, job, cancels, phase, todo,
          faults, crashes>>

Terminal == {"finish", "cancel", "timeout", "abort", "failure"}
Statuses == {"deposit", "sufficient", "dispense"} \cup Terminal

Txns == 1..Len(txns)
Rows == 1..Len(sessions)
PaymentIds == 1..Len(payments)

OpenTxns == {t \in Txns : txns[t].status \notin Terminal}

PaymentsOf(o) == {p \in PaymentIds : payments[p].order = o}
Captured(o) == SumFunctionOnSet([p \in PaymentIds |-> payments[p].amount], PaymentsOf(o))
Outstanding(o) == Total - Captured(o)

NoJob == [session |-> 0, txn |-> 0, status |-> "none", err |-> "none", payment |-> 0]
NoSession == [session |-> 0, running |-> FALSE, status |-> "none", err |-> "none", payment |-> 0]

Init ==
  /\ txns = <<>> /\ sessions = <<>> /\ payments = <<>> /\ closed = {} /\ alerts = {}
  /\ active = NoSession /\ pc = "idle" /\ job = NoJob /\ cancels = {}
  /\ phase = "serving" /\ todo = {} /\ faults = 0 /\ crashes = 0

Strikes(fault) == fault \in Faults /\ faults < MaxFaults /\ faults' = faults + 1

-----------------------------------------------------------------------------
(* The machine, external: the customer feeds it, it pays change, gives up  *)
(* on a slow deposit and keeps the cash, or breaks down.                   *)

Becomes(t, from, to) ==
  /\ txns[t].status \in from
  /\ txns' = [txns EXCEPT ![t].status = to]
  /\ UNCHANGED <<table, alerts, pc, job, process, crashes>>

CustomerPays(t)   == Becomes(t, {"deposit"}, "sufficient") /\ UNCHANGED faults
DepositTimeout(t) == Becomes(t, {"deposit", "sufficient"}, "timeout") /\ UNCHANGED faults
Dispensed(t)      == Becomes(t, {"dispense"}, "finish") /\ UNCHANGED faults
PowerLoss(t)      == /\ Becomes(t, {"deposit", "sufficient", "dispense"}, "abort")
                     /\ Strikes("abort")
DispenseFails(t)  == Becomes(t, {"dispense"}, "failure") /\ Strikes("abort")

(* What a Cancel does to the machine: nothing once the deposit is fixed. *)
Returned == [t \in Txns |-> IF txns[t].status \in {"deposit", "sufficient"}
                            THEN [txns[t] EXCEPT !.status = "cancel"] ELSE txns[t]]

-----------------------------------------------------------------------------
(* The handlers.                                                           *)

(* The session is found active; the machine is told afterwards, without a  *)
(* lock.                                                                   *)
CancelSession ==
  /\ phase = "serving" /\ active.session # 0 /\ active.session \notin cancels
  /\ cancels' = cancels \cup {active.session}
  /\ UNCHANGED <<machine, table, alerts, pc, job, active, phase, todo, faults, crashes>>

CancelArrives(s) ==
  /\ s \in cancels
  /\ txns' = Returned
  /\ cancels' = cancels \ {s}
  /\ UNCHANGED <<table, alerts, pc, job, active, phase, todo, faults, crashes>>

(* Nothing to collect on a closed or paid order, nor more than is owed;    *)
(* one collection at a time.  The row goes in before the machine starts,   *)
(* and a failed write does not stop the collection.                        *)
Collectable(o, amount) == o \notin closed /\ amount \in 1..Outstanding(o)

Begin(o, amount) ==
  /\ phase = "serving" /\ ~active.running /\ Len(sessions) < MaxSessions
  /\ Collectable(o, amount)
  /\ \E stored \in BOOLEAN :
       /\ IF stored THEN UNCHANGED faults ELSE Strikes("insert")
       /\ sessions' = Append(sessions, [order |-> o, amount |-> amount, stored |-> stored,
                                        txn |-> 0, outcome |-> "none", ledger |-> "none",
                                        device |-> FALSE, synced |-> FALSE, held |-> FALSE])
  /\ active' = [NoSession EXCEPT !.session = Len(sessions) + 1, !.running = TRUE]
  /\ job' = [NoJob EXCEPT !.session = Len(sessions) + 1]
  /\ pc' = "start"
  /\ UNCHANGED <<machine, payments, closed, alerts, cancels, phase, todo, crashes>>

(* Another handler takes money for the order, within what is owed, and     *)
(* closes it when nothing is.                                              *)
OtherPayment(o, amount) ==
  /\ phase = "serving" /\ Collectable(o, amount) /\ Len(payments) < MaxPayments
  /\ payments' = Append(payments, [order |-> o, amount |-> amount, txn |-> 0])
  /\ closed' = IF amount = Outstanding(o) THEN closed \cup {o} ELSE closed
  /\ UNCHANGED <<machine, sessions, alerts, pc, job, process, faults, crashes>>

-----------------------------------------------------------------------------
(* The collector.                                                          *)

Alert(kind, key) == [kind |-> kind, key |-> key]

(* Broken: the shop is alerted for errors of the transport only. *)
RetainedOnErrorOnly(err) == err \in {"error", "unrecorded"}

(* Collect fails: nothing is booked, and the shop is alerted unless the    *)
(* error says that the cash went back.  A start without an answer has no   *)
(* transaction to name; as a history its alert is kept under the session.  *)
CashMayBeRetained(err) == err \notin {"canceled", "shortage"}

Subject == IF job.txn = 0 THEN <<"session", job.session>> ELSE <<"txn", job.txn>>

Fail(err, status) ==
  /\ job' = [job EXCEPT !.err = err, !.status = status]
  /\ alerts' = IF CashMayBeRetained(err)
               THEN alerts \cup {Alert("cash_retained", Subject)} ELSE alerts
  /\ pc' = "resolve"

NewTxn == [status |-> "deposit", amount |-> sessions[job.session].amount, session |-> job.session]

StartTransaction ==
  /\ pc = "start" /\ OpenTxns = {}
  /\ txns' = Append(txns, NewTxn)
  /\ \/ /\ job' = [job EXCEPT !.txn = Len(txns) + 1]
        /\ pc' = "stamp"
        /\ UNCHANGED <<alerts, faults>>
     \/ Strikes("lost") /\ Fail("error", "none")
  /\ UNCHANGED <<table, process, crashes>>

StartRefused ==
  /\ pc = "start"
  /\ IF OpenTxns = {} THEN Strikes("unreachable") ELSE UNCHANGED faults
  /\ Fail("error", "none")
  /\ UNCHANGED <<machine, table, process, crashes>>

(* stampRunningCashSession: the newest open row without a transaction.     *)
Stampable == {s \in Rows : sessions[s].stored /\ sessions[s].outcome = "none" /\ sessions[s].txn = 0}

StampTransaction ==
  /\ pc = "stamp"
  /\ \/ /\ Stampable # {}
        /\ \E s \in Stampable : /\ \A r \in Stampable : r <= s
                                /\ sessions' = [sessions EXCEPT ![s].txn = job.txn]
        /\ UNCHANGED faults
     \/ Stampable = {} /\ UNCHANGED <<sessions, faults>>
     \/ Strikes("stamp") /\ UNCHANGED sessions
  /\ pc' = "poll"
  /\ UNCHANGED <<machine, payments, closed, alerts, job, process, crashes>>

(* One answer of GetTransaction.                                           *)
Seen == txns[job.txn].status

(* Broken: whatever ends and was not canceled counts as collected. *)
PollEndedMeansPaid ==
  /\ pc = "poll" /\ Seen \in Terminal
  /\ IF Seen # "cancel"
     THEN /\ job' = [job EXCEPT !.status = Seen] /\ pc' = "record"
          /\ UNCHANGED alerts
     ELSE Fail("canceled", Seen)
  /\ UNCHANGED <<machine, table, process, faults, crashes>>

PollEnded ==
  /\ pc = "poll" /\ Seen \in Terminal
  /\ IF Seen = "finish"
     THEN /\ job' = [job EXCEPT !.status = Seen] /\ pc' = "record"
          /\ UNCHANGED alerts
     ELSE Fail(IF Seen = "cancel" THEN "canceled" ELSE "retained", Seen)
  /\ UNCHANGED <<machine, table, process, faults, crashes>>

PollFixes ==
  /\ pc = "poll" /\ Seen = "sufficient"
  /\ txns' = [txns EXCEPT ![job.txn].status = "dispense"]
  /\ job' = [job EXCEPT !.status = Seen]
  /\ UNCHANGED <<table, alerts, pc, process, faults, crashes>>

PollWaits ==
  /\ pc = "poll" /\ Seen \in {"deposit", "dispense"} /\ job.status # Seen
  /\ job' = [job EXCEPT !.status = Seen]
  /\ UNCHANGED <<machine, table, alerts, pc, process, faults, crashes>>

(* Out of change, as GetTransaction or FixDeposit says it: the machine is  *)
(* asked to give the cash back, and whether it did is not looked at.       *)
ChangeShortage ==
  /\ pc = "poll" /\ Seen \in {"deposit", "sufficient"}
  /\ \E fault \in {"shortage", "uncancelled"} :
       /\ Strikes(fault)
       /\ txns' = IF fault = "shortage" THEN Returned ELSE txns
  /\ \E status \in {job.status, Seen} : Fail("shortage", status)
  /\ UNCHANGED <<table, process, crashes>>

(* A transport error, or the budget of the session, ends the watch and not *)
(* the transaction.                                                        *)
PollFails ==
  /\ pc = "poll" /\ Strikes("unreachable")
  /\ Fail("error", job.status)
  /\ UNCHANGED <<machine, table, process, crashes>>

-----------------------------------------------------------------------------
(* RecordCashPayment, three statements, and the end of the goroutine.      *)

(* Broken: the key is not looked up. *)
BookedUnderFreshKey(t) == {}

BookedAs(t) == {p \in PaymentIds : payments[p].txn = t}
OrderOfJob == sessions[job.session].order
AmountOfJob == txns[job.txn].amount

(* A replay returns the payment there is; an amount above what is owed, or *)
(* a database error, leaves the cash unbooked and says so.                 *)
RecordReplay ==
  /\ pc = "record"
  /\ \E p \in BookedAs(job.txn) : job' = [job EXCEPT !.payment = p]
  /\ pc' = "resolve"
  /\ UNCHANGED <<machine, table, alerts, process, faults, crashes>>

NotRecorded ==
  /\ job' = [job EXCEPT !.err = "unrecorded"]
  /\ alerts' = alerts \cup {Alert("cash_collected_not_recorded", <<"txn", job.txn>>)}
  /\ pc' = "resolve"

RecordCheck ==
  /\ pc = "record" /\ BookedAs(job.txn) = {}
  /\ IF AmountOfJob <= Outstanding(OrderOfJob)
     THEN pc' = "insert" /\ UNCHANGED <<alerts, job>>
     ELSE NotRecorded
  /\ UNCHANGED <<machine, table, process, faults, crashes>>

RecordFails ==
  /\ pc \in {"record", "insert"} /\ Strikes("book")
  /\ NotRecorded
  /\ UNCHANGED <<machine, table, process, crashes>>

(* Broken: what is still owed is booked, not what the machine took. *)
InsertOutstanding ==
  /\ pc = "insert"
  /\ payments' = Append(payments, [order |-> OrderOfJob, amount |-> Outstanding(OrderOfJob),
                                   txn |-> job.txn])
  /\ job' = [job EXCEPT !.payment = Len(payments) + 1]
  /\ pc' = "lifecycle"
  /\ UNCHANGED <<machine, sessions, closed, alerts, process, faults, crashes>>

InsertPayment ==
  /\ pc = "insert"
  /\ payments' = Append(payments, [order |-> OrderOfJob, amount |-> AmountOfJob, txn |-> job.txn])
  /\ job' = [job EXCEPT !.payment = Len(payments) + 1]
  /\ pc' = "lifecycle"
  /\ UNCHANGED <<machine, sessions, closed, alerts, process, faults, crashes>>

(* Broken: the machine's payment closes the order, also a partial one. *)
LifecycleCloses ==
  /\ pc = "lifecycle"
  /\ closed' = closed \cup {OrderOfJob}
  /\ pc' = "resolve"
  /\ UNCHANGED <<machine, sessions, payments, alerts, job, process, faults, crashes>>

OrderLifecycle ==
  /\ pc = "lifecycle"
  /\ closed' = IF Outstanding(OrderOfJob) <= 0 THEN closed \cup {OrderOfJob} ELSE closed
  /\ pc' = "resolve"
  /\ UNCHANGED <<machine, sessions, payments, alerts, job, process, faults, crashes>>

(* Broken: the machine's word is written where the outcome belongs. *)
OutcomeIsStatus(err) == IF err = "none" THEN "recorded" ELSE job.status

OutcomeFor(err) ==
  CASE err = "none" -> "recorded"
    [] err \in {"canceled", "shortage"} -> "returned"
    [] err = "unrecorded" /\ phase = "boot" -> "unknown"
    [] OTHER -> "retained"

(* The row is closed, once, and the machine's own outcome written on it;   *)
(* then the session shows its end.                                         *)
Settle(s, outcome) ==
  IF sessions[s].stored /\ sessions[s].outcome = "none"
  THEN [sessions EXCEPT ![s].outcome = outcome] ELSE sessions

ResolveSession ==
  /\ pc = "resolve" /\ phase = "serving"
  /\ \/ sessions' = Settle(job.session, OutcomeFor(job.err)) /\ UNCHANGED faults
     \/ Strikes("resolve") /\ UNCHANGED sessions
  /\ pc' = "ledger"
  /\ UNCHANGED <<machine, payments, closed, alerts, job, process, crashes>>

(* The word goes with the registry's id of the machine, if it has one now. *)
Written(s, status, device) ==
  [sessions EXCEPT ![s].ledger = status, ![s].device = device, ![s].synced = FALSE]

RecordMachineLedger ==
  /\ pc = "ledger"
  /\ \E device \in BOOLEAN :
       /\ IF device THEN UNCHANGED faults ELSE Strikes("unregistered")
       /\ sessions' = IF job.status # "none" /\ sessions[job.session].stored
                      THEN Written(job.session, job.status, device) ELSE sessions
  /\ pc' = "report"
  /\ UNCHANGED <<machine, payments, closed, alerts, job, process, crashes>>

Report ==
  /\ pc = "report"
  /\ active' = [session |-> job.session, running |-> FALSE, status |-> job.status,
                err |-> job.err, payment |-> IF job.err = "none" THEN job.payment ELSE 0]
  /\ job' = NoJob /\ pc' = "idle"
  /\ UNCHANGED <<machine, table, alerts, cancels, phase, todo, faults, crashes>>

-----------------------------------------------------------------------------
(* PushCashDeviceTransactionsUp: of the oldest rows that carry the         *)
(* machine's word those that name the machine, in one request.  Cloud      *)
(* validates the request as a whole and answers 2xx whatever its intake    *)
(* makes of the rows; any 2xx stamps them all.                             *)

Unsynced == {s \in Rows : /\ sessions[s].stored /\ ~sessions[s].synced
                         /\ sessions[s].ledger # "none" /\ sessions[s].txn # 0}

Window == {s \in Unsynced : Cardinality({r \in Unsynced : r < s}) < BatchSize}
Batch == {s \in Window : sessions[s].device}

(* Broken: Cloud does not know that a deposit can time out. *)
CloudKnowsNoTimeout(batch) == \A s \in batch : sessions[s].ledger \in Terminal \ {"timeout"}

CloudAccepts(batch) == \A s \in batch : sessions[s].ledger \in Terminal

(* Cloud takes in some of the rows, the workstation stamps some.           *)
Pushed(taken, stamped) ==
  /\ phase = "serving" /\ Batch # {} /\ CloudAccepts(Batch)
  /\ sessions' = [s \in Rows |->
       [sessions[s] EXCEPT !.held = @ \/ s \in taken, !.synced = @ \/ s \in stamped]]
  /\ UNCHANGED <<machine, payments, closed, alerts, pc, job, process, crashes>>

Push == Pushed(Batch, Batch) /\ UNCHANGED faults

(* The intake throws midway or rejects rows, and the answer is a 202.      *)
IntakeFails == \E taken \in SUBSET Batch : Pushed(taken, Batch) /\ Strikes("intake")

(* The answer, or the statement that stamps the rows, is lost.             *)
PushUnanswered == Pushed(Batch, {}) /\ Strikes("answer")

-----------------------------------------------------------------------------
(* A crash loses the session and its goroutine; at boot, before the first  *)
(* request is served, each open row is settled by asking the machine.      *)

Crash ==
  /\ phase # "down" /\ crashes < MaxCrashes
  /\ crashes' = crashes + 1 /\ phase' = "down"
  /\ active' = NoSession /\ job' = NoJob /\ pc' = "idle" /\ cancels' = {} /\ todo' = {}
  /\ UNCHANGED <<machine, table, alerts, faults>>

Unresolved == {s \in Rows : sessions[s].stored /\ sessions[s].outcome = "none"}

Boot ==
  /\ phase = "down"
  /\ phase' = "boot" /\ todo' = Unresolved
  /\ UNCHANGED <<machine, table, alerts, active, pc, job, cancels, faults, crashes>>

Oldest(s) == s \in todo /\ \A r \in todo : s <= r

SettleAtBoot(s, outcome, raised) ==
  /\ \/ sessions' = Settle(s, outcome) /\ UNCHANGED faults
     \/ Strikes("resolve") /\ UNCHANGED sessions
  /\ alerts' = alerts \cup raised
  /\ todo' = todo \ {s}

Reconcile(s) ==
  /\ phase = "boot" /\ pc = "idle" /\ Oldest(s) /\ sessions[s].txn = 0
  /\ SettleAtBoot(s, "unknown", {Alert("cash_collected_not_recorded", <<"session", s>>)})
  /\ UNCHANGED <<machine, payments, closed, active, pc, job, cancels, phase, crashes>>

ReconcileUnreachable(s) ==
  /\ phase = "boot" /\ pc = "idle" /\ Oldest(s) /\ sessions[s].txn # 0 /\ Strikes("unreachable")
  /\ sessions' = Settle(s, "unknown")
  /\ alerts' = alerts \cup {Alert("cash_collected_not_recorded", <<"txn", sessions[s].txn>>)}
  /\ todo' = todo \ {s}
  /\ UNCHANGED <<machine, payments, closed, active, pc, job, cancels, phase, crashes>>

ReconcileUnfinished(s) ==
  /\ phase = "boot" /\ pc = "idle" /\ Oldest(s) /\ sessions[s].txn # 0
  /\ txns[sessions[s].txn].status # "finish"
  /\ IF txns[sessions[s].txn].status = "cancel"
     THEN SettleAtBoot(s, "returned", {})
     ELSE SettleAtBoot(s, "retained", {Alert("cash_retained", <<"txn", sessions[s].txn>>)})
  /\ UNCHANGED <<machine, payments, closed, active, pc, job, cancels, phase, crashes>>

ReconcileFinished(s) ==
  /\ phase = "boot" /\ pc = "idle" /\ Oldest(s) /\ sessions[s].txn # 0
  /\ txns[sessions[s].txn].status = "finish"
  /\ job' = [NoJob EXCEPT !.session = s, !.txn = sessions[s].txn, !.status = "finish"]
  /\ pc' = "record"
  /\ UNCHANGED <<machine, table, alerts, process, faults, crashes>>

ReconcileSettles ==
  /\ phase = "boot" /\ pc = "resolve"
  /\ SettleAtBoot(job.session, OutcomeFor(job.err), {})
  /\ job' = NoJob /\ pc' = "idle"
  /\ UNCHANGED <<machine, payments, closed, active, cancels, phase, crashes>>

Serve ==
  /\ phase = "boot" /\ todo = {} /\ pc = "idle"
  /\ phase' = "serving"
  /\ UNCHANGED <<machine, table, alerts, active, pc, job, cancels, todo, faults, crashes>>

-----------------------------------------------------------------------------
MachineStep ==
  \E t \in Txns : CustomerPays(t) \/ DepositTimeout(t) \/ Dispensed(t) \/ PowerLoss(t) \/ DispenseFails(t)

Record == RecordReplay \/ RecordCheck \/ RecordFails \/ InsertPayment \/ OrderLifecycle

Poll == PollEnded \/ PollFixes \/ PollWaits \/ ChangeShortage \/ PollFails

CollectStep ==
  \/ StartTransaction \/ StartRefused \/ StampTransaction \/ Poll \/ Record
  \/ ResolveSession \/ RecordMachineLedger \/ Report

BootStep ==
  \/ Boot \/ ReconcileSettles \/ Serve
  \/ \E s \in Rows : \/ Reconcile(s) \/ ReconcileUnreachable(s)
                     \/ ReconcileUnfinished(s) \/ ReconcileFinished(s)

Bridge ==
  \/ MachineStep \/ CollectStep \/ BootStep \/ Crash
  \/ \E s \in cancels : CancelArrives(s)
  \/ \E o \in Orders, amount \in 1..Total : Begin(o, amount) \/ OtherPayment(o, amount)

SyncUp == Push \/ IntakeFails \/ PushUnanswered

Next == Bridge \/ CancelSession \/ SyncUp

Spec == Init /\ [][Next]_vars

(* The machine gives up on a deposit and ends what it dispenses; a step of *)
(* the goroutine, of a boot or of the sync loop that can run runs.         *)
FairSpec ==
  /\ Spec
  /\ WF_vars(\E t \in Txns : DepositTimeout(t) \/ Dispensed(t))
  /\ WF_vars(CollectStep) /\ WF_vars(BootStep) /\ WF_vars(SyncUp)

-----------------------------------------------------------------------------
Shown == {"none"} \cup Statuses
Txn == [status : Statuses, amount : Nat \ {0}, session : Nat \ {0}]
Payment == [order : Orders, amount : Nat \ {0}, txn : Nat]
Row == [order : Orders, amount : Nat \ {0}, stored : BOOLEAN, txn : Nat,
        outcome : {"none", "recorded", "returned", "retained", "unknown"},
        ledger : Shown, device : BOOLEAN, synced : BOOLEAN, held : BOOLEAN]
Errors == {"none", "canceled", "shortage", "retained", "error", "unrecorded"}
Alerts == [kind : {"cash_retained", "cash_collected_not_recorded"}, key : {"txn", "session"} \X Nat]
Session == [session : Nat, running : BOOLEAN, status : Shown, err : Errors, payment : Nat]
Job == [session : Nat, txn : Nat, status : Shown, err : Errors, payment : Nat]

TypeOK ==
  /\ txns \in Seq(Txn) /\ sessions \in Seq(Row) /\ payments \in Seq(Payment)
  /\ closed \subseteq Orders
  /\ alerts \subseteq Alerts /\ active \in Session
  /\ pc \in {"idle", "start", "stamp", "poll", "record", "insert", "lifecycle", "resolve",
             "ledger", "report"}
  /\ job \in Job
  /\ cancels \subseteq Rows /\ todo \subseteq Rows
  /\ phase \in {"boot", "serving", "down"}
  /\ faults \in Nat /\ crashes \in Nat

(***************************************************************************)
(* No collection is booked twice, though the goroutine and the boot        *)
(* reconciliation of a later process may both record it ("idempotent on    *)
(* the Glory transaction id").                                             *)
(***************************************************************************)
BookedOnce ==
  \A p, q \in PaymentIds : payments[p].txn # 0 /\ payments[p].txn = payments[q].txn => p = q

(***************************************************************************)
(* What is booked is what the machine finished: on the order whose         *)
(* collection started the transaction, for the amount it was started with. *)
(* After a restart this rests on the stamp of a row found by recency.      *)
(***************************************************************************)
OwnerOf(t) == sessions[txns[t].session].order

BookedRight ==
  \A p \in PaymentIds : payments[p].txn # 0 =>
    /\ payments[p].txn \in Txns
    /\ txns[payments[p].txn].status = "finish"
    /\ payments[p].order = OwnerOf(payments[p].txn)
    /\ payments[p].amount = txns[payments[p].txn].amount

(***************************************************************************)
(* Cash the machine keeps never goes unnoticed: it is booked, or somebody  *)
(* was alerted, or it is still in the hands of the goroutine or of a row   *)
(* the next boot asks about (cash_changer_recovery.go).  Only a row that   *)
(* could not be written is beyond recovery, as Begin accepts.              *)
(***************************************************************************)
KeptByMachine(t) == txns[t].status \in {"finish", "timeout", "abort", "failure"}

Alerted(t) ==
  \E a \in alerts : a.key \in {<<"txn", t>>, <<"session", txns[t].session>>}

InHand(t) ==
  \/ pc # "idle" /\ job.session = txns[t].session
  \/ /\ txns[t].session \in Unresolved
     /\ sessions[txns[t].session].txn \in {0, t}

NoSilentCash ==
  \A t \in Txns :
    KeptByMachine(t) => \/ BookedAs(t) # {} \/ Alerted(t) \/ InHand(t)
                        \/ ~sessions[txns[t].session].stored

(***************************************************************************)
(* A closed order is paid: the lifecycle statement runs after the insert   *)
(* and counts captured money only.                                         *)
(***************************************************************************)
ClosedIsPaid == \A o \in closed : Captured(o) >= Total

(***************************************************************************)
(* What the machine says of a collection is on Cloud in the end, if the    *)
(* row carries the transaction and the machine's id, whatever answers are  *)
(* lost.  Three things stand in its way: an intake that failed behind a    *)
(* 202, a row in the batch whose word Cloud does not know, which has the   *)
(* whole batch refused, and oldest rows that name no machine, which are    *)
(* read, skipped and read again.                                           *)
(***************************************************************************)
Owed(s) == s \in Unsynced /\ sessions[s].ledger \in Terminal /\ sessions[s].device
Held(s) == s \in Rows /\ sessions[s].held
Swallowed(s) == s \in Rows /\ sessions[s].synced /\ ~sessions[s].held
Poisoned == \E s \in Batch : sessions[s].ledger \notin Terminal
Starved == Window # {} /\ Batch = {}

LedgerArrives ==
  \A s \in 1..MaxSessions : Owed(s) ~> (Held(s) \/ Swallowed(s) \/ Poisoned \/ Starved)

-----------------------------------------------------------------------------
(* The bridge keeps the promise of CashLedger. *)
FinishedTxns == {t \in Txns : txns[t].status = "finish"}

Promise == INSTANCE CashLedger WITH
  Collections <- 1..MaxSessions,
  Accounts <- Orders,
  Amounts <- 1..Total,
  finished <- [t \in FinishedTxns |-> [order |-> OwnerOf(t), amount |-> txns[t].amount]],
  books <- {[txn |-> payments[p].txn, order |-> payments[p].order, amount |-> payments[p].amount] :
              p \in {q \in PaymentIds : payments[q].txn # 0}}

KeepsBooks == Promise!Spec
=============================================================================

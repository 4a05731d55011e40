--------------------------- MODULE CashTill_proofs ---------------------------
(***************************************************************************)
(* Proofs about CashTill, for every set of orders, every total, any number *)
(* of sessions, faults, crashes and lost polls, and whether or not the LAN *)
(* loses requests and answers.                                             *)
(*                                                                         *)
(* What a session that ended says of itself (TrueOf) is so when it is      *)
(* reported and stays so, since the machine's transactions end once and a  *)
(* session starts at most one.  The rest is that the till asks about the   *)
(* session it was given and waits for no other.                            *)
(***************************************************************************)
EXTENDS CashTill, CashMachine_proofs

(* A session starts at most one transaction, for what its row asks. *)
TxnsInv ==
  /\ \A t, u \in Txns : txns[t].session = txns[u].session => t = u
  /\ \A t \in Txns : txns[t].amount = sessions[txns[t].session].amount
  /\ pc = "start" => \A t \in Txns : txns[t].session # job.session
  /\ \A p \in PaymentIds : payments[p].txn \in 0..Len(txns)

BookedFor(p, s) ==
  /\ p \in PaymentIds /\ payments[p].txn \in Txns
  /\ txns[payments[p].txn].session = s /\ txns[payments[p].txn].status = "finish"
  /\ payments[p].order = sessions[s].order /\ payments[p].amount = sessions[s].amount

(* What is said of a session is so. *)
TrueOf(snap) ==
  /\ snap.session \in Rows /\ ~(pc = "start" /\ job.session = snap.session)
  /\ CashCollectedAndRecorded(snap) => BookedFor(snap.payment, snap.session)
  /\ snap.status = "finish" /\ ~CashCollectedAndRecorded(snap) =>
       \E t \in Txns : /\ txns[t].session = snap.session /\ txns[t].status = "finish"
                       /\ Alerted(t)
  /\ snap.status = "cancel" =>
       \A t \in Txns : txns[t].session = snap.session => txns[t].status = "cancel"

(* The goroutine of a session, which a boot's never is: nobody but itself  *)
(* has booked its transaction.                                             *)
ServingInv == phase = "serving" =>
  /\ pc \in HasTxn => txns[job.txn].session = job.session
  /\ pc \in {"stamp", "poll", "record", "insert"} => BookedAs(job.txn) = {}
  /\ pc \in {"start", "stamp", "poll"} => job.status \notin {"finish", "cancel"} /\ job.err = "none"
  /\ pc \in {"record", "insert"} => job.status = "finish" /\ job.err = "none"
  /\ pc \in {"lifecycle", "resolve", "ledger", "report"} => TrueOf(job)

ActiveInv ==
  /\ active.running => active.status = "none"
  /\ active.status = "none" \/ TrueOf(active)

BridgeInv == SafeInv /\ TxnsInv /\ ServingInv /\ ActiveInv

(* What the till shows. *)
ShownInv ==
  /\ shown.session \in 0..Len(sessions) /\ shown.running \in BOOLEAN
  /\ shown.running => shown.status = "none"
  /\ shown.status = "none" \/ TrueOf(shown)
  /\ polling \in BOOLEAN /\ (polling <=> shown.running)
  /\ streak \in 0..MaxPollFailures /\ (polling => streak < MaxPollFailures)

Wanted(o, amount, from) == [order |-> o, amount |-> amount, from |-> from]

Asked(p) == p.order \in Orders /\ p.amount \in 1..Total /\ p.from \in 0..Len(sessions)

(* The session was begun for what was asked, and no row told was told of it. *)
Own(s, p, told) ==
  /\ sessions[s].order = p.order /\ sessions[s].amount = p.amount
  /\ \A i \in DOMAIN told : txns[payments[told[i].payment].txn].session # s

(* What a row waits for is a session of its own, begun after it asked. *)
RequestInv ==
  /\ request \in {"none", "start", "cancel"} /\ error \in BOOLEAN /\ unknown \in BOOLEAN
  /\ pending = NobodyWaits \/ pending = Wanted(pending.order, pending.amount, pending.from)
  /\ pending = NobodyWaits \/ Asked(pending)
  /\ request = "start" => pending # NobodyWaits /\ ~shown.running /\ ~IsNew(shown) /\ streak = 0
  /\ pending # NobodyWaits /\ IsNew(shown) => Own(shown.session, pending, paid)

PaidInv ==
  /\ paid \in Seq([order : Orders, amount : 1..Total, payment : Nat])
  /\ PaidRowIsBooked

TillInv == BridgeInv /\ ShownInv /\ RequestInv /\ PaidInv

-----------------------------------------------------------------------------
(* The bridge. *)

LEMMA StartJob ==
  ASSUME IInv, [Next]_vars, pc' = "start"
  PROVE  \/ pc = "start" /\ job' = job
         \/ job'.session = Len(sessions) + 1 /\ job'.status = "none" /\ job'.err = "none"
  <1>1. CASE Aside
    BY <1>1 DEF Aside
  <1>2. CASE \E o \in Orders, amount \in 1..Total : Begin(o, amount)
    BY <1>2 DEF Begin, NoJob
  <1>3. ~Onward
    BY DEF Onward
  <1>4. ~StartTransaction /\ ~ResolveSession /\ ~RecordMachineLedger /\ ~Report /\ ~Crash
    BY DEF StartTransaction, Fail, ResolveSession, RecordMachineLedger, Report, Crash
  <1>5. ~ReconcileSettles /\ ~Serve /\ (Boot => UNCHANGED <<pc, job>>)
    BY DEF ReconcileSettles, Serve, Boot
  <1>6. \A s \in Rows : /\ ~Reconcile(s) /\ ~ReconcileUnreachable(s)
                        /\ ~ReconcileUnfinished(s) /\ ~ReconcileFinished(s)
    BY DEF Reconcile, ReconcileUnreachable, ReconcileUnfinished, ReconcileFinished
  <1> QED BY <1>1, <1>2, <1>3, <1>4, <1>5, <1>6, AsideStep, OnwardStep
    DEF Next, Bridge, CollectStep, BootStep, IInv

LEMMA TxnsInvStep ==
  ASSUME IInv, TxnsInv, [Next]_vars
  PROVE  TxnsInv'
  <1>1. /\ Len(txns) \in Nat /\ Len(txns') \in Nat /\ Len(sessions) \in Nat
        /\ Len(payments) \in Nat /\ Len(payments') \in Nat
        /\ \A t \in Txns : /\ txns'[t].amount = txns[t].amount
                           /\ txns'[t].session = txns[t].session
                           /\ txns[t].session \in Rows
        /\ \A s \in Rows : sessions'[s].amount = sessions[s].amount
    BY NothingGoes DEF IInv, BoundsInv, TxnsMove, Kept
  <1>2. \/ Len(txns') = Len(txns)
        \/ /\ pc = "start" /\ pc' # "start" /\ Len(txns') = Len(txns) + 1
           /\ txns'[Len(txns) + 1].session = job.session /\ job.session \in Rows
           /\ txns'[Len(txns) + 1].amount = sessions[job.session].amount
    BY TxnsStep DEF TxnsNext, IInv, JobInv
  <1>3. \A t \in Txns' : \/ t \in Txns
                         \/ /\ t = Len(txns) + 1 /\ pc = "start"
                            /\ txns'[t].session = job.session /\ job.session \in Rows
                            /\ txns'[t].amount = sessions[job.session].amount
    BY <1>1, <1>2 DEF Txns
  <1>4. \A t, u \in Txns' : txns'[t].session = txns'[u].session => t = u
    <2>1. \A t, u \in Txns : txns[t].session = txns[u].session => t = u
      BY DEF TxnsInv
    <2>2. pc = "start" => \A t \in Txns : txns[t].session # job.session
      BY DEF TxnsInv
    <2>3. ASSUME NEW t \in Txns', NEW u \in Txns', txns'[t].session = txns'[u].session
          PROVE  t = u
      <3>1. CASE t \in Txns /\ u \in Txns
        BY <1>1, <2>1, <2>3, <3>1
      <3>2. CASE t \notin Txns /\ u \notin Txns
        BY <1>3, <3>2
      <3>3. CASE t \in Txns /\ u \notin Txns
        BY <1>1, <1>3, <2>2, <2>3, <3>3
      <3>4. CASE t \notin Txns /\ u \in Txns
        BY <1>1, <1>3, <2>2, <2>3, <3>4
      <3> QED BY <3>1, <3>2, <3>3, <3>4
    <2> QED BY <2>3
  <1>5. ASSUME NEW t \in Txns'
        PROVE  txns'[t].amount = sessions'[txns'[t].session].amount
    <2>1. CASE t \in Txns
      <3>1. txns[t].amount = sessions[txns[t].session].amount
        BY <2>1 DEF TxnsInv
      <3> QED BY <1>1, <2>1, <3>1
    <2>2. CASE t \notin Txns
      BY <1>1, <1>3, <2>2
    <2> QED BY <2>1, <2>2
  <1>6. ASSUME pc' = "start", NEW t \in Txns'
        PROVE  txns'[t].session # job'.session
    <2>1. t \in Txns /\ txns'[t].session = txns[t].session /\ txns[t].session \in Rows
      BY <1>1, <1>2, <1>3, <1>6 DEF Txns
    <2>2. txns[t].session # Len(sessions) + 1
      BY <1>1, <2>1 DEF Rows
    <2> QED BY <1>6, <2>1, <2>2, StartJob DEF TxnsInv
  <1>7. ASSUME NEW p \in PaymentIds'
        PROVE  payments'[p].txn \in 0..Len(txns')
    <2>1. CASE p \in PaymentIds
      <3>1. payments'[p].txn \in 0..Len(txns)
        BY <2>1, PaysStep DEF PaysNext, TxnsInv
      <3> QED BY <1>1, <1>2, <3>1
    <2>2. CASE p \notin PaymentIds
      <3>1. /\ p = Len(payments) + 1
            /\ \/ payments'[p].txn = 0
               \/ InsertPayment /\ payments'[p].txn = job.txn
        BY <1>1, <2>2, PaysStep DEF PaysNext, PaymentIds
      <3>2. InsertPayment => job.txn \in Txns
        BY DEF InsertPayment, IInv, JobInv, HasTxn
      <3> QED BY <1>1, <1>2, <3>1, <3>2 DEF Txns
    <2> QED BY <2>1, <2>2
  <1> QED BY <1>4, <1>5, <1>6, <1>7 DEF TxnsInv

LEMMA BookedStays ==
  ASSUME IInv, [Next]_vars, NEW p, NEW s \in Rows, BookedFor(p, s)
  PROVE  BookedFor(p, s)'
  <1>1. p \in PaymentIds /\ payments[p].txn \in Txns
    BY DEF BookedFor
  <1>2. p \in PaymentIds' /\ payments'[p] = payments[p] /\ payments[p].txn \in Txns'
    BY <1>1, NothingGoes DEF PaymentIds, Txns
  <1>3. /\ txns'[payments[p].txn].session = txns[payments[p].txn].session
        /\ txns[payments[p].txn].status = "finish" => txns'[payments[p].txn].status = "finish"
    BY <1>1, NothingGoes DEF TxnsMove, Terminal
  <1>4. sessions'[s].order = sessions[s].order /\ sessions'[s].amount = sessions[s].amount
    BY NothingGoes DEF Kept
  <1> QED BY <1>2, <1>3, <1>4 DEF BookedFor

LEMMA AlertedStays ==
  ASSUME IInv, [Next]_vars, NEW t \in Txns, Alerted(t)
  PROVE  Alerted(t)' /\ t \in Txns'
  <1>1. txns'[t].session = txns[t].session /\ t \in Txns'
    BY NothingGoes DEF TxnsMove, Txns
  <1> QED BY <1>1, AlertsGrow DEF Alerted

(* What is said of a session that ended is so at every later time. *)
LEMMA TrueStays ==
  ASSUME IInv, TxnsInv, [Next]_vars, NEW snap, TrueOf(snap)
  PROVE  TrueOf(snap)'
  <1>1. snap.session \in Rows /\ ~(pc = "start" /\ job.session = snap.session)
    BY DEF TrueOf
  <1>2. /\ snap.session \in Rows' /\ snap.session # Len(sessions) + 1
        /\ Len(txns) \in Nat /\ Len(txns') \in Nat
        /\ \A t \in Txns : /\ txns'[t].session = txns[t].session
                           /\ txns[t].status \in Terminal => txns'[t].status = txns[t].status
    BY <1>1, NothingGoes DEF Rows, TxnsMove
  <1>3. ~(pc' = "start" /\ job'.session = snap.session)
    BY <1>1, <1>2, StartJob
  <1>4. CashCollectedAndRecorded(snap) => BookedFor(snap.payment, snap.session)'
    BY <1>1, BookedStays DEF TrueOf
  <1>5. snap.status = "finish" /\ ~CashCollectedAndRecorded(snap) =>
          \E t \in Txns' : /\ txns'[t].session = snap.session /\ txns'[t].status = "finish"
                           /\ Alerted(t)'
    <2> SUFFICES ASSUME snap.status = "finish", ~CashCollectedAndRecorded(snap)
                 PROVE  \E t \in Txns' : /\ txns'[t].session = snap.session
                                         /\ txns'[t].status = "finish" /\ Alerted(t)'
      OBVIOUS
    <2>1. PICK t \in Txns : /\ txns[t].session = snap.session /\ txns[t].status = "finish"
                            /\ Alerted(t)
      BY DEF TrueOf
    <2>2. Alerted(t)' /\ t \in Txns'
      BY <2>1, AlertedStays
    <2> QED BY <1>2, <2>1, <2>2 DEF Terminal
  <1>6. ASSUME snap.status = "cancel", NEW t \in Txns', txns'[t].session = snap.session
        PROVE  txns'[t].status = "cancel"
    <2>1. t \in Txns
      BY <1>1, <1>2, <1>6, TxnsStep DEF TxnsNext, Txns
    <2> QED BY <1>2, <1>6, <2>1 DEF TrueOf, Terminal
  <1>7. CashCollectedAndRecorded(snap)' <=> CashCollectedAndRecorded(snap)
    BY DEF CashCollectedAndRecorded
  <1> QED BY <1>2, <1>3, <1>4, <1>5, <1>6, <1>7 DEF TrueOf

-----------------------------------------------------------------------------
(* The goroutine of a session. *)

LEMMA UnbookedStays ==
  ASSUME IInv, [Next]_vars, ~InsertPayment, NEW t \in Txns, BookedAs(t) = {}
  PROVE  BookedAs(t)' = {}
  <1>1. /\ Len(payments) \in Nat /\ \A p \in PaymentIds : payments'[p] = payments[p]
        /\ t # 0
    BY NothingGoes DEF Txns
  <1>2. \A p \in PaymentIds : payments[p].txn # t
    BY DEF BookedAs
  <1>3. CASE payments' = payments
    BY <1>2, <1>3 DEF BookedAs, PaymentIds
  <1>4. CASE Len(payments') = Len(payments) + 1 /\ payments'[Len(payments) + 1].txn = 0
    <2>1. \A p \in PaymentIds' : p \in PaymentIds \/ p = Len(payments) + 1
      BY <1>1, <1>4 DEF PaymentIds
    <2>2. \A p \in PaymentIds' : payments'[p].txn # t
      BY <1>1, <1>2, <1>4, <2>1
    <2> QED BY <2>2 DEF BookedAs
  <1> QED BY <1>3, <1>4, PaysStep DEF PaysNext

(* The goroutine stands where it stood, with the same job. *)
LEMMA SameJob ==
  ASSUME SafeInv, TxnsInv, ServingInv, [Next]_vars, ~InsertPayment, phase = "serving",
         job' = job,
         \/ pc' = pc \/ pc' = "idle"
         \/ pc \in {"stamp", "poll"} /\ pc' = "poll"
         \/ pc \in {"record", "insert"} /\ pc' = "insert"
         \/ pc \in {"lifecycle", "resolve", "ledger"} /\ pc' \in {"resolve", "ledger", "report"}
  PROVE  ServingInv'
  <1>0. IInv /\ PhaseInv
    BY DEF SafeInv
  <1>1. pc' \in HasTxn => /\ pc \in HasTxn /\ job.txn \in Txns
                          /\ txns'[job.txn].session = txns[job.txn].session
    BY <1>0, NothingGoes DEF HasTxn, IInv, JobInv, TxnsMove
  <1>2. pc' \in {"stamp", "poll", "record", "insert"} => BookedAs(job.txn)' = {}
    <2> SUFFICES ASSUME pc' \in {"stamp", "poll", "record", "insert"}
                 PROVE  BookedAs(job.txn)' = {}
      OBVIOUS
    <2>1. PICK t : t = job.txn
      OBVIOUS
    <2>2. t \in Txns /\ BookedAs(t) = {}
      BY <1>1, <2>1 DEF HasTxn, ServingInv
    <2>3. BookedAs(t)' = {}
      BY <1>0, <2>2, UnbookedStays
    <2> QED BY <2>1, <2>3
  <1>3. pc' \in {"lifecycle", "resolve", "ledger", "report"} => TrueOf(job)'
    <2> SUFFICES ASSUME pc' \in {"lifecycle", "resolve", "ledger", "report"}
                 PROVE  TrueOf(job)'
      OBVIOUS
    <2>1. PICK j : j = job
      OBVIOUS
    <2>2. TrueOf(j)
      BY <2>1 DEF ServingInv
    <2>3. TrueOf(j)'
      BY <1>0, <2>2, TrueStays
    <2> QED BY <2>1, <2>3
  <1>4. /\ pc' \in HasTxn => txns'[job'.txn].session = job'.session
        /\ pc' \in {"start", "stamp", "poll"} =>
             job'.status \notin {"finish", "cancel"} /\ job'.err = "none"
        /\ pc' \in {"record", "insert"} => job'.status = "finish" /\ job'.err = "none"
    BY <1>1 DEF ServingInv
  <1> QED BY <1>2, <1>3, <1>4 DEF ServingInv

(* What the goroutine says when it fails. *)
LEMMA FailIsTrue ==
  ASSUME IInv, NEW err, NEW status, Fail(err, status), sessions' = sessions, pc # "idle",
         err # "none", status # "finish",
         status = "cancel" =>
           \A t \in Txns' : txns'[t].session = job.session => txns'[t].status = "cancel"
  PROVE  ServingInv'
  <1>1. /\ pc' = "resolve" /\ job'.session = job.session /\ job.session \in Rows
        /\ job'.err = err /\ job'.status = status
    BY DEF Fail, IInv, TypeOK, Job, JobInv
  <1>2. TrueOf(job)'
    BY <1>1 DEF TrueOf, CashCollectedAndRecorded, Rows
  <1> QED BY <1>1, <1>2 DEF ServingInv, HasTxn

LEMMA NotRecordedIsTrue ==
  ASSUME SafeInv, ServingInv, phase = "serving", NotRecorded, pc \in {"record", "insert"},
         UNCHANGED <<txns, sessions>>
  PROVE  ServingInv'
  <1>1. /\ pc' = "resolve" /\ job'.session = job.session /\ job.session \in Rows
        /\ job'.err = "unrecorded" /\ job'.status = job.status
    BY DEF NotRecorded, SafeInv, IInv, TypeOK, Job, JobInv
  <1>2. /\ job.txn \in Txns /\ txns[job.txn].session = job.session
        /\ txns[job.txn].status = "finish" /\ job.status = "finish"
    BY DEF SafeInv, OwnInv, IInv, JobInv, HasTxn, ServingInv
  <1>3. PICK t : t = job.txn
    OBVIOUS
  <1>4. PICK a : a = Alert("cash_collected_not_recorded", <<"txn", t>>)
    OBVIOUS
  <1>5. a \in alerts' /\ a.key = <<"txn", t>>
    BY <1>3, <1>4 DEF NotRecorded, Alert
  <1>6. Alerted(t)'
    BY <1>5 DEF Alerted
  <1>7. TrueOf(job)'
    BY <1>1, <1>2, <1>3, <1>6 DEF TrueOf, CashCollectedAndRecorded, Rows, Txns
  <1> QED BY <1>1, <1>7 DEF ServingInv, HasTxn

LEMMA StartIsTrue ==
  ASSUME SafeInv, TxnsInv, ServingInv, phase = "serving", StartTransaction \/ StartRefused
  PROVE  ServingInv'
  <1>0. IInv /\ pc = "start" /\ TypeOK
    BY DEF StartTransaction, StartRefused, SafeInv, IInv
  <1>1. ASSUME Fail("error", "none"), sessions' = sessions
        PROVE  ServingInv'
    BY <1>0, <1>1, FailIsTrue
  <1>2. CASE StartRefused
    BY <1>1, <1>2 DEF StartRefused, table
  <1>3. CASE StartTransaction /\ pc' = "stamp"
    <2>1. /\ Len(txns') = Len(txns) + 1 /\ txns'[Len(txns) + 1].session = job.session
          /\ Len(txns) \in Nat
      BY <1>0, <1>3, StartMove, NothingGoes, Typed
    <2>2. PICK t : t = Len(txns) + 1
      OBVIOUS
    <2>3. job'.txn = t /\ job'.session = job.session /\ job'.status = job.status /\ job'.err = job.err
      BY <1>0, <1>3, <2>2 DEF StartTransaction, Fail, TypeOK, Job
    <2>4. payments' = payments
      BY <1>3 DEF StartTransaction, table
    <2>5. \A p \in PaymentIds : payments[p].txn # t
      BY <2>1, <2>2 DEF TxnsInv
    <2>6. BookedAs(t)' = {}
      BY <2>4, <2>5 DEF BookedAs, PaymentIds
    <2>7. job.status \notin {"finish", "cancel"} /\ job.err = "none"
      BY <1>0 DEF ServingInv
    <2>8. BookedAs(job.txn)' = {}
      BY <2>3, <2>6
    <2> QED BY <1>3, <2>1, <2>2, <2>3, <2>7, <2>8 DEF ServingInv
  <1>4. CASE StartTransaction /\ pc' # "stamp"
    BY <1>1, <1>4 DEF StartTransaction, table
  <1> QED BY <1>2, <1>3, <1>4
(* The goroutine learns the machine's status. *)
LEMMA LearnsIsTrue ==
  ASSUME SafeInv, ServingInv, [Next]_vars, ~InsertPayment, phase = "serving", pc = "poll",
         NEW status, job' = [job EXCEPT !.status = status],
         \/ pc' = "poll" /\ status \notin {"finish", "cancel"}
         \/ pc' = "record" /\ status = "finish"
  PROVE  ServingInv'
  <1>0. IInv /\ job \in Job /\ pc \in HasTxn
    BY DEF SafeInv, IInv, TypeOK, HasTxn
  <1>1. /\ job'.session = job.session /\ job'.txn = job.txn /\ job'.err = job.err
        /\ job'.status = status
    BY <1>0 DEF Job
  <1>2. PICK t : t = job.txn
    OBVIOUS
  <1>3. /\ t \in Txns /\ txns[t].session = job.session /\ BookedAs(t) = {} /\ job.err = "none"
    BY <1>0, <1>2 DEF IInv, JobInv, ServingInv
  <1>4. BookedAs(t)' = {} /\ txns'[t].session = job.session
    BY <1>0, <1>3, UnbookedStays, NothingGoes DEF TxnsMove
  <1>5. BookedAs(job.txn)' = {}
    BY <1>1, <1>2, <1>4
  <1> QED BY <1>1, <1>2, <1>3, <1>4, <1>5 DEF ServingInv

LEMMA PollIsTrue ==
  ASSUME SafeInv, TxnsInv, ServingInv, [Next]_vars, phase = "serving", Poll
  PROVE  ServingInv'
  <1>0. /\ IInv /\ pc = "poll" /\ sessions' = sessions
        /\ job.txn \in Txns /\ txns[job.txn].session = job.session
        /\ job.status \notin {"finish", "cancel"}
    BY DEF SafeInv, IInv, JobInv, HasTxn, ServingInv, Poll, PollEnded, PollFixes, PollWaits,
           ChangeShortage, PollFails, table
  <1>1. ~InsertPayment
    BY <1>0 DEF InsertPayment
  <1>2. CASE PollEnded /\ Seen = "finish"
    <2>1. job' = [job EXCEPT !.status = Seen] /\ pc' = "record"
      BY <1>2 DEF PollEnded
    <2> QED BY <1>0, <1>1, <1>2, <2>1, LearnsIsTrue
  <1>3. CASE PollEnded /\ Seen # "finish"
    <2>1. PICK err : err = IF Seen = "cancel" THEN "canceled" ELSE "retained"
      OBVIOUS
    <2>2. Fail(err, Seen) /\ err # "none" /\ txns' = txns
      BY <1>3, <2>1 DEF PollEnded, machine
    <2>3. Seen = "cancel" =>
            \A t \in Txns' : txns'[t].session = job.session => txns'[t].status = "cancel"
      BY <1>0, <2>2 DEF Seen, TxnsInv, Txns
    <2> QED BY <1>0, <1>3, <2>2, <2>3, FailIsTrue
  <1>4. CASE PollFixes \/ PollWaits
    <2>1. /\ job' = [job EXCEPT !.status = Seen] /\ pc' = "poll"
          /\ Seen \notin {"finish", "cancel"}
      BY <1>0, <1>4 DEF PollFixes, PollWaits
    <2> QED BY <1>0, <1>1, <2>1, LearnsIsTrue
  <1>5. CASE ChangeShortage
    <2>1. PICK status \in {job.status, Seen} : Fail("shortage", status)
      BY <1>5 DEF ChangeShortage
    <2>2. status \notin {"finish", "cancel"}
      BY <1>0, <1>5 DEF ChangeShortage
    <2> QED BY <1>0, <2>1, <2>2, FailIsTrue
  <1>6. CASE PollFails
    BY <1>0, <1>6, FailIsTrue DEF PollFails
  <1> QED BY <1>2, <1>3, <1>4, <1>5, <1>6 DEF Poll

LEMMA RecordIsTrue ==
  ASSUME SafeInv, TxnsInv, ServingInv, [Next]_vars, phase = "serving", Record
  PROVE  ServingInv'
  <1>0. IInv /\ TypeOK
    BY DEF SafeInv, IInv
  <1>1. ~RecordReplay
    BY DEF RecordReplay, ServingInv
  <1>2. CASE RecordCheck /\ ~NotRecorded
    <2>1. pc = "record" /\ pc' = "insert" /\ job' = job
      BY <1>2 DEF RecordCheck
    <2>2. ~InsertPayment
      BY <2>1 DEF InsertPayment
    <2> QED BY <2>1, <2>2, SameJob
  <1>3. CASE NotRecorded /\ (RecordCheck \/ RecordFails)
    <2>1. pc \in {"record", "insert"} /\ UNCHANGED <<txns, sessions>>
      BY <1>3 DEF RecordCheck, RecordFails, machine, table
    <2> QED BY <1>3, <2>1, NotRecordedIsTrue
  <1>4. CASE InsertPayment
    <2>1. /\ pc = "insert" /\ pc' = "lifecycle" /\ UNCHANGED <<txns, sessions>>
          /\ job' = [job EXCEPT !.payment = Len(payments) + 1]
      BY <1>4 DEF InsertPayment, machine
    <2>2. PICK p : p = Len(payments) + 1
      OBVIOUS
    <2>3. /\ job'.session = job.session /\ job'.txn = job.txn /\ job'.err = job.err
          /\ job'.status = job.status /\ job'.payment = p
      BY <1>0, <2>1, <2>2 DEF TypeOK, Job
    <2>4. /\ job.session \in Rows /\ job.txn \in Txns /\ txns[job.txn].session = job.session
          /\ txns[job.txn].status = "finish" /\ job.status = "finish" /\ job.err = "none"
      BY <1>0, <2>1 DEF IInv, JobInv, HasTxn, ServingInv, SafeInv, OwnInv
    <2>5. /\ p \in PaymentIds'
          /\ payments'[p] = [order |-> OrderOfJob, amount |-> AmountOfJob, txn |-> job.txn]
      <3>1. Len(payments) \in Nat /\ Len(payments') = Len(payments) + 1
        BY <1>0, <1>4, InsertMove, Typed
      <3>2. p \in PaymentIds'
        BY <2>2, <3>1 DEF PaymentIds
      <3> QED BY <1>0, <1>4, <2>2, <3>2, InsertMove
    <2>6. /\ payments'[p].order = sessions[job.session].order
          /\ payments'[p].amount = txns[job.txn].amount /\ payments'[p].txn = job.txn
      BY <2>5 DEF OrderOfJob, AmountOfJob
    <2>7. txns[job.txn].amount = sessions[job.session].amount
      BY <2>4 DEF TxnsInv
    <2>8. PICK s : s = job.session
      OBVIOUS
    <2>9. BookedFor(p, s)'
      BY <2>1, <2>4, <2>5, <2>6, <2>7, <2>8 DEF BookedFor, Txns
    <2>10. p # 0
      BY <1>0, <2>2, Typed
    <2>11. CashCollectedAndRecorded(job)' /\ BookedFor(job.payment, job.session)'
      BY <2>3, <2>4, <2>8, <2>9, <2>10 DEF CashCollectedAndRecorded
    <2>12. TrueOf(job)'
      BY <2>1, <2>3, <2>4, <2>11 DEF TrueOf, Rows
    <2> QED BY <2>1, <2>3, <2>4, <2>12 DEF ServingInv
  <1>5. CASE OrderLifecycle
    <2>1. pc = "lifecycle" /\ pc' = "resolve" /\ job' = job
      BY <1>5 DEF OrderLifecycle
    <2>2. ~InsertPayment
      BY <2>1 DEF InsertPayment
    <2> QED BY <2>1, <2>2, SameJob
  <1> QED BY <1>1, <1>2, <1>3, <1>4, <1>5 DEF Record, RecordFails

LEMMA ServingStep ==
  ASSUME SafeInv, TxnsInv, ServingInv, [Next]_vars
  PROVE  ServingInv'
  <1> SUFFICES ASSUME phase' = "serving" PROVE ServingInv'
    BY DEF ServingInv
  <1>0. IInv /\ TypeOK
    BY DEF SafeInv, IInv
  <1>1. CASE pc' = "idle"
    BY <1>1 DEF ServingInv, HasTxn
  <1>2. CASE Aside
    <2>1. phase = "serving" /\ job' = job /\ pc' = pc
      BY <1>2 DEF Aside
    <2>2. ~InsertPayment
      BY <2>1 DEF InsertPayment
    <2> QED BY <2>1, <2>2, SameJob
  <1>3. CASE phase = "serving" /\ (Poll \/ Record \/ StartTransaction \/ StartRefused)
    BY <1>3, PollIsTrue, RecordIsTrue, StartIsTrue
  <1>4. CASE StartTransaction \/ StartRefused \/ Poll \/ Record
    <2>1. phase = "serving"
      BY <1>4 DEF StartTransaction, StartRefused, process, Poll, PollEnded, PollFixes, PollWaits,
             ChangeShortage, PollFails, Record, RecordReplay, RecordCheck, RecordFails,
             InsertPayment, OrderLifecycle
    <2> QED BY <1>3, <1>4, <2>1
  <1>5. CASE StampTransaction \/ ResolveSession \/ RecordMachineLedger
    <2>1. /\ phase = "serving" /\ job' = job
          /\ \/ pc = "stamp" /\ pc' = "poll"
             \/ pc \in {"resolve", "ledger"} /\ pc' \in {"ledger", "report"}
      BY <1>5 DEF StampTransaction, ResolveSession, RecordMachineLedger, process
    <2>2. ~InsertPayment
      BY <2>1 DEF InsertPayment
    <2> QED BY <2>1, <2>2, SameJob
  <1>6. ASSUME NEW o \in Orders, NEW amount \in 1..Total, Begin(o, amount)
        PROVE  ServingInv'
    <2>1. pc' = "start" /\ job'.status = "none" /\ job'.err = "none"
      BY <1>6 DEF Begin, NoJob
    <2> QED BY <2>1 DEF ServingInv, HasTxn
  <1>7. CASE Report \/ Serve
    BY <1>1, <1>7 DEF Report, Serve
  <1>8. ~Crash /\ ~Boot
    BY DEF Crash, Boot
  <1>9. CASE ReconcileSettles
    BY <1>1, <1>9 DEF ReconcileSettles
  <1>10. \A s \in Rows : /\ ~Reconcile(s) /\ ~ReconcileUnreachable(s)
                         /\ ~ReconcileUnfinished(s) /\ ~ReconcileFinished(s)
    BY DEF Reconcile, ReconcileUnreachable, ReconcileUnfinished, ReconcileFinished, process
  <1> QED BY <1>0, <1>2, <1>4, <1>5, <1>6, <1>7, <1>8, <1>9, <1>10, AsideStep
    DEF Next, Bridge, CollectStep, BootStep

LEMMA ActiveStep ==
  ASSUME SafeInv, TxnsInv, ServingInv, ActiveInv, [Next]_vars
  PROVE  ActiveInv'
  <1>0. IInv /\ PhaseInv /\ TypeOK
    BY DEF SafeInv, IInv
  <1>1. CASE active' = active
    <2>1. PICK a : a = active
      OBVIOUS
    <2>2. TrueOf(a) => TrueOf(a)'
      BY <1>0, TrueStays
    <2> QED BY <1>1, <2>1, <2>2 DEF ActiveInv
  <1>2. CASE active'.status = "none"
    BY <1>2 DEF ActiveInv
  <1>3. CASE Report
    <2>1. phase = "serving" /\ TrueOf(job)
      BY <1>0, <1>3 DEF Report, PhaseInv, ServingInv
    <2>2. PICK j : j = job
      OBVIOUS
    <2>3. TrueOf(j)'
      BY <1>0, <2>1, <2>2, TrueStays
    <2>4. /\ active'.session = j.session /\ active'.status = j.status /\ active'.err = j.err
          /\ j.err = "none" => active'.payment = j.payment
          /\ ~active'.running
      BY <1>3, <2>2 DEF Report
    <2>5. CashCollectedAndRecorded(active)' => CashCollectedAndRecorded(j) /\ active'.payment = j.payment
      BY <2>4 DEF CashCollectedAndRecorded
    <2>6. CashCollectedAndRecorded(j) => CashCollectedAndRecorded(active)'
      BY <2>4 DEF CashCollectedAndRecorded
    <2>7. CashCollectedAndRecorded(j)' <=> CashCollectedAndRecorded(j)
      BY DEF CashCollectedAndRecorded
    <2>8. TrueOf(active)'
      BY <2>3, <2>4, <2>5, <2>6, <2>7 DEF TrueOf
    <2> QED BY <2>4, <2>8 DEF ActiveInv
  <1>4. ASSUME Crash \/ \E o \in Orders, amount \in 1..Total : Begin(o, amount)
        PROVE  ActiveInv'
    <2>1. ASSUME NEW o \in Orders, NEW amount \in 1..Total, Begin(o, amount)
          PROVE  active'.status = "none"
      BY <2>1 DEF Begin, NoSession
    <2>2. Crash => active'.status = "none"
      BY DEF Crash, NoSession
    <2>3. active'.running => active'.status = "none"
      BY <1>4, <2>1, <2>2
    <2> QED BY <1>2, <1>4, <2>1, <2>2
  <1>5. CASE Aside \/ Onward
    BY <1>1, <1>5 DEF Aside, Onward
  <1>6. CASE StartTransaction \/ ResolveSession \/ RecordMachineLedger \/ Boot \/ Serve \/ ReconcileSettles
    BY <1>1, <1>6 DEF StartTransaction, ResolveSession, RecordMachineLedger, Boot, Serve,
                      ReconcileSettles, process
  <1>7. CASE \E s \in Rows : \/ Reconcile(s) \/ ReconcileUnreachable(s)
                             \/ ReconcileUnfinished(s) \/ ReconcileFinished(s)
    BY <1>1, <1>7 DEF Reconcile, ReconcileUnreachable, ReconcileUnfinished, ReconcileFinished,
                      process
  <1> QED BY <1>0, <1>3, <1>4, <1>5, <1>6, <1>7, AsideStep, OnwardStep
    DEF Next, Bridge, CollectStep, BootStep

LEMMA BridgeStepKeeps ==
  ASSUME BridgeInv, [Next]_vars
  PROVE  BridgeInv'
  BY NextSafe, TxnsInvStep, ServingStep, ActiveStep DEF BridgeInv, SafeInv

-----------------------------------------------------------------------------
(* The till. *)

(* No step of the till does to the bridge what another client could not. *)
LEMMA TillStepIsNext ==
  ASSUME RequestInv, [TillNext]_allVars
  PROVE  [Next]_vars
  <1>1. CASE StartAccepted \/ StartUnanswered
    <2>1. Begin(pending.order, pending.amount) /\ request = "start"
      BY <1>1 DEF StartAccepted, StartUnanswered
    <2>2. pending.order \in Orders /\ pending.amount \in 1..Total
      BY <2>1 DEF RequestInv, Asked
    <2> QED BY <2>1, <2>2 DEF Next, Bridge
  <1>2. CASE UNCHANGED vars
    BY <1>2
  <1>3. CASE Bridge \/ CancelSession
    BY <1>3 DEF Next
  <1>4. CASE UNCHANGED allVars
    BY <1>4 DEF allVars
  <1> QED BY <1>1, <1>2, <1>3, <1>4
    DEF TillNext, PollTick, Answer, PollAnswered, PollDropped, PollGivesUp, StartRejected,
        CancelAnswered, CancelRejected, Cancel, Dismiss, Unmount, Collect

(* What is paid has been booked, and what it is booked for does not change. *)
LEMMA PaidStays ==
  ASSUME BridgeInv, PaidInv, [Next]_vars, paid' = paid
  PROVE  PaidInv'
  <1>1. \A p \in PaymentIds : p \in PaymentIds' /\ payments'[p] = payments[p]
    BY NothingGoes DEF BridgeInv, SafeInv, PaymentIds
  <1> QED BY <1>1 DEF PaidInv, PaidRowIsBooked

LEMMA ShownStays ==
  ASSUME BridgeInv, ShownInv, [Next]_vars, UNCHANGED <<shown, polling>>,
         streak' \in 0..MaxPollFailures, polling => streak' < MaxPollFailures
  PROVE  ShownInv'
  <1>1. IInv /\ TxnsInv
    BY DEF BridgeInv, SafeInv
  <1>2. PICK s : s = shown
    OBVIOUS
  <1>3. TrueOf(s) => TrueOf(s)'
    BY <1>1, TrueStays
  <1>4. TrueOf(shown) => TrueOf(shown)'
    BY <1>2, <1>3
  <1>5. 0..Len(sessions) \subseteq 0..Len(sessions')
    BY <1>1, NothingGoes
  <1> QED BY <1>4, <1>5 DEF ShownInv

(* The session a row waits for stays its own. *)
LEMMA OwnStays ==
  ASSUME BridgeInv, PaidInv, [Next]_vars, NEW s \in Rows, NEW p, NEW told, told = paid,
         Own(s, p, told)
  PROVE  Own(s, p, told)'
  <1>1. sessions'[s].order = sessions[s].order /\ sessions'[s].amount = sessions[s].amount
    BY NothingGoes DEF BridgeInv, SafeInv, Kept
  <1>2. ASSUME NEW i \in DOMAIN told
        PROVE  txns'[payments'[told[i].payment].txn].session # s
    <2>1. PICK q : q = told[i].payment
      OBVIOUS
    <2>2. q \in PaymentIds /\ payments[q].txn # 0
      BY <2>1 DEF PaidInv, PaidRowIsBooked
    <2>3. payments'[q] = payments[q] /\ payments[q].txn \in Txns
      BY <2>2, NothingGoes DEF BridgeInv, SafeInv, TxnsInv, Txns
    <2>4. txns'[payments[q].txn].session = txns[payments[q].txn].session
      BY <2>3, NothingGoes DEF BridgeInv, SafeInv, TxnsMove
    <2> QED BY <2>1, <2>3, <2>4 DEF Own
  <1> QED BY <1>1, <1>2 DEF Own

(* What a row is told when it is told that it is paid. *)
LEMMA Told ==
  ASSUME BridgeInv, PaidInv, [Next]_vars, ShownInv', NEW p, Asked(p), NEW s, s = shown'.session,
         NEW told, told = paid, Own(s, p, told)',
         CashCollectedAndRecorded(shown'),
         paid' = Append(paid, [order |-> p.order, amount |-> p.amount, payment |-> shown'.payment])
  PROVE  PaidInv'
  <1>1. PICK q : q = shown'.payment
    OBVIOUS
  <1>2. PICK e : e = [order |-> p.order, amount |-> p.amount, payment |-> q]
    OBVIOUS
  <1>3. e.order = p.order /\ e.amount = p.amount /\ e.payment = q
    BY <1>2
  <1>4. BookedFor(q, s)'
    <2>1. shown'.status = "finish"
      BY DEF CashCollectedAndRecorded
    <2>2. TrueOf(shown)'
      BY <2>1 DEF ShownInv
    <2>3. CashCollectedAndRecorded(shown)'
      BY DEF CashCollectedAndRecorded
    <2>4. BookedFor(shown.payment, shown.session)'
      BY <2>2, <2>3 DEF TrueOf
    <2> QED BY <1>1, <2>4
  <1>5. /\ q \in PaymentIds' /\ q \in Nat /\ payments'[q].txn # 0
        /\ txns'[payments'[q].txn].session = s
        /\ payments'[q].order = p.order /\ payments'[q].amount = p.amount
    BY <1>4 DEF BookedFor, Own, PaymentIds, Txns
  <1>6. e \in [order : Orders, amount : 1..Total, payment : Nat]
    BY <1>2, <1>5 DEF Asked
  <1>7. paid' = Append(paid, e)
    BY <1>1, <1>2
  <1>8. /\ paid' \in Seq([order : Orders, amount : 1..Total, payment : Nat])
        /\ Len(paid) \in Nat /\ Len(paid') = Len(paid) + 1
        /\ \A i \in 1..Len(paid) : paid'[i] = paid[i]
        /\ paid'[Len(paid) + 1] = e
    BY <1>6, <1>7, Appended, SeqIsFunction DEF PaidInv
  <1>9. DOMAIN paid = 1..Len(paid) /\ DOMAIN paid' = 1..Len(paid')
    BY <1>8, LenProperties DEF PaidInv
  <1>10. \A i \in DOMAIN paid' : i \in DOMAIN paid \/ i = Len(paid) + 1
    BY <1>8, <1>9
  <1>11. \A r \in PaymentIds : r \in PaymentIds' /\ payments'[r] = payments[r]
    BY NothingGoes DEF BridgeInv, SafeInv, PaymentIds
  <1>12. ASSUME NEW i \in DOMAIN paid'
         PROVE  /\ paid'[i].payment \in PaymentIds'
                /\ payments'[paid'[i].payment].txn # 0
                /\ payments'[paid'[i].payment].order = paid'[i].order
                /\ payments'[paid'[i].payment].amount = paid'[i].amount
    <2>1. CASE i \in DOMAIN paid
      BY <1>8, <1>9, <1>11, <2>1 DEF PaidInv, PaidRowIsBooked
    <2>2. CASE i = Len(paid) + 1
      BY <1>3, <1>5, <1>8, <2>2
    <2> QED BY <1>10, <2>1, <2>2
  <1>13. \A i \in DOMAIN paid : paid'[i].payment = paid[i].payment /\ paid[i].payment # q
    <2>1. \A i \in DOMAIN told : txns'[payments'[told[i].payment].txn].session # s
      BY DEF Own
    <2> QED BY <1>5, <1>8, <1>9, <2>1
  <1>14. ASSUME NEW i \in DOMAIN paid', NEW j \in DOMAIN paid', paid'[i].payment = paid'[j].payment
         PROVE  i = j
    <2>1. CASE i \in DOMAIN paid /\ j \in DOMAIN paid
      BY <1>13, <1>14, <2>1 DEF PaidInv, PaidRowIsBooked
    <2>2. CASE ~(i \in DOMAIN paid /\ j \in DOMAIN paid)
      BY <1>3, <1>8, <1>10, <1>13, <1>14, <2>2
    <2> QED BY <2>1, <2>2
  <1> QED BY <1>8, <1>12, <1>14 DEF PaidInv, PaidRowIsBooked

(* The collector's effect, after a step of the hook that leaves its row    *)
(* waiting for a session of its own, or for none yet.                      *)
LEMMA EffectKeeps ==
  ASSUME BridgeInv, RequestInv, PaidInv, [Next]_vars, ShownInv', Effect,
         request' \in {"none", "start", "cancel"}, error' \in BOOLEAN, unknown' \in BOOLEAN,
         request' = "start" =>
           /\ pending # NobodyWaits /\ ~shown'.running /\ streak' = 0 /\ ~unknown'
           /\ ~IsNew(shown'),
         NEW s, s = shown'.session, NEW p, p = pending, NEW told, told = paid,
         p # NobodyWaits /\ s # 0 /\ s # p.from => Own(s, p, told)'
  PROVE  RequestInv' /\ PaidInv'
  <1>1. p # NobodyWaits => Asked(p) /\ Asked(p)'
    <2>1. Len(sessions) \in Nat /\ Len(sessions') \in Nat /\ Len(sessions') >= Len(sessions)
      BY NothingGoes DEF BridgeInv, SafeInv
    <2> QED BY <2>1 DEF RequestInv, Asked
  <1>2. IsNew(shown') <=> s # 0 /\ s # p.from
    BY DEF IsNew
  <1>3. CASE pending # NobodyWaits /\ Settled
    <2>1. pending' = NobodyWaits /\ request' # "start"
      BY <1>3 DEF Effect, Settled
    <2>2. RequestInv'
      BY <2>1 DEF RequestInv
    <2>3. CASE ~unknown' /\ IsNew(shown') /\ CashCollectedAndRecorded(shown')
      <3>1. paid' = Append(paid, [order |-> p.order, amount |-> p.amount, payment |-> shown'.payment])
        BY <1>3, <2>3 DEF Effect
      <3>2. Own(s, p, told)' /\ Asked(p)
        BY <1>1, <1>2, <1>3, <2>3
      <3> QED BY <2>2, <2>3, <3>1, <3>2, Told
    <2>4. CASE ~(~unknown' /\ IsNew(shown') /\ CashCollectedAndRecorded(shown'))
      <3>1. paid' = paid
        BY <1>3, <2>4 DEF Effect
      <3> QED BY <2>2, <3>1, PaidStays
    <2> QED BY <2>3, <2>4
  <1>4. CASE ~(pending # NobodyWaits /\ Settled)
    <2>1. UNCHANGED <<pending, paid>>
      BY <1>4 DEF Effect
    <2>2. IsNew(shown)' <=> s # 0 /\ s # p.from
      BY <2>1 DEF IsNew
    <2>3. pending' # NobodyWaits /\ IsNew(shown)' => Own(shown.session, pending, paid)'
      BY <2>1, <2>2
    <2>4. /\ pending' = NobodyWaits \/ pending' = Wanted(pending'.order, pending'.amount, pending'.from)
          /\ pending' = NobodyWaits \/ Asked(pending)'
      <3>1. pending' = pending
        BY <2>1
      <3>2. pending = NobodyWaits \/ Asked(pending)'
        BY <1>1, <2>1
      <3> QED BY <3>1, <3>2 DEF RequestInv
    <2>5. request' = "start" => pending' # NobodyWaits /\ ~shown'.running /\ ~IsNew(shown)' /\ streak' = 0
      BY <1>2, <2>1, <2>2
    <2>6. RequestInv'
      BY <2>3, <2>4, <2>5 DEF RequestInv
    <2> QED BY <2>1, <2>6, PaidStays
  <1> QED BY <1>3, <1>4

(* The hook shows the session it showed. *)
LEMMA SameSession ==
  ASSUME BridgeInv, ShownInv, RequestInv, PaidInv, [Next]_vars, ShownInv', Effect,
         shown'.session = shown.session,
         request' \in {"none", "cancel"}, error' \in BOOLEAN, unknown' \in BOOLEAN
  PROVE  RequestInv' /\ PaidInv'
  <1>1. PICK s, p, told : s = shown.session /\ p = pending /\ told = paid
    OBVIOUS
  <1>2. ASSUME p # NobodyWaits, s # 0, s # p.from
        PROVE  Own(s, p, told)'
    <2>1. Own(s, p, told)
      BY <1>1, <1>2 DEF RequestInv, IsNew
    <2>2. s \in Rows
      BY <1>1, <1>2 DEF ShownInv, Rows
    <2> QED BY <1>1, <2>1, <2>2, OwnStays
  <1> QED BY <1>1, <1>2, EffectKeeps

LEMMA BeginOwn ==
  ASSUME BridgeInv, PaidInv, NEW o \in Orders, NEW amount \in 1..Total, Begin(o, amount),
         NEW s, NEW p, NEW told,
         s = Len(sessions) + 1, p.order = o, p.amount = amount, told = paid
  PROVE  Len(sessions') = s /\ Len(sessions) \in Nat /\ Own(s, p, told)'
  <1>1. s = Len(sessions) + 1
    OBVIOUS
  <1>2. /\ Len(sessions') = s /\ Len(sessions) \in Nat /\ UNCHANGED <<txns, payments>>
        /\ sessions'[s].order = o /\ sessions'[s].amount = amount
    <2>1. IInv /\ TypeOK
      BY DEF BridgeInv, SafeInv, IInv
    <2>2. PICK stored \in BOOLEAN : sessions'[Len(sessions) + 1] = NewRow(o, amount, stored)
      BY <2>1, BeginMove
    <2>3. Len(sessions') = s
      BY <1>1, <2>1, BeginMove
    <2> QED BY <1>1, <2>1, <2>2, <2>3, Typed DEF NewRow, Begin, machine
  <1>3. ASSUME NEW i \in DOMAIN told
        PROVE  txns'[payments'[told[i].payment].txn].session # s
    <2>1. payments[paid[i].payment].txn \in Txns
      BY <1>3 DEF PaidInv, PaidRowIsBooked, BridgeInv, TxnsInv, Txns
    <2>2. txns[payments[paid[i].payment].txn].session \in Rows
      BY <2>1 DEF BridgeInv, SafeInv, IInv, BoundsInv
    <2> QED BY <1>1, <1>2, <1>3, <2>2 DEF Rows
  <1>4. Own(s, p, told)'
    BY <1>2, <1>3 DEF Own
  <1> QED BY <1>2, <1>4

LEMMA StartAcceptedKeeps ==
  ASSUME TillInv, StartAccepted, [Next]_vars
  PROVE  ShownInv' /\ RequestInv' /\ PaidInv'
  <1>0. BridgeInv /\ ShownInv /\ RequestInv /\ PaidInv
    BY DEF TillInv
  <1>1. /\ request = "start" /\ Begin(pending.order, pending.amount)
        /\ request' = "none" /\ polling' = TRUE /\ UNCHANGED <<error, unknown, streak>> /\ Effect
    BY DEF StartAccepted
  <1>2. PICK s, p, told : s = Len(sessions) + 1 /\ p = pending /\ told = paid
    OBVIOUS
  <1>3. p.order \in Orders /\ p.amount \in 1..Total /\ streak = 0
    BY <1>0, <1>1, <1>2 DEF RequestInv, Asked
  <1>4. Len(sessions') = s /\ Len(sessions) \in Nat /\ Own(s, p, told)'
    <2>1. Begin(p.order, p.amount)
      BY <1>1, <1>2
    <2> QED BY <1>0, <1>2, <1>3, <2>1, BeginOwn
  <1>5. shown'.session = s /\ shown'.running = TRUE /\ shown'.status = "none"
    BY <1>2 DEF StartAccepted, NoSession
  <1>6. ShownInv'
    <2>1. s \in 0..Len(sessions')
      BY <1>2, <1>4
    <2>2. 0 \in 0..MaxPollFailures /\ 0 < MaxPollFailures
      BY CashTillAssumption
    <2> QED BY <1>1, <1>3, <1>5, <2>1, <2>2 DEF ShownInv
  <1>7. request' \in {"none", "start", "cancel"} /\ error' \in BOOLEAN /\ unknown' \in BOOLEAN
    BY <1>0, <1>1 DEF RequestInv
  <1> QED BY <1>0, <1>1, <1>2, <1>4, <1>5, <1>6, <1>7, EffectKeeps

LEMMA RequestFailsKeeps ==
  ASSUME TillInv, RequestFails, [Next]_vars
  PROVE  ShownInv' /\ RequestInv' /\ PaidInv'
  <1>0. BridgeInv /\ ShownInv /\ RequestInv /\ PaidInv
    BY DEF TillInv
  <1>1. /\ request' = "none" /\ error' = TRUE /\ UNCHANGED <<shown, unknown, polling, streak>>
        /\ Effect
    BY DEF RequestFails
  <1>2. ShownInv'
    BY <1>0, <1>1, ShownStays DEF ShownInv
  <1>3. error' \in BOOLEAN /\ unknown' \in BOOLEAN
    BY <1>0, <1>1 DEF RequestInv
  <1> QED BY <1>0, <1>1, <1>2, <1>3, SameSession

LEMMA PollTickKeeps ==
  ASSUME TillInv, PollTick, [Next]_vars, BridgeInv'
  PROVE  ShownInv' /\ RequestInv' /\ PaidInv'
  <1>0. BridgeInv /\ ShownInv /\ RequestInv /\ PaidInv
    BY DEF TillInv
  <1>1. /\ polling /\ shown.running /\ request # "start" /\ Effect
        /\ UNCHANGED <<request, error>>
        /\ streak \in 0..MaxPollFailures /\ streak < MaxPollFailures /\ MaxPollFailures \in Nat \ {0}
    BY <1>0, CashTillAssumption
      DEF ShownInv, RequestInv, PollTick, PollAnswered, PollDropped, PollGivesUp
  <1>2. request' \in {"none", "cancel"} /\ error' \in BOOLEAN
    BY <1>0, <1>1 DEF RequestInv
  <1>3. CASE PollAnswered
    <2>1. /\ shown' = active /\ polling' = active.running /\ streak' = 0 /\ unknown' = unknown
          /\ active.session = shown.session /\ UNCHANGED vars
      BY <1>3 DEF PollAnswered, Known
    <2>2. active.running \in BOOLEAN
      BY <1>0 DEF BridgeInv, SafeInv, IInv, TypeOK, Session
    <2>3. shown'.status = "none" \/ TrueOf(shown)'
      <3>1. active'.status = "none" \/ TrueOf(active)'
        BY DEF BridgeInv, ActiveInv
      <3>2. active' = active
        BY <2>1 DEF vars
      <3>3. PICK a : a = active
        OBVIOUS
      <3>4. a.status = "none" \/ TrueOf(a)'
        BY <3>1, <3>2, <3>3
      <3> QED BY <2>1, <3>3, <3>4
    <2>4. /\ shown'.session \in 0..Len(sessions') /\ shown'.running \in BOOLEAN
          /\ shown'.running => shown'.status = "none"
          /\ polling' \in BOOLEAN /\ (polling' <=> shown'.running)
      BY <1>0, <2>1, <2>2 DEF BridgeInv, SafeInv, IInv, JobInv, ActiveInv, vars
    <2>5. 0 \in 0..MaxPollFailures /\ 0 < MaxPollFailures
      BY <1>1
    <2>6. ShownInv'
      BY <2>1, <2>3, <2>4, <2>5 DEF ShownInv
    <2>7. unknown' \in BOOLEAN
      BY <1>0, <2>1 DEF RequestInv
    <2> QED BY <1>0, <1>1, <1>2, <2>1, <2>6, <2>7, SameSession
  <1>4. CASE PollDropped
    <2>1. /\ streak' = streak + 1 /\ streak + 1 < MaxPollFailures
          /\ UNCHANGED <<shown, unknown, polling>>
      BY <1>4 DEF PollDropped
    <2>2. streak' \in 0..MaxPollFailures /\ streak' < MaxPollFailures
      BY <1>1, <2>1
    <2>3. ShownInv'
      BY <1>0, <2>1, <2>2, ShownStays
    <2>4. unknown' \in BOOLEAN
      BY <1>0, <2>1 DEF RequestInv
    <2> QED BY <1>0, <1>1, <1>2, <2>1, <2>3, <2>4, SameSession
  <1>5. CASE PollGivesUp
    <2>1. /\ streak' = streak + 1 /\ unknown' = TRUE /\ polling' = FALSE
          /\ shown' = [shown EXCEPT !.running = FALSE] /\ UNCHANGED vars
      BY <1>5 DEF PollGivesUp
    <2>2. streak' \in 0..MaxPollFailures
      BY <1>1, <2>1
    <2>3. shown'.session = shown.session /\ shown'.status = "none" /\ shown'.running = FALSE
      BY <1>0, <1>1, <2>1 DEF ShownInv
    <2>4. ShownInv'
      BY <1>0, <2>1, <2>2, <2>3 DEF ShownInv, vars
    <2> QED BY <1>0, <1>1, <1>2, <2>1, <2>3, <2>4, SameSession
  <1> QED BY <1>3, <1>4, <1>5 DEF PollTick

LEMMA CancelAnsweredKeeps ==
  ASSUME TillInv, CancelAnswered, [Next]_vars
  PROVE  ShownInv' /\ RequestInv' /\ PaidInv'
  <1>0. BridgeInv /\ ShownInv /\ RequestInv /\ PaidInv
    BY DEF TillInv
  <1>1. /\ request' = "none" /\ UNCHANGED <<shown, error, unknown, polling, streak>> /\ Effect
    BY DEF CancelAnswered
  <1>2. ShownInv'
    BY <1>0, <1>1, ShownStays DEF ShownInv
  <1>3. error' \in BOOLEAN /\ unknown' \in BOOLEAN
    BY <1>0, <1>1 DEF RequestInv
  <1> QED BY <1>0, <1>1, <1>2, <1>3, SameSession

LEMMA DismissKeeps ==
  ASSUME TillInv, Dismiss, [Next]_vars
  PROVE  ShownInv' /\ RequestInv' /\ PaidInv'
  <1>0. BridgeInv /\ ShownInv /\ RequestInv /\ PaidInv
    BY DEF TillInv
  <1>1. /\ shown' = NoSession /\ error' = FALSE /\ unknown' = FALSE /\ streak' = 0
        /\ polling' = FALSE /\ request' = request /\ UNCHANGED vars /\ Effect
    BY DEF Dismiss
  <1>2. shown'.session = 0 /\ shown'.running = FALSE /\ shown'.status = "none"
    BY <1>1 DEF NoSession
  <1>3. ShownInv'
    <2>1. 0 \in 0..Len(sessions') /\ 0 \in 0..MaxPollFailures
      BY <1>0, <1>1, CashTillAssumption DEF ShownInv, vars
    <2> QED BY <1>1, <1>2, <2>1 DEF ShownInv
  <1>4. PICK s, p, told : s = shown'.session /\ p = pending /\ told = paid
    OBVIOUS
  <1>5. /\ request' \in {"none", "start", "cancel"} /\ error' \in BOOLEAN /\ unknown' \in BOOLEAN
        /\ request' = "start" => pending # NobodyWaits
        /\ ~IsNew(shown')
    BY <1>0, <1>1, <1>2 DEF RequestInv, IsNew
  <1> QED BY <1>0, <1>1, <1>2, <1>3, <1>4, <1>5, EffectKeeps

(* The row asks, or the cashier has had enough: nobody is told anything. *)
LEMMA CollectKeeps ==
  ASSUME TillInv, NEW o \in Orders, NEW amount \in 1..Total, Collect(o, amount), [Next]_vars
  PROVE  ShownInv' /\ RequestInv' /\ PaidInv'
  <1>0. BridgeInv /\ ShownInv /\ RequestInv /\ PaidInv
    BY DEF TillInv
  <1>1. /\ ~shown.running /\ UNCHANGED <<vars, shown, polling, paid>>
        /\ request' = "start" /\ error' = FALSE /\ unknown' = FALSE /\ streak' = 0
        /\ pending' = [order |-> o, amount |-> amount, from |-> shown.session]
    BY DEF Collect, Idle
  <1>2. PICK p : p = [order |-> o, amount |-> amount, from |-> shown.session]
    OBVIOUS
  <1>3. /\ pending' = p /\ p.order = o /\ p.amount = amount /\ p.from = shown.session
        /\ p = Wanted(p.order, p.amount, p.from)
    BY <1>1, <1>2 DEF Wanted
  <1>4. Asked(pending)' /\ ~IsNew(shown)'
    BY <1>0, <1>1, <1>3 DEF Asked, IsNew, ShownInv, vars
  <1>5. pending' # NobodyWaits
    <2>1. p.amount # 0 /\ NobodyWaits.amount = 0
      BY <1>3 DEF NobodyWaits
    <2> QED BY <1>3, <2>1
  <1>6. ShownInv'
    <2>1. 0 \in 0..MaxPollFailures /\ 0 < MaxPollFailures
      BY CashTillAssumption
    <2> QED BY <1>0, <1>1, <2>1, ShownStays
  <1>7. RequestInv'
    BY <1>1, <1>3, <1>4, <1>5 DEF RequestInv
  <1> QED BY <1>0, <1>1, <1>6, <1>7, PaidStays

LEMMA UnmountKeeps ==
  ASSUME TillInv, Unmount, [Next]_vars
  PROVE  ShownInv' /\ RequestInv' /\ PaidInv'
  <1>0. BridgeInv /\ ShownInv /\ RequestInv /\ PaidInv
    BY DEF TillInv
  <1>1. /\ shown' = NoSession /\ request' = "none" /\ error' = FALSE /\ unknown' = FALSE
        /\ polling' = FALSE /\ streak' = 0 /\ pending' = NobodyWaits /\ UNCHANGED <<vars, paid>>
    BY DEF Unmount
  <1>2. shown'.session = 0 /\ shown'.running = FALSE /\ shown'.status = "none"
    BY <1>1 DEF NoSession
  <1>3. 0 \in 0..Len(sessions') /\ 0 \in 0..MaxPollFailures
    BY <1>0, <1>1, CashTillAssumption DEF ShownInv, vars
  <1>4. ShownInv'
    BY <1>1, <1>2, <1>3 DEF ShownInv
  <1> QED BY <1>0, <1>1, <1>4, PaidStays DEF RequestInv

LEMMA TillAloneKeeps ==
  ASSUME TillInv, [Next]_vars, UNCHANGED <<shown, error, unknown, polling, streak, pending, paid>>,
         request' = request \/ request' = "cancel"
  PROVE  ShownInv' /\ RequestInv' /\ PaidInv'
  <1>0. BridgeInv /\ ShownInv /\ RequestInv /\ PaidInv
    BY DEF TillInv
  <1>1. ShownInv'
    BY <1>0, ShownStays DEF ShownInv
  <1>2. PICK s, p, told : s = shown.session /\ p = pending /\ told = paid
    OBVIOUS
  <1>3. ASSUME p # NobodyWaits, s # 0, s # p.from
        PROVE  Own(s, p, told)'
    <2>1. Own(s, p, told)
      BY <1>0, <1>2, <1>3 DEF RequestInv, IsNew
    <2>2. s \in Rows
      BY <1>0, <1>2, <1>3 DEF ShownInv, Rows
    <2> QED BY <1>0, <1>2, <2>1, <2>2, OwnStays
  <1>4. Asked(pending) => Asked(pending)'
    <2>1. Len(sessions) \in Nat /\ Len(sessions') \in Nat /\ Len(sessions') >= Len(sessions)
      BY <1>0, NothingGoes DEF BridgeInv, SafeInv
    <2> QED BY <2>1 DEF Asked
  <1>5. IsNew(shown)' <=> s # 0 /\ s # p.from
    BY <1>2 DEF IsNew
  <1>6. pending' # NobodyWaits /\ IsNew(shown)' => Own(shown.session, pending, paid)'
    BY <1>2, <1>3, <1>5
  <1>7. RequestInv'
    <2>1. IsNew(shown)' <=> IsNew(shown)
      BY DEF IsNew
    <2> QED BY <1>0, <1>4, <1>6, <2>1 DEF RequestInv
  <1> QED BY <1>0, <1>1, <1>7, PaidStays

-----------------------------------------------------------------------------
(* Together. *)

LEMMA InitTill == TillInit => TillInv
  <1> SUFFICES ASSUME TillInit PROVE TillInv
    OBVIOUS
  <1>1. /\ Init /\ SafeInv /\ txns = <<>> /\ sessions = <<>> /\ payments = <<>> /\ Len(<<>>) = 0
        /\ active = NoSession /\ pc = "idle"
    BY InitSafe DEF TillInit, Init
  <1>2. shown = NoSession /\ request = "none" /\ error = FALSE /\ unknown = FALSE
        /\ polling = FALSE /\ streak = 0 /\ pending = NobodyWaits /\ paid = <<>>
    BY DEF TillInit
  <1>3. TxnsInv
    BY <1>1 DEF TxnsInv, Txns, PaymentIds
  <1>4. ServingInv
    BY <1>1 DEF ServingInv, HasTxn
  <1>5. NoSession.session = 0 /\ NoSession.running = FALSE /\ NoSession.status = "none"
    BY DEF NoSession
  <1>6. ActiveInv
    BY <1>1, <1>5 DEF ActiveInv
  <1>7. ShownInv
    <2>1. 0 \in 0..Len(sessions) /\ 0 \in 0..MaxPollFailures /\ 0 < MaxPollFailures
      BY <1>1, CashTillAssumption
    <2> QED BY <1>2, <1>5, <2>1 DEF ShownInv
  <1>8. RequestInv
    BY <1>2 DEF RequestInv
  <1>9. PaidInv
    BY <1>2 DEF PaidInv, PaidRowIsBooked
  <1> QED BY <1>1, <1>3, <1>4, <1>6, <1>7, <1>8, <1>9 DEF TillInv, BridgeInv

LEMMA StepTill == TillInv /\ [TillNext]_allVars => TillInv'
  <1> SUFFICES ASSUME TillInv, [TillNext]_allVars PROVE TillInv'
    OBVIOUS
  <1>1. BridgeInv /\ RequestInv
    BY DEF TillInv
  <1>2. [Next]_vars
    BY <1>1, TillStepIsNext
  <1>3. BridgeInv'
    BY <1>1, <1>2, BridgeStepKeeps
  <1>4. ShownInv' /\ RequestInv' /\ PaidInv'
    <2>1. CASE PollTick
      BY <1>2, <1>3, <2>1, PollTickKeeps
    <2>2. CASE StartAccepted
      BY <1>2, <2>2, StartAcceptedKeeps
    <2>3. CASE StartUnanswered \/ StartRejected \/ CancelRejected
      BY <1>2, <2>3, RequestFailsKeeps DEF StartUnanswered, StartRejected, CancelRejected
    <2>4. CASE CancelAnswered
      BY <1>2, <2>4, CancelAnsweredKeeps
    <2>5. CASE Cancel
      BY <1>2, <2>5, TillAloneKeeps DEF Cancel
    <2>6. CASE Dismiss
      BY <1>2, <2>6, DismissKeeps
    <2>7. CASE Unmount
      BY <1>2, <2>7, UnmountKeeps
    <2>8. ASSUME NEW o \in Orders, NEW amount \in 1..Total, Collect(o, amount)
          PROVE  ShownInv' /\ RequestInv' /\ PaidInv'
      BY <1>2, <2>8, CollectKeeps
    <2>9. CASE UNCHANGED till
      BY <1>2, <2>9, TillAloneKeeps DEF till
    <2> QED BY <2>1, <2>2, <2>3, <2>4, <2>5, <2>6, <2>7, <2>8, <2>9
      DEF TillNext, Answer, allVars
  <1> QED BY <1>3, <1>4 DEF TillInv

(***************************************************************************)
(* TillInv holds of every reachable state, whatever fails and whatever the *)
(* LAN loses.                                                              *)
(***************************************************************************)
THEOREM TillInvariance == TillSpec => []TillInv
  BY InitTill, StepTill, PTL DEF TillSpec

(***************************************************************************)
(* The till does to the workstation what any client may and nothing else:  *)
(* what is proved of CashMachine holds with the till in front of it.       *)
(***************************************************************************)
THEOREM TillDrivesBridge == TillSpec => Spec
  <1>1. TillInit => Init
    BY DEF TillInit
  <1>2. TillInv /\ [TillNext]_allVars => [Next]_vars
    BY TillStepIsNext DEF TillInv
  <1> QED BY <1>1, <1>2, TillInvariance, PTL DEF TillSpec, Spec

(***************************************************************************)
(* The state of the till keeps its type: what waits was asked for, what is *)
(* told names an order and an amount, the failed polls stay bounded.       *)
(***************************************************************************)
THEOREM TillTyping == TillSpec => []TillTypeOK
  <1>1. TillInv => TillTypeOK
    <2> SUFFICES ASSUME TillInv PROVE TillTypeOK
      OBVIOUS
    <2>1. TypeOK /\ Len(sessions) \in Nat
      BY Typed DEF TillInv, BridgeInv, SafeInv, IInv
    <2>2. ShownInv /\ RequestInv /\ PaidInv
      BY DEF TillInv
    <2>3. shown.session \in Nat /\ shown.running \in BOOLEAN /\ polling \in BOOLEAN
          /\ streak \in 0..MaxPollFailures
      BY <2>1, <2>2 DEF ShownInv
    <2>4. pending = NobodyWaits \/ pending \in [order : Orders, amount : 1..Total, from : Nat]
      <3>1. CASE pending # NobodyWaits
        <4>1. /\ pending.order \in Orders /\ pending.amount \in 1..Total /\ pending.from \in Nat
          BY <2>1, <2>2, <3>1 DEF RequestInv, Asked
        <4>2. pending = [order |-> pending.order, amount |-> pending.amount, from |-> pending.from]
          BY <2>2, <3>1 DEF RequestInv, Wanted
        <4> QED BY <4>1, <4>2
      <3> QED BY <3>1
    <2> QED BY <2>1, <2>2, <2>3, <2>4 DEF TillTypeOK, RequestInv, PaidInv
  <1> QED BY <1>1, TillInvariance, PTL

(***************************************************************************)
(* A row of the split bill is told that the machine's cash is paid only    *)
(* when it is booked, on the row's order and for the row's amount, and no  *)
(* two rows are told of the same payment: whatever answers are lost,       *)
(* whoever else collects, and however often the workstation restarts.      *)
(***************************************************************************)
THEOREM ToldRowsArePaid == TillSpec => []PaidRowIsBooked
  <1>1. TillInv => PaidRowIsBooked
    BY DEF TillInv, PaidInv
  <1> QED BY <1>1, TillInvariance, PTL

(***************************************************************************)
(* What the overlay tells the cashier of where the cash is stays true:     *)
(* "returned" only if the machine kept nothing, "done" only if it is       *)
(* booked, "unrecorded" only if it finished and somebody was alerted.  The *)
(* headline "retained" is not covered: it is not always true.              *)
(***************************************************************************)
THEOREM OverlayNeverLies == TillSpec => []OverlayIsTrue
  <1>1. TillInv => OverlayIsTrue
    <2> SUFFICES ASSUME TillInv, shown.session # 0 PROVE OverlayIsTrue
      BY DEF OverlayIsTrue
    <2>0. shown.status = "none" \/ TrueOf(shown)
      BY DEF TillInv, ShownInv
    <2>1. \A h \in {"returned", "done", "unrecorded"} : Headline = h => TrueOf(shown)
      BY <2>0 DEF Headline, CashCollectedAndRecorded
    <2>2. Headline = "returned" => \A t \in TxnsOfShown : ~KeptByMachine(t)
      <3>1. Headline = "returned" => shown.status = "cancel"
        BY DEF Headline
      <3> QED BY <2>1, <3>1 DEF TrueOf, TxnsOfShown, KeptByMachine
    <2>3. Headline = "done" => \E t \in TxnsOfShown : /\ txns[t].status = "finish"
                                                      /\ shown.payment \in BookedAs(t)
      <3>1. Headline = "done" => CashCollectedAndRecorded(shown)
        BY DEF Headline
      <3>2. Headline = "done" => BookedFor(shown.payment, shown.session)
        BY <2>1, <3>1 DEF TrueOf
      <3> QED BY <3>2 DEF BookedFor, TxnsOfShown, BookedAs
    <2>4. Headline = "unrecorded" => \E t \in TxnsOfShown : /\ txns[t].status = "finish"
                                                            /\ Alerted(t)
      <3>1. Headline = "unrecorded" => shown.status = "finish" /\ ~CashCollectedAndRecorded(shown)
        BY DEF Headline
      <3>2. Headline = "unrecorded" =>
              \E t \in Txns : /\ txns[t].session = shown.session /\ txns[t].status = "finish"
                              /\ Alerted(t)
        BY <2>1, <3>1 DEF TrueOf
      <3> QED BY <3>2 DEF TxnsOfShown
    <2> QED BY <2>2, <2>3, <2>4 DEF OverlayIsTrue
  <1> QED BY <1>1, TillInvariance, PTL
=============================================================================

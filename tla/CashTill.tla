------------------------------ MODULE CashTill ------------------------------
(***************************************************************************)
(* The POS in front of the cash changer: useCashChanger (start, poll,      *)
(* cancel, dismiss), useMachineCollector, which turns one collection into  *)
(* a promise a split-bill row waits for, and what CashChangerOverlay tells *)
(* the cashier, composed with CashMachine.                                 *)
(*                                                                         *)
(* A request and its answer are one step, and on a lossy LAN either may be *)
(* lost.  React runs the collector's effect after each change of the       *)
(* hook's state, so the two are one step as well.  Another surface (the    *)
(* kiosk) may begin a collection too.  Left out: the deposit counters, the *)
(* query cache (LiveOrders), the wording of headlines.                     *)
(***************************************************************************)
EXTENDS CashMachine

CONSTANTS
  MaxPollFailures,  \* MAX_CONSECUTIVE_POLL_FAILURES
  LossyLAN          \* whether requests and answers are lost

ASSUME CashTillAssumption == MaxPollFailures \in Nat \ {0} /\ LossyLAN \in BOOLEAN

VARIABLES
  shown,     \* session: the last snapshot
  request,   \* busy: the request in flight, "start", "cancel" or "none"
  error,     \* error # null
  unknown,   \* outcomeUnknown
  polling,   \* a poll is armed or in flight
  streak,    \* failStreakRef
  pending,   \* pendingRef: what the waiting row asked for, and startedFrom
  paid       \* a history of the rows told that their collection is paid

till == <<shown, request, error, unknown, polling, streak, pending, paid>>
allVars == <<vars, till>>

NobodyWaits == [order |-> 0, amount |-> 0, from |-> 0]

TillInit ==
  /\ Init
  /\ shown = NoSession /\ request = "none" /\ error = FALSE /\ unknown = FALSE
  /\ polling = FALSE /\ streak = 0 /\ pending = NobodyWaits /\ paid = <<>>

(* Broken: that the machine is done is taken for the payment. *)
CashCollected(snap) == snap.status = "finish"

CashCollectedAndRecorded(snap) == snap.status = "finish" /\ snap.payment # 0 /\ snap.err = "none"

-----------------------------------------------------------------------------
(* The collector's effect on the state a step leaves the hook in.          *)

(* Broken: whatever session is shown is the one waited for. *)
AnySession(snap) == snap.session # 0

IsNew(snap) == snap.session # 0 /\ snap.session # pending.from

(* Broken: a start that failed leaves the row waiting. *)
SettledBySession ==
  \/ unknown'
  \/ IsNew(shown') /\ ~shown'.running

Settled ==
  \/ unknown'
  \/ ~IsNew(shown') /\ error' /\ request' = "none"
  \/ IsNew(shown') /\ ~shown'.running

Effect ==
  IF pending # NobodyWaits /\ Settled
  THEN /\ pending' = NobodyWaits
       /\ paid' = IF ~unknown' /\ IsNew(shown') /\ CashCollectedAndRecorded(shown')
                  THEN Append(paid, [order |-> pending.order, amount |-> pending.amount,
                                     payment |-> shown'.payment])
                  ELSE paid
  ELSE UNCHANGED <<pending, paid>>

-----------------------------------------------------------------------------
(* The hook.                                                               *)

Idle == pending = NobodyWaits /\ request = "none" /\ ~shown.running

Collect(o, amount) ==
  /\ Idle /\ Len(sessions) < MaxSessions
  /\ pending' = [order |-> o, amount |-> amount, from |-> shown.session]
  /\ request' = "start" /\ error' = FALSE /\ unknown' = FALSE /\ streak' = 0
  /\ UNCHANGED <<vars, shown, polling, paid>>

RequestFails ==
  /\ request' = "none" /\ error' = TRUE
  /\ UNCHANGED <<shown, unknown, polling, streak>>
  /\ Effect

StartAccepted ==
  /\ request = "start" /\ Begin(pending.order, pending.amount)
  /\ shown' = [NoSession EXCEPT !.session = Len(sessions) + 1, !.running = TRUE]
  /\ request' = "none" /\ polling' = TRUE
  /\ UNCHANGED <<error, unknown, streak>>
  /\ Effect

StartUnanswered ==
  /\ request = "start" /\ LossyLAN
  /\ Begin(pending.order, pending.amount)
  /\ RequestFails

StartRejected ==
  /\ request = "start"
  /\ \/ LossyLAN \/ phase # "serving" \/ active.running \/ Len(sessions) = MaxSessions
     \/ ~Collectable(pending.order, pending.amount)
  /\ RequestFails
  /\ UNCHANGED vars

Known == phase = "serving" /\ active.session = shown.session

PollAnswered ==
  /\ polling /\ Known
  /\ shown' = active /\ polling' = active.running /\ streak' = 0
  /\ UNCHANGED <<vars, request, error, unknown>>
  /\ Effect

(* Silence is ridden out for a while, "session not found" is not.          *)
Silent == phase # "serving" \/ LossyLAN
Forgotten == phase = "serving" /\ ~Known

(* Broken: silence is ridden out for ever. *)
PollDroppedForEver ==
  /\ polling /\ Silent
  /\ streak' = streak + 1
  /\ UNCHANGED <<vars, shown, request, error, unknown, polling>>
  /\ Effect

PollDropped ==
  /\ polling /\ Silent /\ streak + 1 < MaxPollFailures
  /\ streak' = streak + 1
  /\ UNCHANGED <<vars, shown, request, error, unknown, polling>>
  /\ Effect

PollGivesUp ==
  /\ polling
  /\ Forgotten \/ (Silent /\ streak + 1 = MaxPollFailures)
  /\ streak' = streak + 1 /\ unknown' = TRUE /\ polling' = FALSE
  /\ shown' = [shown EXCEPT !.running = FALSE]
  /\ UNCHANGED <<vars, request, error>>
  /\ Effect

(* The overlay offers to cancel while the session runs.                    *)
Cancel ==
  /\ shown.running /\ ~unknown /\ request = "none"
  /\ request' = "cancel"
  /\ UNCHANGED <<vars, shown, error, unknown, polling, streak, pending, paid>>

CancelAnswered ==
  /\ request = "cancel" /\ Known /\ CancelSession
  /\ request' = "none"
  /\ UNCHANGED <<shown, error, unknown, polling, streak>>
  /\ Effect

CancelRejected ==
  /\ request = "cancel" /\ (LossyLAN \/ ~Known)
  /\ RequestFails
  /\ UNCHANGED vars

Dismiss ==
  /\ shown.session # 0 /\ (unknown \/ ~shown.running)
  /\ shown' = NoSession /\ error' = FALSE /\ unknown' = FALSE /\ streak' = 0
  /\ polling' = FALSE
  /\ UNCHANGED <<vars, request>>
  /\ Effect

(* The dialog is left, or the page reloaded: the row's promise is gone.    *)
Unmount ==
  /\ till # <<NoSession, "none", FALSE, FALSE, FALSE, 0, NobodyWaits, paid>>
  /\ shown' = NoSession /\ request' = "none" /\ error' = FALSE /\ unknown' = FALSE
  /\ polling' = FALSE /\ streak' = 0 /\ pending' = NobodyWaits
  /\ UNCHANGED <<vars, paid>>

-----------------------------------------------------------------------------
PollTick == PollAnswered \/ PollDropped \/ PollGivesUp

Answer ==
  \/ StartAccepted \/ StartUnanswered \/ StartRejected
  \/ CancelAnswered \/ CancelRejected

TillNext ==
  \/ PollTick \/ Answer \/ Cancel \/ Dismiss \/ Unmount
  \/ \E o \in Orders, amount \in 1..Total : Collect(o, amount)
  \/ Bridge /\ UNCHANGED till

TillSpec == TillInit /\ [][TillNext]_allVars

(* What the workstation owes (CashMachine); a request is answered or fails, *)
(* and the poll's timer fires.                                             *)
FairTillSpec ==
  /\ TillSpec
  /\ WF_allVars(UNCHANGED till /\ \E t \in Txns : DepositTimeout(t) \/ Dispensed(t))
  /\ WF_allVars(UNCHANGED till /\ CollectStep)
  /\ WF_allVars(UNCHANGED till /\ BootStep)
  /\ WF_allVars(PollTick) /\ WF_allVars(Answer)

-----------------------------------------------------------------------------
TillTypeOK ==
  /\ TypeOK
  /\ shown.session \in Nat /\ shown.running \in BOOLEAN
  /\ request \in {"none", "start", "cancel"}
  /\ error \in BOOLEAN /\ unknown \in BOOLEAN /\ polling \in BOOLEAN
  /\ streak \in 0..MaxPollFailures
  /\ pending = NobodyWaits \/ pending \in [order : Orders, amount : 1..Total, from : Nat]
  /\ paid \in Seq([order : Orders, amount : 1..Total, payment : Nat])

(***************************************************************************)
(* A row told that it is paid has a payment of the machine, on its order   *)
(* and of its amount, and no two rows are told of the same payment: an     *)
(* earlier session's snapshot, another surface's session or a restarted    *)
(* workstation never answers for it.                                       *)
(***************************************************************************)
PaidRowIsBooked ==
  /\ \A i \in DOMAIN paid :
       /\ paid[i].payment \in PaymentIds
       /\ payments[paid[i].payment].txn # 0
       /\ payments[paid[i].payment].order = paid[i].order
       /\ payments[paid[i].payment].amount = paid[i].amount
  /\ \A i, j \in DOMAIN paid : paid[i].payment = paid[j].payment => i = j

(***************************************************************************)
(* The overlay "exists to say one thing correctly: where the customer's    *)
(* cash is".  What it says of a session is true of the machine and of the  *)
(* books, at every later time: "returned" only if the machine kept         *)
(* nothing, "done" only if it is booked, "unrecorded" only if the          *)
(* machine finished and somebody was alerted.  Nothing is said of the      *)
(* other headlines: "collecting" and "unknown" claim nothing of the cash,  *)
(* and "retained" is the overlay's answer to every other status, also to   *)
(* a start that was refused and a shortage whose cash was returned.        *)
(***************************************************************************)
Headline ==
  CASE unknown                              -> "unknown"
    [] ~unknown /\ shown.running            -> "collecting"
    [] OTHER ->
       CASE CashCollectedAndRecorded(shown) -> "done"
         [] shown.status = "finish" /\ ~CashCollectedAndRecorded(shown) -> "unrecorded"
         [] shown.status = "cancel"         -> "returned"
         [] OTHER                           -> "retained"

TxnsOfShown == {t \in Txns : txns[t].session = shown.session}

OverlayIsTrue ==
  shown.session # 0 =>
    CASE Headline = "returned"     -> \A t \in TxnsOfShown : ~KeptByMachine(t)
      [] Headline = "done"         -> \E t \in TxnsOfShown : /\ txns[t].status = "finish"
                                                             /\ shown.payment \in BookedAs(t)
      [] Headline = "unrecorded"   -> \E t \in TxnsOfShown : /\ txns[t].status = "finish"
                                                             /\ Alerted(t)
      [] OTHER -> TRUE

(***************************************************************************)
(* A row that waits for the machine is answered: the machine times out, or *)
(* the polls give up.                                                      *)
(***************************************************************************)
CollectSettles == (pending # NobodyWaits) ~> (pending = NobodyWaits)
=============================================================================

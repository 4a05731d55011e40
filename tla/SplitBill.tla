------------------------------ MODULE SplitBill ------------------------------
(***************************************************************************)
(* Splitting a bill evenly at the POS: SplitBillEvenTab with its rows, its *)
(* snapshot in localStorage and the equal-split calculator it hydrates     *)
(* from, against the workstation's payment and refund handlers.            *)
(*                                                                         *)
(* Requests of different rows, and of a dialog closed since, are handled   *)
(* concurrently; a request gives up after WORKSTATION_TIMEOUT_MS while the *)
(* workstation goes on.  The total of the order is constant, so the drift  *)
(* check never fires; paid_amount is what is captured, as the handlers     *)
(* recompute it.  Left out: payment methods and tenders, collection by the *)
(* machine (CashTill), the number of guests, printing, and the second of   *)
(* two refunds of one payment (they share a key).                          *)
(***************************************************************************)
EXTENDS Integers, Sequences, FiniteSets, Functions

CONSTANTS
  Guests,       \* the split count
  Total,        \* total_amount of the order
  MaxRequests,  \* bound: how many requests are sent
  Typed,        \* the amounts the cashier types over a share
  Moves         \* what else than paying happens

ASSUME SplitBillAssumption ==
  /\ Guests \in Nat \ {0, 1} /\ Total \in Nat \ {0} /\ MaxRequests \in Nat
  /\ Typed \subseteq Nat
  /\ Moves \subseteq {"method", "refund", "close", "reconnect", "timeout"}

VARIABLES
  payments,    \* the workstation: payments of the order, refunded or not, and
               \* as a history the row they were sent for
  requests,    \* the requests that either side is still busy with
  sent,        \* how many were sent, which numbers them and the keys
  open,        \* the dialog is on screen
  rows,        \* rows; <<>> is null
  saved,       \* the snapshot in localStorage; <<>> is none
  data,        \* splitData: the calculator's shares; <<>> is null
  fetching,    \* isFetching of useSplitBill
  receipt,     \* what onAllRowsPaid handed over: guest -> payment
  doubts       \* a history of the rows whose refund timed out

screen == <<open, rows, saved, data, fetching, receipt>>
vars == <<payments, requests, sent, open, rows, saved, data, fetching, receipt, doubts>>

PaymentIds == 1..Len(payments)

-----------------------------------------------------------------------------
(* computeEqualSplitPayload: the first guest pays the remainder.           *)
Captured == SumFunction([p \in {q \in PaymentIds : ~payments[q].refunded} |-> payments[p].amount])

(* Broken: an overpaid order has a negative remainder. *)
RemainingUnclamped == Total - Captured

Remaining == IF Captured < Total THEN Total - Captured ELSE 0

PerPersonAmounts ==
  [i \in 1..Guests |-> Remaining \div Guests + IF i = 1 THEN Remaining % Guests ELSE 0]

(* redistributeEqualSplit: row i gets the amount typed, the other unlocked *)
(* rows share what is left of the total, the last one takes the remainder. *)
Locked(row) == row.status \in {"succeeded", "submitting"}
Others(i) == {j \in DOMAIN rows : j # i /\ ~Locked(rows[j])}

Redistributed(i, amount) ==
  LET fixed == SumFunction([j \in {k \in DOMAIN rows \ {i} : Locked(rows[k])} |-> rows[j].amount])
      left  == IF amount + fixed < Total THEN Total - amount - fixed ELSE 0
      n     == Cardinality(Others(i))
      last(j) == \A k \in Others(i) : k <= j
  IN [j \in DOMAIN rows |->
        CASE j = i -> amount
          [] j \in Others(i) -> IF last(j) THEN left - (left \div n) * (n - 1) ELSE left \div n
          [] OTHER -> rows[j].amount]

-----------------------------------------------------------------------------
(* The rows and what React derives from them.                              *)

IdleRow(amount) == [amount |-> amount, status |-> "idle", key |-> 0, payment |-> 0, error |-> FALSE]
IdleRows(amounts) == [i \in DOMAIN amounts |-> IdleRow(amounts[i])]
Amounts(rs) == [i \in DOMAIN rs |-> rs[i].amount]

AnySettled(rs) == \E i \in DOMAIN rs : rs[i].status = "succeeded"
AllSettled(rs) == \A i \in DOMAIN rs : rs[i].status = "succeeded"
AnySubmitting == \E i \in DOMAIN rows : rows[i].status = "submitting"

(* The rows become rs, and are saved until all of them have settled.       *)
Show(rs) ==
  /\ rows' = rs
  /\ saved' = IF rs = <<>> THEN saved ELSE IF AllSettled(rs) THEN <<>> ELSE Amounts(rs)

(* inFlightRef: the rows a request of this dialog is out for.              *)
InFlight == {r.row : r \in {q \in requests : q.client = "waiting"}}

(* The skeleton covers the rows while the shares are fetched.              *)
Usable == open /\ rows # <<>> /\ ~fetching

-----------------------------------------------------------------------------
Init ==
  /\ payments = <<>> /\ requests = {} /\ sent = 0 /\ doubts = {}
  /\ open = FALSE /\ rows = <<>> /\ saved = <<>> /\ data = <<>> /\ fetching = FALSE
  /\ receipt = <<>>

(* The first hydration prefers the snapshot; opening fetches the shares.   *)
Open ==
  /\ ~open /\ receipt = <<>>
  /\ open' = TRUE /\ fetching' = TRUE
  /\ Show(IdleRows(IF saved # <<>> THEN saved ELSE data))
  /\ UNCHANGED <<payments, requests, sent, data, receipt, doubts>>

(* Broken: fresh shares replace the rows until all have settled. *)
HydratedUntilAllSettled(shares) == IF AllSettled(rows) THEN rows ELSE IdleRows(shares)

(* Fresh shares replace the rows, unless one of them has settled.          *)
Hydrated(shares) == IF AnySettled(rows) THEN rows ELSE IdleRows(shares)

FetchArrives ==
  /\ fetching
  /\ fetching' = FALSE /\ data' = PerPersonAmounts
  /\ IF open /\ data' # data THEN Show(Hydrated(data')) ELSE UNCHANGED <<rows, saved>>
  /\ UNCHANGED <<payments, requests, sent, open, receipt, doubts>>

(* The browser is online again, the mode is changed, another tab of the    *)
(* dialog took a payment: the shares are fetched anew.                     *)
Refetch ==
  /\ "reconnect" \in Moves /\ open /\ ~fetching
  /\ fetching' = TRUE
  /\ UNCHANGED <<payments, requests, sent, open, rows, saved, data, receipt, doubts>>

(* Closing unmounts the tab: its rows are gone, its requests are not.      *)
Orphaned(rs) == {[r EXCEPT !.client = IF @ = "waiting" THEN "orphan" ELSE @] : r \in rs}

Unmount == open' = FALSE /\ rows' = <<>> /\ fetching' = FALSE

Close ==
  /\ "close" \in Moves /\ open
  /\ Unmount /\ requests' = Orphaned(requests)
  /\ UNCHANGED <<payments, sent, saved, data, receipt, doubts>>

CancelSplit ==
  /\ "close" \in Moves /\ open /\ rows # <<>> /\ ~AnySettled(rows) /\ ~AnySubmitting
  /\ Unmount /\ requests' = Orphaned(requests) /\ saved' = <<>>
  /\ UNCHANGED <<payments, sent, data, receipt, doubts>>

(* Broken: only the row that was typed over gets a new key. *)
AmountChangeKeepsKeys(i, amount) ==
  /\ Usable /\ ~AnySubmitting /\ ~Locked(rows[i])
  /\ LET amounts == Redistributed(i, amount)
     IN Show([j \in DOMAIN rows |->
                IF Locked(rows[j]) THEN rows[j]
                ELSE [rows[j] EXCEPT !.amount = amounts[j], !.key = IF j = i THEN 0 ELSE @,
                                     !.error = FALSE]])
  /\ UNCHANGED <<payments, requests, sent, open, data, fetching, receipt, doubts>>

AmountChange(i, amount) ==
  /\ Usable /\ ~AnySubmitting /\ ~Locked(rows[i])
  /\ LET amounts == Redistributed(i, amount)
     IN Show([j \in DOMAIN rows |->
                IF Locked(rows[j]) THEN rows[j]
                ELSE [rows[j] EXCEPT !.amount = amounts[j], !.key = 0, !.error = FALSE]])
  /\ UNCHANGED <<payments, requests, sent, open, data, fetching, receipt, doubts>>

MethodChange(i) ==
  /\ "method" \in Moves /\ Usable /\ ~Locked(rows[i]) /\ rows[i].key # 0
  /\ Show([rows EXCEPT ![i].key = 0, ![i].error = FALSE])
  /\ UNCHANGED <<payments, requests, sent, open, data, fetching, receipt, doubts>>

-----------------------------------------------------------------------------
(* handlePayRow and handleRefundRow up to their await.  seen is what the   *)
(* closure knows of the rows: the payments of those that have settled.     *)
Send(kind, i, key) ==
  /\ Usable /\ sent < MaxRequests /\ i \notin InFlight
  /\ sent' = sent + 1
  /\ requests' = requests \cup
       {[number |-> sent + 1, kind |-> kind, row |-> i, key |-> key, amount |-> rows[i].amount,
         payment |-> rows[i].payment, at |-> "sent", client |-> "waiting",
         seen |-> [j \in {k \in DOMAIN rows : rows[k].status = "succeeded"} |-> rows[j].payment]]}
  /\ Show([rows EXCEPT ![i].status = "submitting", ![i].error = FALSE, ![i].key = key])
  /\ UNCHANGED <<payments, open, data, fetching, receipt, doubts>>

PayRow(i) ==
  /\ ~Locked(rows[i]) /\ rows[i].amount > 0
  /\ Send("pay", i, IF rows[i].key # 0 THEN rows[i].key ELSE sent + 1)

(* Broken: a refund may start while a payment is out. *)
RefundRowAnytime(i) ==
  /\ "refund" \in Moves /\ rows[i].status = "succeeded" /\ rows[i].payment # 0
  /\ Send("refund", i, rows[i].key)

RefundRow(i) ==
  /\ "refund" \in Moves /\ rows[i].status = "succeeded" /\ rows[i].payment # 0 /\ ~AnySubmitting
  /\ Send("refund", i, rows[i].key)

-----------------------------------------------------------------------------
(* The workstation: handleLocalPosCreatePayment in two steps, up to the    *)
(* check and from the insert on, the refund in one.  A request both sides  *)
(* are done with is gone.                                                  *)

Booked(key) == {p \in PaymentIds : payments[p].key = key}

Update(r, new) ==
  requests' = (requests \ {r}) \cup
    (IF new.client = "gone" /\ new.at \in {"done", "refused"} THEN {} ELSE {new})

Lookup(r) ==
  /\ r.kind = "pay" /\ r.at = "sent"
  /\ \/ \E p \in Booked(r.key) : Update(r, [r EXCEPT !.at = "done", !.payment = p])
     \/ /\ Booked(r.key) = {}
        /\ Update(r, [r EXCEPT !.at = IF Captured + r.amount > Total
                                      THEN "refused" ELSE "checked"])
  /\ UNCHANGED <<payments, sent, screen, doubts>>

(* idempotency_key is unique in the table: a retry that overtook the       *)
(* attempt it repeats, or was overtaken after the lookup, is answered 500. *)
Insert(r) ==
  /\ r.at = "checked"
  /\ IF Booked(r.key) # {}
     THEN Update(r, [r EXCEPT !.at = "refused"]) /\ UNCHANGED payments
     ELSE /\ payments' = Append(payments, [key |-> r.key, amount |-> r.amount, row |-> r.row,
                                           refunded |-> FALSE])
          /\ Update(r, [r EXCEPT !.at = "done", !.payment = Len(payments) + 1])
  /\ UNCHANGED <<sent, screen, doubts>>

Refund(r) ==
  /\ r.kind = "refund" /\ r.at = "sent"
  /\ IF payments[r.payment].refunded THEN UNCHANGED payments
     ELSE payments' = [payments EXCEPT ![r.payment].refunded = TRUE]
  /\ Update(r, [r EXCEPT !.at = "done"])
  /\ UNCHANGED <<sent, screen, doubts>>

(* A request that timed out may never have arrived.                        *)
Lost(r) ==
  /\ r.at = "sent" /\ r.client = "gone"
  /\ requests' = requests \ {r}
  /\ UNCHANGED <<payments, sent, screen, doubts>>

Handle(r) == Lookup(r) \/ Insert(r) \/ Refund(r)

-----------------------------------------------------------------------------
(* The rest of the two handlers of the tab.                                *)

(* What an answer makes of the row, if its dialog is still open.           *)
Patch(r, row) ==
  IF r.client = "waiting" THEN Show([rows EXCEPT ![r.row] = row]) ELSE UNCHANGED <<rows, saved>>

(* The last row, as far as the closure knows, hands over the receipt and   *)
(* closes the dialog, also out of a dialog closed since.                   *)
IsLast(r) == DOMAIN r.seen \cup {r.row} = 1..Guests /\ receipt = <<>>

PayAnswered(r) ==
  /\ r.kind = "pay" /\ r.at = "done" /\ ~IsLast(r)
  /\ Patch(r, [rows[r.row] EXCEPT !.status = "succeeded", !.error = FALSE, !.payment = r.payment])
  /\ fetching' = open
  /\ requests' = requests \ {r}
  /\ UNCHANGED <<payments, sent, open, data, receipt, doubts>>

AllRowsPaid(r) ==
  /\ r.kind = "pay" /\ r.at = "done" /\ IsLast(r)
  /\ receipt' = [j \in 1..Guests |-> IF j = r.row THEN r.payment ELSE r.seen[j]]
  /\ Unmount /\ requests' = Orphaned(requests \ {r})
  /\ saved' = IF r.client = "waiting" THEN <<>> ELSE saved
  /\ UNCHANGED <<payments, sent, data, doubts>>

PayFails(r) ==
  /\ r.kind = "pay" /\ r.client # "gone"
  /\ r.at = "refused" \/ "timeout" \in Moves
  /\ Patch(r, [rows[r.row] EXCEPT !.status = "failed", !.error = TRUE])
  /\ Update(r, [r EXCEPT !.client = "gone"])
  /\ UNCHANGED <<payments, sent, open, data, fetching, receipt, doubts>>

(* Broken: the refund leaves the row as it was. *)
RefundLeavesRow(r) ==
  /\ r.kind = "refund" /\ r.at = "done"
  /\ Patch(r, [rows[r.row] EXCEPT !.status = "succeeded"])
  /\ fetching' = open
  /\ requests' = requests \ {r}
  /\ UNCHANGED <<payments, sent, open, data, receipt, doubts>>

RefundAnswered(r) ==
  /\ r.kind = "refund" /\ r.at = "done"
  /\ Patch(r, IdleRow(rows[r.row].amount))
  /\ fetching' = open
  /\ requests' = requests \ {r}
  /\ UNCHANGED <<payments, sent, open, data, receipt, doubts>>

RefundFails(r) ==
  /\ r.kind = "refund" /\ r.client # "gone" /\ "timeout" \in Moves
  /\ Patch(r, [rows[r.row] EXCEPT !.status = "succeeded", !.error = TRUE])
  /\ Update(r, [r EXCEPT !.client = "gone"])
  /\ doubts' = doubts \cup {r.row}
  /\ UNCHANGED <<payments, sent, open, data, fetching, receipt>>

-----------------------------------------------------------------------------
Answer(r) == PayAnswered(r) \/ AllRowsPaid(r) \/ PayFails(r) \/ RefundAnswered(r) \/ RefundFails(r)

Next ==
  \/ Open \/ FetchArrives \/ Refetch \/ Close \/ CancelSplit
  \/ \E i \in DOMAIN rows : \/ PayRow(i) \/ RefundRow(i) \/ MethodChange(i)
                            \/ \E amount \in Typed : AmountChange(i, amount)
  \/ \E r \in requests : Handle(r) \/ Answer(r) \/ Lost(r)

Spec == Init /\ [][Next]_vars

-----------------------------------------------------------------------------
RowState == [amount : Nat, status : {"idle", "submitting", "succeeded", "failed"},
             key : 0..MaxRequests, payment : Nat, error : BOOLEAN]

TypeOK ==
  /\ payments \in Seq([key : 1..MaxRequests, amount : 1..Total, row : 1..Guests,
                       refunded : BOOLEAN])
  /\ sent \in 0..MaxRequests /\ doubts \subseteq 1..Guests
  /\ \A r \in requests :
       /\ r.number \in 1..sent /\ r.kind \in {"pay", "refund"} /\ r.row \in 1..Guests
       /\ r.at \in {"sent", "checked", "done", "refused"}
       /\ r.client \in {"waiting", "orphan", "gone"}
  /\ rows = <<>> \/ rows \in [1..Guests -> RowState]
  /\ \A shares \in {saved, data} : shares = <<>> \/ shares \in [1..Guests -> Nat]
  /\ open \in BOOLEAN /\ fetching \in BOOLEAN
  /\ receipt = <<>> \/ receipt \in [1..Guests -> Nat]

(***************************************************************************)
(* The workstation answers a key it has booked with that payment and looks *)
(* at nothing else of the request: a retry under the key of an attempt     *)
(* whose answer was lost must still ask for the same row and amount.  So   *)
(* whatever is booked under a key, every request out under it, and the row *)
(* that would be retried with it, are for the same guest and the same      *)
(* amount, however the shares were retyped, redistributed, refunded or     *)
(* fetched anew since.                                                     *)
(***************************************************************************)
RetryAsksTheSame ==
  \A p \in PaymentIds :
    /\ \A r \in requests : r.key = payments[p].key =>
         r.row = payments[p].row /\ r.amount = payments[p].amount
    /\ \A i \in DOMAIN rows : rows[i].key = payments[p].key =>
         i = payments[p].row /\ rows[i].amount = payments[p].amount

(***************************************************************************)
(* A row shown as paid, with no error, has a payment of its own that       *)
(* nobody gave back, though the rows are replaced under requests in        *)
(* flight and a refund may be carried out and its answer lost.             *)
(***************************************************************************)
PaidRowIsBooked ==
  /\ \A i \in DOMAIN rows :
       rows[i].status = "succeeded" /\ ~rows[i].error =>
         rows[i].payment \in PaymentIds /\ ~payments[rows[i].payment].refunded
  /\ \A i, j \in DOMAIN rows :
       rows[i].status = "succeeded" /\ rows[i].payment # 0
         /\ rows[j].payment = rows[i].payment => i = j

(***************************************************************************)
(* The receipt onAllRowsPaid hands over names, guest by guest, payments    *)
(* that were booked, one each, and not given back, though it is built from *)
(* the rows as they were when the last one was clicked.  Only a guest with *)
(* a refund that timed out, which the row says, may be wrong on it.        *)
(***************************************************************************)
ReceiptIsBooked ==
  \A i \in DOMAIN receipt \ doubts :
    /\ receipt[i] \in PaymentIds /\ ~payments[receipt[i]].refunded
    /\ \A j \in DOMAIN receipt : receipt[j] = receipt[i] => j = i

(***************************************************************************)
(* SplitPaymentBody: the key is reused on retries, so that the backend can *)
(* "deduplicate retries that happened because of a network glitch".  A     *)
(* guest whose amount and method nobody touched holds one payment.         *)
(***************************************************************************)
RetryIsSamePayment ==
  \A p, q \in PaymentIds :
    payments[p].row = payments[q].row /\ ~payments[p].refunded /\ ~payments[q].refunded => p = q

(***************************************************************************)
(* "Once any row has been collected, freeze the snapshot": whatever the    *)
(* calculator answers, as long as a row has settled, the amounts announced *)
(* to the other guests change by the cashier's hand only.                  *)
(***************************************************************************)
AnnouncedAmountsHold ==
  [][AnySettled(rows) /\ rows' # <<>> /\ Amounts(rows') # Amounts(rows)
       => \E i \in DOMAIN rows, amount \in Typed : AmountChange(i, amount)]_vars
=============================================================================

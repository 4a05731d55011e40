--------------------------- MODULE SplitBill_proofs ---------------------------
(***************************************************************************)
(* Proofs about SplitBill, for any number of guests and requests, any      *)
(* total, whatever the cashier types and whatever else happens.            *)
(*                                                                         *)
(* The argument is about keys and payments: a key belongs to one row, so   *)
(* does what is booked under it; and a payment is only given back out of a *)
(* row on screen that holds it, while no payment is being waited for.      *)
(* Amounts do not matter to it; what is asked for under a key is followed  *)
(* on top of it, and the amounts are typed at the end.                     *)
(***************************************************************************)
EXTENDS SplitBill, SumFacts, SequenceTheorems, TLAPS

Waiting(r) == r.client = "waiting"

(* A refund of the payment was carried out, or is still on its way.        *)
Going(p) ==
  \/ payments[p].refunded
  \/ \E r \in requests : r.kind = "refund" /\ r.payment = p

(* A key, or a payment, in the hands of a row or of a request: k is a key  *)
(* of row i.                                                               *)
Uses(k, i) ==
  \/ \E p \in PaymentIds : payments[p].key = k /\ payments[p].row = i
  \/ \E r \in requests : r.key = k /\ r.row = i
  \/ i \in DOMAIN rows /\ rows[i].key = k

(* The screen can still reach what is booked under the key: by a row's     *)
(* key, by a row's payment, or by an answer it waits for.                  *)
Holds(k) ==
  \/ \E i \in DOMAIN rows : rows[i].key = k
  \/ \E i \in DOMAIN rows : rows[i].payment # 0 /\ payments[rows[i].payment].key = k
  \/ \E r \in requests : Waiting(r) /\ r.key = k

-----------------------------------------------------------------------------
(* The inductive invariant.                                                *)

(* A payment of row i. *)
Of(p, i) == p \in PaymentIds /\ payments[p].row = i

IsPayment(b) ==
  /\ DOMAIN b = {"key", "amount", "row", "refunded"}
  /\ b.key \in 1..sent /\ b.row \in 1..Guests /\ b.refunded \in BOOLEAN

IsRow(row) ==
  /\ DOMAIN row = {"amount", "status", "key", "payment", "error"}
  /\ row.status \in {"idle", "submitting", "succeeded", "failed"}
  /\ row.key \in 0..sent /\ row.error \in BOOLEAN

IsRequest(r) ==
  /\ DOMAIN r = {"number", "kind", "row", "key", "amount", "payment", "at", "client", "seen"}
  /\ r.kind \in {"pay", "refund"} /\ r.row \in 1..Guests
  /\ r.key \in 0..sent /\ (r.kind = "pay" => r.key # 0)
  /\ r.at \in {"sent", "checked", "done", "refused"} /\ (r.at = "checked" => r.kind = "pay")
  /\ r.client \in {"waiting", "orphan", "gone"}
  /\ r.client = "gone" => r.at \in {"sent", "checked"}

Shares(shares) == DOMAIN shares = {} \/ DOMAIN shares = 1..Guests

Shape ==
  /\ sent \in Nat /\ open \in BOOLEAN
  /\ \E S : payments \in Seq(S)
  /\ \A p \in PaymentIds : IsPayment(payments[p])
  /\ Shares(rows) /\ Shares(saved) /\ Shares(data)
  /\ \A i \in DOMAIN rows : IsRow(rows[i])
  /\ \A r \in requests : IsRequest(r)

(* Whoever names a payment for a row names one of that row. *)
Named ==
  /\ \A i \in DOMAIN rows : rows[i].payment # 0 => Of(rows[i].payment, i)
  /\ \A r \in requests :
       /\ r.kind = "refund" => Of(r.payment, r.row)
       /\ r.kind = "pay" /\ r.at = "done" =>
            Of(r.payment, r.row) /\ payments[r.payment].key = r.key
       /\ \A j \in DOMAIN r.seen : r.seen[j] # 0 => Of(r.seen[j], j)
  /\ \A j \in DOMAIN receipt : receipt[j] # 0 => Of(receipt[j], j)

OneRowPerKey == \A k \in 1..sent, i, j \in 1..Guests : Uses(k, i) /\ Uses(k, j) => i = j

(* A row that is waited for has not settled and carries the request's key, *)
(* unless fresh shares replaced it; and they do not once the closure has   *)
(* seen another row settled.                                               *)
Screen ==
  /\ ~open => DOMAIN rows = {}
  /\ receipt # <<>> => ~open
  /\ \A r \in requests : Waiting(r) =>
       /\ r.row \in DOMAIN rows
       /\ rows[r.row].status # "succeeded" /\ rows[r.row].key \in {0, r.key}
       /\ \A q \in requests : Waiting(q) /\ q.row = r.row => q = r
       /\ r.kind = "pay" => \A j \in DOMAIN r.seen :
            /\ rows[r.row].status = "submitting"
            /\ j \in DOMAIN rows /\ rows[j].status = "succeeded"

(* What a row, a request or the receipt counts on is not given back. *)
RowKept(i) ==
  /\ rows[i].status = "succeeded" /\ ~rows[i].error =>
       rows[i].payment # 0 /\ ~Going(rows[i].payment)
  /\ rows[i].status = "succeeded" /\ rows[i].error => i \in doubts
  /\ rows[i].status \in {"idle", "failed"} /\ rows[i].key # 0 =>
       \A p \in Booked(rows[i].key) : ~Going(p)

RequestKept(r) ==
  /\ \A p \in Booked(r.key) : ~Going(p)
  /\ \A j \in DOMAIN r.seen \ doubts : r.seen[j] # 0 /\ ~Going(r.seen[j])
  /\ r.client = "orphan" =>
       /\ ~Holds(r.key)
       /\ \A j \in DOMAIN r.seen : r.seen[j] # 0 => ~Holds(payments[r.seen[j]].key)

Kept ==
  /\ \A i \in DOMAIN rows : RowKept(i)
  /\ \A r \in requests : r.kind = "pay" /\ r.client # "gone" => RequestKept(r)
  /\ \A j \in DOMAIN receipt \ doubts : receipt[j] # 0 /\ ~Going(receipt[j])

(* The index on idempotency_key. *)
KeyBooksOnce == \A p, q \in PaymentIds : payments[p].key = payments[q].key => p = q

IInv == Shape /\ Named /\ KeyBooksOnce /\ OneRowPerKey /\ Screen /\ Kept

-----------------------------------------------------------------------------
(* The payments.                                                           *)

LEMMA PaymentsTyped ==
  ASSUME Shape
  PROVE  Len(payments) \in Nat /\ DOMAIN payments = PaymentIds
  BY LenProperties DEF Shape, PaymentIds

LEMMA PaymentBooked ==
  ASSUME Shape, NEW b, payments' = Append(payments, b)
  PROVE  /\ \E S : payments' \in Seq(S)
         /\ PaymentIds' = PaymentIds \cup {Len(payments) + 1}
         /\ Len(payments) + 1 \notin PaymentIds
         /\ payments'[Len(payments) + 1] = b
         /\ \A p \in PaymentIds : payments'[p] = payments[p]
  <1>1. PICK S : payments \in Seq(S)
    BY DEF Shape
  <1>2. payments \in Seq(S \cup {b}) /\ Len(payments) \in Nat
    BY <1>1, LenProperties, SeqDef
  <1>3. /\ payments' \in Seq(S \cup {b}) /\ Len(payments') = Len(payments) + 1
        /\ payments'[Len(payments) + 1] = b
        /\ \A p \in PaymentIds : payments'[p] = payments[p]
    BY <1>2, AppendProperties DEF PaymentIds
  <1> QED BY <1>2, <1>3 DEF PaymentIds

LEMMA PaymentGivenBack ==
  ASSUME Shape, NEW q \in PaymentIds, payments' = [payments EXCEPT ![q].refunded = TRUE]
  PROVE  /\ \E S : payments' \in Seq(S)
         /\ PaymentIds' = PaymentIds
         /\ \A p \in PaymentIds :
              /\ DOMAIN payments'[p] = DOMAIN payments[p]
              /\ payments'[p].key = payments[p].key /\ payments'[p].row = payments[p].row
              /\ payments'[p].amount = payments[p].amount
              /\ payments'[p].refunded = IF p = q THEN TRUE ELSE payments[p].refunded
  <1>1. PICK S : payments \in Seq(S)
    BY DEF Shape
  <1> DEFINE b == [payments[q] EXCEPT !.refunded = TRUE]
             T == S \cup {b}
  <1>2. Len(payments) \in Nat /\ payments \in [PaymentIds -> S]
    BY <1>1, LenProperties, SeqDef DEF PaymentIds
  <1>3. payments' = [payments EXCEPT ![q] = b]
    OBVIOUS
  <1>4. payments' \in [PaymentIds -> T]
    BY <1>2, <1>3
  <1>5. payments' \in Seq(T)
    BY <1>2, <1>4, SeqDef DEF PaymentIds
  <1>6. Len(payments') = Len(payments)
    BY <1>2, <1>4, <1>5, LenProperties DEF PaymentIds
  <1>7. \A p \in PaymentIds : IsPayment(payments[p])
    BY DEF Shape
  <1>8. \A p \in PaymentIds : payments'[p] = IF p = q THEN b ELSE payments[p]
    BY <1>2, <1>3
  <1>9. /\ DOMAIN b = DOMAIN payments[q] /\ b.key = payments[q].key
        /\ b.row = payments[q].row /\ b.amount = payments[q].amount /\ b.refunded = TRUE
    BY <1>7 DEF IsPayment
  <1> HIDE DEF b, T
  <1> QED BY <1>5, <1>6, <1>8, <1>9 DEF PaymentIds

-----------------------------------------------------------------------------
(* A step that sends no request: payments are added to or given back, each *)
(* request is an older one, and no row gets a key, or a payment that no    *)
(* answer brought.                                                         *)

PaymentsGrow ==
  /\ PaymentIds \subseteq PaymentIds'
  /\ \A p \in PaymentIds : /\ payments'[p].key = payments[p].key
                           /\ payments'[p].row = payments[p].row
                           /\ payments'[p].refunded => Going(p)
  /\ \A p \in PaymentIds' \ PaymentIds : /\ ~payments'[p].refunded
                                         /\ Uses(payments'[p].key, payments'[p].row)

Carried(r, q) ==
  /\ r.kind = q.kind /\ r.row = q.row /\ r.key = q.key /\ r.seen = q.seen
  /\ r.kind = "refund" => r.payment = q.payment
  /\ Waiting(r) => Waiting(q)
  /\ r.client = "orphan" => q.client = "orphan" \/ (Waiting(q) /\ ~open')

Onward ==
  /\ sent' = sent /\ doubts \subseteq doubts' /\ PaymentsGrow
  /\ \A r \in requests' : r.client \in {"waiting", "orphan", "gone"}
  /\ \A r \in requests' : \E q \in requests : Carried(r, q)
  /\ \A i \in DOMAIN rows' :
       rows'[i].key = 0 \/ (i \in DOMAIN rows /\ rows'[i].key = rows[i].key)
  /\ \A i \in DOMAIN rows' : rows'[i].payment # 0 =>
       \/ i \in DOMAIN rows /\ rows'[i].payment = rows[i].payment
       \/ \E q \in requests : /\ Waiting(q) /\ q.kind = "pay" /\ q.at = "done"
                              /\ rows'[i].payment = q.payment
  /\ ~open' => DOMAIN rows' = {} /\ \A r \in requests' : ~Waiting(r)

LEMMA GoingStep ==
  ASSUME IInv, Onward
  PROVE  /\ \A p \in PaymentIds : Going(p)' => Going(p)
         /\ \A p \in PaymentIds' \ PaymentIds : ~Going(p)'
  <1>1. \A r \in requests' : r.kind = "refund" =>
          r.payment \in PaymentIds /\ \E q \in requests : q.kind = "refund" /\ q.payment = r.payment
    BY DEF IInv, Onward, Carried, Named, Of
  <1> QED BY <1>1 DEF Onward, PaymentsGrow, Going

LEMMA UsesStep ==
  ASSUME IInv, Onward, NEW k \in 1..sent, NEW i \in 1..Guests, Uses(k, i)'
  PROVE  Uses(k, i)
  <1>1. CASE \E p \in PaymentIds' : payments'[p].key = k /\ payments'[p].row = i
    BY <1>1 DEF Onward, PaymentsGrow, Uses
  <1>2. CASE \E r \in requests' : r.key = k /\ r.row = i
    BY <1>2 DEF Onward, Carried, Uses
  <1>3. CASE i \in DOMAIN rows' /\ rows'[i].key = k
    BY <1>3 DEF Onward, Uses, IInv, Shape
  <1> QED BY <1>1, <1>2, <1>3 DEF Uses

LEMMA HoldsStep ==
  ASSUME IInv, Onward, NEW k \in 1..sent, Holds(k)'
  PROVE  Holds(k) /\ open'
  <1>1. open'
    BY DEF Onward, Holds
  <1>2. CASE \E i \in DOMAIN rows' : rows'[i].key = k
    BY <1>1, <1>2 DEF Onward, Holds, IInv, Shape
  <1>3. CASE \E i \in DOMAIN rows' : rows'[i].payment # 0 /\ payments'[rows'[i].payment].key = k
    <2>1. PICK i \in DOMAIN rows' : rows'[i].payment # 0 /\ payments'[rows'[i].payment].key = k
      BY <1>3
    <2>2. CASE i \in DOMAIN rows /\ rows'[i].payment = rows[i].payment
      BY <1>1, <2>1, <2>2 DEF Onward, PaymentsGrow, Holds, IInv, Named, Of
    <2>3. CASE \E q \in requests : /\ Waiting(q) /\ q.kind = "pay" /\ q.at = "done"
                                   /\ rows'[i].payment = q.payment
      BY <1>1, <2>1, <2>3 DEF Onward, PaymentsGrow, Holds, IInv, Named, Of
    <2> QED BY <2>1, <2>2, <2>3 DEF Onward
  <1>4. CASE \E r \in requests' : Waiting(r) /\ r.key = k
    BY <1>1, <1>4 DEF Onward, Carried, Holds
  <1> QED BY <1>1, <1>2, <1>3, <1>4 DEF Holds, Waiting

LEMMA KeysKept ==
  ASSUME IInv, Onward
  PROVE  OneRowPerKey'
  <1>1. sent' = sent
    BY DEF Onward
  <1>2. \A k \in 1..sent, i, j \in 1..Guests : Uses(k, i) /\ Uses(k, j) => i = j
    BY DEF IInv, OneRowPerKey
  <1>3. \A k \in 1..sent, i \in 1..Guests : Uses(k, i)' => Uses(k, i)
    BY UsesStep
  <1> QED BY <1>1, <1>2, <1>3 DEF OneRowPerKey

LEMMA RequestsKept ==
  ASSUME IInv, Onward, NEW r \in requests', r.kind = "pay", r.client # "gone"
  PROVE  RequestKept(r)'
  <1>1. PICK q \in requests : Carried(r, q)
    BY DEF Onward
  <1>2. q.kind = "pay" /\ q.client # "gone" /\ q.key = r.key /\ q.seen = r.seen
    BY <1>1 DEF Carried, Onward, Waiting
  <1>3. RequestKept(q)
    BY <1>2 DEF IInv, Kept
  <1>4. q.key \in 1..sent
    BY <1>2 DEF IInv, Shape, IsRequest
  <1>5. \A p \in Booked(r.key)' : ~Going(p)'
    BY <1>2, <1>3, GoingStep DEF RequestKept, Booked, Onward, PaymentsGrow
  <1>6. \A j \in DOMAIN r.seen : r.seen[j] # 0 => r.seen[j] \in PaymentIds
    BY <1>2 DEF IInv, Named, Of
  <1>7. \A j \in DOMAIN r.seen \ doubts' : r.seen[j] # 0 /\ ~Going(r.seen[j])'
    BY <1>2, <1>3, <1>6, GoingStep DEF RequestKept, Onward
  <1>8. ASSUME r.client = "orphan"
        PROVE  /\ ~Holds(r.key)'
               /\ \A j \in DOMAIN r.seen : r.seen[j] # 0 => ~Holds(payments[r.seen[j]].key)'
    <2>1. q.client = "orphan" \/ ~open'
      BY <1>1, <1>8 DEF Carried
    <2>2. ~Holds(r.key)'
      BY <1>2, <1>3, <1>4, <1>8, <2>1, HoldsStep DEF RequestKept
    <2>3. ASSUME NEW j \in DOMAIN r.seen, r.seen[j] # 0
          PROVE  ~Holds(payments[r.seen[j]].key)'
      <3>1. PICK k : k = payments[r.seen[j]].key
        OBVIOUS
      <3>2. k = payments'[r.seen[j]].key /\ k \in 1..sent
        BY <1>6, <2>3, <3>1 DEF Onward, PaymentsGrow, IInv, Shape, IsPayment
      <3>3. ~Holds(k)'
        BY <1>2, <1>3, <1>8, <2>1, <2>3, <3>1, <3>2, HoldsStep DEF RequestKept
      <3> QED BY <3>2, <3>3
    <2> QED BY <2>2, <2>3
  <1> QED BY <1>5, <1>7, <1>8 DEF RequestKept

LEMMA ReceiptKept ==
  ASSUME IInv, Onward, UNCHANGED receipt
  PROVE  \A j \in DOMAIN receipt' \ doubts' : receipt'[j] # 0 /\ ~Going(receipt[j])'
  <1>1. \A j \in DOMAIN receipt : receipt[j] # 0 => receipt[j] \in PaymentIds
    BY DEF IInv, Named, Of
  <1>2. \A j \in DOMAIN receipt \ doubts : receipt[j] # 0 /\ ~Going(receipt[j])
    BY DEF IInv, Kept
  <1>3. doubts \subseteq doubts'
    BY DEF Onward
  <1> QED BY <1>1, <1>2, <1>3, GoingStep

(* A row that stays as settled as it was. *)
LEMMA RowStaysKept ==
  ASSUME IInv, Onward, NEW i \in DOMAIN rows', i \in DOMAIN rows,
         rows'[i].status = rows[i].status, rows'[i].payment = rows[i].payment,
         rows'[i].key \in {0, rows[i].key},
         rows'[i].error = rows[i].error \/ rows[i].status # "succeeded"
  PROVE  RowKept(i)'
  <1>1. RowKept(i) /\ IsRow(rows[i]) /\ doubts \subseteq doubts'
    BY DEF IInv, Kept, Shape, Onward
  <1>2. rows[i].payment # 0 => rows[i].payment \in PaymentIds
    BY DEF IInv, Named, Of
  <1>3. \A p \in PaymentIds : Going(p)' => Going(p)
    BY GoingStep
  <1>4. PICK p : p = rows[i].payment
    OBVIOUS
  <1>5. rows[i].status = "succeeded" /\ ~rows[i].error => p # 0 /\ ~Going(p)'
    BY <1>1, <1>2, <1>3, <1>4 DEF RowKept
  <1>6. rows'[i].status = "succeeded" /\ ~rows'[i].error =>
          rows'[i].payment # 0 /\ ~Going(rows[i].payment)'
    BY <1>4, <1>5
  <1>7. rows'[i].status = "succeeded" /\ rows'[i].error => i \in doubts'
    BY <1>1 DEF RowKept
  <1>8. ASSUME rows'[i].status \in {"idle", "failed"}, rows'[i].key # 0,
               NEW b \in PaymentIds', payments'[b].key = rows'[i].key
        PROVE  ~Going(b)'
    <2>1. CASE b \in PaymentIds
      <3>1. b \in Booked(rows[i].key)
        BY <1>8, <2>1 DEF Onward, PaymentsGrow, Booked
      <3> QED BY <1>1, <1>3, <1>8, <2>1, <3>1 DEF RowKept
    <2>2. CASE b \notin PaymentIds
      BY <1>8, <2>2, GoingStep
    <2> QED BY <2>1, <2>2
  <1> QED BY <1>6, <1>7, <1>8 DEF RowKept, Booked

LEMMA Assembled ==
  ASSUME IInv, Onward, Shape', Named', KeyBooksOnce', Screen',
         \A i \in DOMAIN rows' : RowKept(i)',
         \A j \in DOMAIN receipt' \ doubts' : receipt'[j] # 0 /\ ~Going(receipt[j])'
  PROVE  IInv'
  <1>1. \A r \in requests' : r.kind = "pay" /\ r.client # "gone" => RequestKept(r)'
    BY RequestsKept
  <1>2. Kept'
    BY <1>1 DEF Kept
  <1> QED BY <1>2, KeysKept DEF IInv

-----------------------------------------------------------------------------
(* What the screen does by itself: payments and requests are left alone.   *)

FreshRow(i) == /\ IsRow(rows'[i]) /\ rows'[i].status = "idle"
               /\ rows'[i].key = 0 /\ rows'[i].payment = 0

SameRow(i) ==
  /\ i \in DOMAIN rows /\ IsRow(rows'[i])
  /\ rows'[i].status = rows[i].status /\ rows'[i].payment = rows[i].payment
  /\ rows'[i].key \in {0, rows[i].key}
  /\ rows'[i].error = rows[i].error \/ rows[i].status # "succeeded"

LEMMA Redrawn ==
  ASSUME IInv, UNCHANGED <<payments, requests, sent, receipt, doubts>>,
         Shares(rows'), Shares(saved'), Shares(data'), open' \in BOOLEAN,
         receipt = <<>> \/ open' = open, ~open' => DOMAIN rows' = {} /\ ~open,
         \/ /\ DOMAIN rows' = DOMAIN rows /\ \A i \in DOMAIN rows' : SameRow(i)
         \/ /\ \A i \in DOMAIN rows' : FreshRow(i)
            /\ ~open \/ (DOMAIN rows' = 1..Guests /\ ~AnySettled(rows))
  PROVE  IInv'
  <1>1. \A i \in DOMAIN rows' : FreshRow(i) \/ SameRow(i)
    OBVIOUS
  <1>2. PaymentsGrow
    BY DEF PaymentsGrow, Going, PaymentIds
  <1>3. \A r \in requests : Waiting(r) => open
    BY DEF IInv, Screen
  <1>4. Onward
    BY <1>1, <1>2, <1>3 DEF Onward, Carried, FreshRow, SameRow, IInv, Shape, IsRequest
  <1>5. Shape'
    <2>1. \A i \in DOMAIN rows' : IsRow(rows[i])' <=> IsRow(rows'[i])
      BY DEF IsRow
    <2>2. \A i \in DOMAIN rows' : IsRow(rows'[i])
      BY <1>1 DEF FreshRow, SameRow
    <2> QED BY <2>1, <2>2 DEF IInv, Shape, IsRow, IsPayment, IsRequest, Shares, PaymentIds
  <1>6. Named'
    BY <1>1 DEF IInv, Named, Of, FreshRow, SameRow, PaymentIds
  <1>7. KeyBooksOnce'
    BY DEF IInv, KeyBooksOnce, PaymentIds
  <1>8. Screen'
    <2>1. ~open' => DOMAIN rows' = {}
      OBVIOUS
    <2>2. receipt' # <<>> => ~open'
      BY DEF IInv, Screen
    <2>3. ASSUME NEW r \in requests, Waiting(r)
          PROVE  /\ r.row \in DOMAIN rows'
                 /\ rows'[r.row].status # "succeeded" /\ rows'[r.row].key \in {0, r.key}
                 /\ r.kind = "pay" => \A j \in DOMAIN r.seen :
                      /\ rows'[r.row].status = "submitting"
                      /\ j \in DOMAIN rows' /\ rows'[j].status = "succeeded"
      <3>1. /\ open /\ r.row \in DOMAIN rows /\ r.row \in 1..Guests
            /\ rows[r.row].status # "succeeded" /\ rows[r.row].key \in {0, r.key}
            /\ r.kind = "pay" => \A j \in DOMAIN r.seen :
                 /\ rows[r.row].status = "submitting"
                 /\ j \in DOMAIN rows /\ rows[j].status = "succeeded"
        BY <2>3 DEF IInv, Screen, Shape, IsRequest
      <3>2. CASE DOMAIN rows' = DOMAIN rows /\ \A i \in DOMAIN rows' : SameRow(i)
        BY <3>1, <3>2 DEF SameRow
      <3>3. CASE /\ \A i \in DOMAIN rows' : FreshRow(i)
                 /\ DOMAIN rows' = 1..Guests /\ ~AnySettled(rows)
        BY <3>1, <3>3 DEF FreshRow, AnySettled
      <3> QED BY <3>1, <3>2, <3>3
    <2>4. \A r, q \in requests : Waiting(r) /\ Waiting(q) /\ q.row = r.row => q = r
      BY DEF IInv, Screen
    <2> QED BY <2>1, <2>2, <2>3, <2>4 DEF Screen, Waiting
  <1>9. \A i \in DOMAIN rows' : RowKept(i)'
    <2> SUFFICES ASSUME NEW i \in DOMAIN rows' PROVE RowKept(i)'
      OBVIOUS
    <2>1. CASE FreshRow(i)
      BY <2>1 DEF FreshRow, RowKept
    <2>2. CASE SameRow(i)
      BY <1>4, <2>2, RowStaysKept DEF SameRow
    <2> QED BY <1>1, <2>1, <2>2
  <1> QED BY <1>4, <1>5, <1>6, <1>7, <1>8, <1>9, ReceiptKept, Assembled

LEMMA NoShares == Shares(<<>>)
  BY DEF Shares

LEMMA Shown ==
  ASSUME NEW rs, Shares(rs), Shares(saved), Show(rs)
  PROVE  rows' = rs /\ Shares(saved')
  BY NoShares DEF Show, Shares, Amounts

LEMMA IdleTyped ==
  ASSUME Shape, NEW amount
  PROVE  /\ IsRow(IdleRow(amount)) /\ IdleRow(amount).status = "idle"
         /\ IdleRow(amount).key = 0 /\ IdleRow(amount).payment = 0
  <1>1. 0 \in 0..sent
    BY DEF Shape
  <1> QED BY <1>1 DEF IdleRow, IsRow

LEMMA IdleShown ==
  ASSUME IInv, NEW amounts, Shares(amounts), Show(IdleRows(amounts))
  PROVE  /\ DOMAIN rows' = DOMAIN amounts /\ Shares(rows') /\ Shares(saved')
         /\ \A i \in DOMAIN rows' : FreshRow(i)
  <1>1. Shares(IdleRows(amounts)) /\ DOMAIN IdleRows(amounts) = DOMAIN amounts
    BY DEF Shares, IdleRows
  <1>2. rows' = IdleRows(amounts) /\ Shares(saved')
    BY <1>1, Shown DEF IInv, Shape
  <1>4. \A i \in DOMAIN amounts : rows'[i] = IdleRow(amounts[i])
    BY <1>2 DEF IdleRows
  <1>5. \A i \in DOMAIN rows' : FreshRow(i)
    BY <1>1, <1>2, <1>4, IdleTyped DEF FreshRow, IInv
  <1> QED BY <1>1, <1>2, <1>5

LEMMA OpenKeeps ==
  ASSUME IInv, Open
  PROVE  IInv'
  <1>1. Shares(IF saved # <<>> THEN saved ELSE data)
    BY DEF IInv, Shape
  <1>2. /\ Shares(rows') /\ Shares(saved') /\ \A i \in DOMAIN rows' : FreshRow(i)
    BY <1>1, IdleShown DEF Open
  <1> QED BY <1>2, Redrawn DEF Open, IInv, Shape

LEMMA FetchArrivesKeeps ==
  ASSUME IInv, FetchArrives
  PROVE  IInv'
  <1>1. Shares(data') /\ DOMAIN data' = 1..Guests
    BY DEF FetchArrives, PerPersonAmounts, Shares
  <1>2. CASE open /\ data' # data /\ ~AnySettled(rows)
    <2>1. Show(IdleRows(data'))
      BY <1>2 DEF FetchArrives, Hydrated
    <2>2. /\ DOMAIN rows' = 1..Guests /\ Shares(rows') /\ Shares(saved')
          /\ \A i \in DOMAIN rows' : FreshRow(i)
      BY <1>1, <2>1, IdleShown
    <2> QED BY <1>1, <1>2, <2>2, Redrawn DEF FetchArrives, IInv, Shape
  <1>3. CASE ~(open /\ data' # data /\ ~AnySettled(rows))
    <2>1. rows' = rows /\ Shares(saved')
      BY <1>3, Shown DEF FetchArrives, Hydrated, IInv, Shape
    <2>2. \A i \in DOMAIN rows' : SameRow(i)
      BY <2>1 DEF SameRow, IInv, Shape
    <2> QED BY <1>1, <2>1, <2>2, Redrawn DEF FetchArrives, IInv, Shape, Screen
  <1> QED BY <1>2, <1>3

LEMMA RefetchKeeps ==
  ASSUME IInv, Refetch
  PROVE  IInv'
  <1>1. \A i \in DOMAIN rows' : SameRow(i)
    BY DEF Refetch, SameRow, IInv, Shape
  <1> QED BY <1>1, Redrawn DEF Refetch, IInv, Shape, Screen

(* The cashier's hand on the unlocked rows. *)
LEMMA Retouched ==
  ASSUME IInv, open, NEW rs, Show(rs), DOMAIN rs = DOMAIN rows,
         \A j \in DOMAIN rows :
           \/ rs[j] = rows[j]
           \/ /\ ~Locked(rows[j]) /\ DOMAIN rs[j] = DOMAIN rows[j]
              /\ rs[j].status = rows[j].status /\ rs[j].payment = rows[j].payment
              /\ rs[j].key = 0 /\ rs[j].error = FALSE,
         UNCHANGED <<payments, requests, sent, open, data, fetching, receipt, doubts>>
  PROVE  IInv'
  <1>1. Shares(rs)
    BY DEF IInv, Shape, Shares
  <1>2. rows' = rs /\ Shares(saved')
    BY <1>1, Shown DEF IInv, Shape
  <1>3. 0 \in 0..sent /\ \A j \in DOMAIN rows : IsRow(rows[j])
    BY DEF IInv, Shape
  <1>4. \A j \in DOMAIN rows : rs[j] = rows[j] => SameRow(j)
    BY <1>2, <1>3 DEF SameRow, IsRow
  <1>5. ASSUME NEW j \in DOMAIN rows, ~Locked(rows[j]), DOMAIN rs[j] = DOMAIN rows[j],
               rs[j].status = rows[j].status, rs[j].payment = rows[j].payment,
               rs[j].key = 0, rs[j].error = FALSE
        PROVE  SameRow(j)
    BY <1>2, <1>3, <1>5 DEF SameRow, IsRow, Locked
  <1>6. \A j \in DOMAIN rows' : SameRow(j)
    BY <1>2, <1>4, <1>5
  <1> QED BY <1>1, <1>2, <1>6, Redrawn DEF IInv, Shape

LEMMA AmountChangeKeeps ==
  ASSUME IInv, NEW i \in DOMAIN rows, NEW amount, AmountChange(i, amount)
  PROVE  IInv'
  <1> DEFINE amounts == Redistributed(i, amount)
             rs == [j \in DOMAIN rows |->
                      IF Locked(rows[j]) THEN rows[j]
                      ELSE [rows[j] EXCEPT !.amount = amounts[j], !.key = 0, !.error = FALSE]]
  <1>1. Show(rs) /\ open /\ UNCHANGED <<payments, requests, sent, open, data, fetching, receipt, doubts>>
    BY DEF AmountChange, Usable
  <1>2. \A j \in DOMAIN rows : IsRow(rows[j])
    BY DEF IInv, Shape
  <1> HIDE DEF amounts
  <1>3. \A j \in DOMAIN rows :
          \/ rs[j] = rows[j]
          \/ /\ ~Locked(rows[j]) /\ DOMAIN rs[j] = DOMAIN rows[j]
             /\ rs[j].status = rows[j].status /\ rs[j].payment = rows[j].payment
             /\ rs[j].key = 0 /\ rs[j].error = FALSE
    BY <1>2 DEF IsRow
  <1>4. DOMAIN rs = DOMAIN rows
    OBVIOUS
  <1> HIDE DEF rs
  <1> QED BY <1>1, <1>3, <1>4, Retouched

LEMMA MethodChangeKeeps ==
  ASSUME IInv, NEW i \in DOMAIN rows, MethodChange(i)
  PROVE  IInv'
  <1> DEFINE rs == [rows EXCEPT ![i].key = 0, ![i].error = FALSE]
  <1>1. /\ Show(rs) /\ open /\ ~Locked(rows[i])
        /\ UNCHANGED <<payments, requests, sent, open, data, fetching, receipt, doubts>>
    BY DEF MethodChange, Usable
  <1>2. \A j \in DOMAIN rows : IsRow(rows[j])
    BY DEF IInv, Shape
  <1>3. \A j \in DOMAIN rows :
          \/ rs[j] = rows[j]
          \/ /\ j = i /\ DOMAIN rs[j] = DOMAIN rows[j]
             /\ rs[j].status = rows[j].status /\ rs[j].payment = rows[j].payment
             /\ rs[j].key = 0 /\ rs[j].error = FALSE
    BY <1>2 DEF IsRow
  <1>4. DOMAIN rs = DOMAIN rows
    OBVIOUS
  <1> HIDE DEF rs
  <1> QED BY <1>1, <1>3, <1>4, Retouched

-----------------------------------------------------------------------------
(* The dialog goes: its requests are orphans.                              *)

LEMMA OrphanedTyped ==
  ASSUME NEW R, NEW s \in Orphaned(R), \A q \in R : IsRequest(q)
  PROVE  \E q \in R : /\ DOMAIN s = DOMAIN q /\ s.kind = q.kind /\ s.row = q.row /\ s.key = q.key
                      /\ s.seen = q.seen /\ s.at = q.at /\ s.payment = q.payment
                      /\ s.client = IF q.client = "waiting" THEN "orphan" ELSE q.client
  BY DEF Orphaned, IsRequest

LEMMA Unmounted ==
  ASSUME IInv, NEW R, R \subseteq requests, requests' = Orphaned(R), Unmount, Shares(saved'),
         UNCHANGED <<payments, sent, data, doubts>>,
         \A j \in DOMAIN receipt' : receipt'[j] # 0 => Of(receipt'[j], j),
         \A j \in DOMAIN receipt' \ doubts : receipt'[j] # 0 /\ ~Going(receipt'[j])
  PROVE  IInv'
  <1>1. DOMAIN rows' = {} /\ open' = FALSE
    BY DEF Unmount
  <1>2. \A r \in R : IsRequest(r)
    BY DEF IInv, Shape
  <1>3. \A s \in requests' : \E q \in requests :
          /\ DOMAIN s = DOMAIN q /\ s.kind = q.kind /\ s.row = q.row /\ s.key = q.key
          /\ s.seen = q.seen /\ s.at = q.at /\ s.payment = q.payment
          /\ s.client = IF q.client = "waiting" THEN "orphan" ELSE q.client
    BY <1>2, OrphanedTyped
  <1>4. \A q \in requests : IsRequest(q)
    BY DEF IInv, Shape
  <1>5. \A s \in requests' : ~Waiting(s) /\ s.client \in {"waiting", "orphan", "gone"}
    BY <1>3, <1>4 DEF Waiting, IsRequest
  <1>6. \A s \in requests' : \E q \in requests : Carried(s, q)
    BY <1>1, <1>3, <1>4 DEF Carried, Waiting, IsRequest
  <1>7. PaymentsGrow
    BY DEF PaymentsGrow, Going, PaymentIds
  <1>8. Onward
    BY <1>1, <1>5, <1>6, <1>7 DEF Onward
  <1>9. Shape'
    <2>1. \A s \in requests' : IsRequest(s)'
      BY <1>3, <1>4 DEF IsRequest
    <2> QED BY <1>1, <2>1 DEF IInv, Shape, IsPayment, Shares, PaymentIds
  <1>10. Named'
    BY <1>1, <1>3 DEF IInv, Named, Of, PaymentIds
  <1>11. KeyBooksOnce'
    BY DEF IInv, KeyBooksOnce, PaymentIds
  <1>12. Screen'
    BY <1>1, <1>5 DEF Screen, Waiting
  <1>13. \A i \in DOMAIN rows' : RowKept(i)'
    BY <1>1
  <1>14. \A j \in DOMAIN receipt' \ doubts' : receipt'[j] # 0 /\ ~Going(receipt[j])'
    <2> SUFFICES ASSUME NEW j \in DOMAIN receipt' \ doubts'
                 PROVE  receipt'[j] # 0 /\ ~Going(receipt[j])'
      OBVIOUS
    <2>1. PICK p : p = receipt'[j]
      OBVIOUS
    <2>2. p # 0 /\ p \in PaymentIds /\ ~Going(p)
      BY <2>1 DEF Of
    <2>3. ~Going(p)'
      BY <1>8, <2>2, GoingStep
    <2> QED BY <2>1, <2>2, <2>3
  <1> QED BY <1>8, <1>9, <1>10, <1>11, <1>12, <1>13, <1>14, Assembled

LEMMA ReceiptStands ==
  ASSUME IInv, UNCHANGED receipt
  PROVE  /\ \A j \in DOMAIN receipt' : receipt'[j] # 0 => Of(receipt'[j], j)
         /\ \A j \in DOMAIN receipt' \ doubts : receipt'[j] # 0 /\ ~Going(receipt'[j])
  BY DEF IInv, Named, Kept

LEMMA CloseKeeps ==
  ASSUME IInv, Close \/ CancelSplit
  PROVE  IInv'
  <1>1. /\ requests' = Orphaned(requests) /\ Unmount
        /\ UNCHANGED <<payments, sent, data, receipt, doubts>>
    BY DEF Close, CancelSplit
  <1>2. Shares(saved')
    BY NoShares DEF Close, CancelSplit, IInv, Shape
  <1> QED BY <1>1, <1>2, ReceiptStands, Unmounted

LEMMA AllRowsPaidKeeps ==
  ASSUME IInv, NEW r \in requests, AllRowsPaid(r)
  PROVE  IInv'
  <1>1. IsRequest(r) /\ r.kind = "pay" /\ r.at = "done" /\ r.client # "gone"
    BY DEF AllRowsPaid, IInv, Shape, IsRequest
  <1>2. /\ Of(r.payment, r.row) /\ payments[r.payment].key = r.key /\ RequestKept(r)
        /\ \A j \in DOMAIN r.seen : r.seen[j] # 0 => Of(r.seen[j], j)
    BY <1>1 DEF IInv, Named, Kept
  <1>3. r.payment # 0 /\ r.payment \in Booked(r.key)
    BY <1>2 DEF Of, Booked, PaymentIds
  <1>4. DOMAIN r.seen \cup {r.row} = 1..Guests
    BY DEF AllRowsPaid, IsLast
  <1>5. receipt' = [j \in 1..Guests |-> IF j = r.row THEN r.payment ELSE r.seen[j]]
    BY DEF AllRowsPaid
  <1>6. \A j \in DOMAIN receipt' : receipt'[j] # 0 => Of(receipt'[j], j)
    BY <1>2, <1>4, <1>5
  <1>7. \A j \in DOMAIN receipt' \ doubts : receipt'[j] # 0 /\ ~Going(receipt'[j])
    BY <1>2, <1>3, <1>4, <1>5 DEF RequestKept
  <1>8. Shares(saved')
    BY NoShares DEF AllRowsPaid, IInv, Shape
  <1>9. /\ requests' = Orphaned(requests \ {r}) /\ Unmount
        /\ UNCHANGED <<payments, sent, data, doubts>>
    BY DEF AllRowsPaid
  <1> QED BY <1>6, <1>7, <1>8, <1>9, Unmounted

-----------------------------------------------------------------------------
(* One request moves on, on either side: it keeps what identifies it.      *)

Heir(new, r) ==
  /\ new.kind = r.kind /\ new.row = r.row /\ new.key = r.key /\ new.seen = r.seen
  /\ r.kind = "refund" => new.payment = r.payment
  /\ new.client \in {r.client, "gone"}

LEMMA OfStays ==
  ASSUME PaymentsGrow, NEW p, NEW i, Of(p, i)
  PROVE  Of(p, i)' /\ payments'[p].key = payments[p].key
  BY DEF PaymentsGrow, Of

LEMMA MovedOn ==
  ASSUME IInv, NEW r \in requests, NEW new, Heir(new, r),
         requests' \subseteq (requests \ {r}) \cup {new},
         new \in requests' => IsRequest(new),
         UNCHANGED sent
  PROVE  /\ \A s \in requests' : s.client \in {"waiting", "orphan", "gone"}
         /\ \A s \in requests' : \E q \in requests : Carried(s, q)
         /\ \A s \in requests' : IsRequest(s)'
  <1>1. \A q \in requests : IsRequest(q)
    BY DEF IInv, Shape
  <1>2. \A q \in requests : Carried(q, q)
    BY DEF Carried
  <1>3. new \in requests' => Carried(new, r)
    BY <1>1 DEF Heir, Carried, Waiting, IsRequest
  <1> QED BY <1>1, <1>2, <1>3 DEF IsRequest

LEMMA WaitingMovedOn ==
  ASSUME IInv, NEW r \in requests, NEW new, Heir(new, r),
         requests' \subseteq (requests \ {r}) \cup {new}
  PROVE  \A s, q \in requests' : Waiting(s) /\ Waiting(q) /\ s.row = q.row => s = q
  <1>1. \A s, q \in requests : Waiting(s) /\ Waiting(q) /\ s.row = q.row => s = q
    BY DEF IInv, Screen
  <1>2. Waiting(new) => Waiting(r)
    BY DEF Heir, Waiting
  <1> QED BY <1>1, <1>2 DEF Heir

(* At the workstation: the screen does not see it.                         *)
LEMMA Handled ==
  ASSUME IInv, NEW r \in requests, NEW new, Heir(new, r),
         requests' \subseteq (requests \ {r}) \cup {new},
         new \in requests' => IsRequest(new),
         UNCHANGED <<sent, screen, doubts>>, PaymentsGrow, KeyBooksOnce',
         \E S : payments' \in Seq(S), \A p \in PaymentIds' : IsPayment(payments'[p]),
         new.kind = "pay" /\ new.at = "done" /\ new \in requests' =>
           Of(new.payment, new.row)' /\ payments'[new.payment].key = new.key
  PROVE  IInv'
  <1> USE DEF screen
  <1>1. /\ \A s \in requests' : s.client \in {"waiting", "orphan", "gone"}
        /\ \A s \in requests' : \E q \in requests : Carried(s, q)
        /\ \A s \in requests' : IsRequest(s)'
    BY MovedOn
  <1>2. ~open => \A q \in requests : ~Waiting(q)
    BY DEF IInv, Screen
  <1>3. Onward
    BY <1>1, <1>2 DEF Onward, IInv, Screen, Carried
  <1>4. Shape'
    BY <1>1 DEF IInv, Shape, IsPayment, IsRow, Shares
  <1>5. Named'
    <2>1. \A i \in DOMAIN rows' : rows'[i].payment # 0 => Of(rows[i].payment, i)'
      BY OfStays DEF IInv, Named
    <2>2. \A j \in DOMAIN receipt' : receipt'[j] # 0 => Of(receipt[j], j)'
      BY OfStays DEF IInv, Named
    <2>3. \A q \in requests :
            /\ q.kind = "refund" => Of(q.payment, q.row)'
            /\ q.kind = "pay" /\ q.at = "done" =>
                 Of(q.payment, q.row)' /\ payments'[q.payment].key = q.key
            /\ \A j \in DOMAIN q.seen : q.seen[j] # 0 => Of(q.seen[j], j)'
      BY OfStays DEF IInv, Named
    <2>4. /\ new.kind = "refund" => Of(new.payment, new.row)'
          /\ \A j \in DOMAIN new.seen : new.seen[j] # 0 => Of(new.seen[j], j)'
      BY <2>3 DEF Heir
    <2> QED BY <2>1, <2>2, <2>3, <2>4 DEF Named
  <1>6. Screen'
    <2>1. \A s \in requests' : Waiting(s) => \E q \in requests : /\ Waiting(q) /\ s.row = q.row
                                               /\ s.key = q.key /\ s.kind = q.kind /\ s.seen = q.seen
      BY <1>1 DEF Carried
    <2> QED BY <2>1, WaitingMovedOn DEF IInv, Screen, Waiting
  <1>7. \A i \in DOMAIN rows' : RowKept(i)'
    BY <1>3, RowStaysKept
  <1> QED BY <1>3, <1>4, <1>5, <1>6, <1>7, ReceiptKept, Assembled

LEMMA PaymentsUntouched ==
  ASSUME IInv, UNCHANGED <<payments, sent>>
  PROVE  /\ PaymentsGrow /\ KeyBooksOnce' /\ \E S : payments' \in Seq(S)
         /\ \A p \in PaymentIds' : IsPayment(payments'[p])
  BY DEF PaymentsGrow, Going, KeyBooksOnce, PaymentIds, IInv, Shape, IsPayment

WithAt(r, at) == [r EXCEPT !.at = at]
Done(r, p) == [r EXCEPT !.at = "done", !.payment = p]

LEMMA HeirTyped ==
  ASSUME NEW r, IsRequest(r), NEW at \in {"done", "refused", "checked"},
         at = "checked" => r.kind = "pay", NEW new, new = WithAt(r, at)
  PROVE  /\ Heir(new, r) /\ new.at = at /\ new.kind = r.kind
         /\ new.client # "gone" \/ at = "checked" => IsRequest(new)
  <1>1. /\ DOMAIN new = DOMAIN r /\ new.kind = r.kind /\ new.row = r.row /\ new.key = r.key
        /\ new.seen = r.seen /\ new.payment = r.payment /\ new.client = r.client /\ new.at = at
    BY DEF IsRequest, WithAt
  <1> QED BY <1>1 DEF IsRequest, Heir

LEMMA DoneTyped ==
  ASSUME NEW r, IsRequest(r), r.kind = "pay", NEW p,
         NEW new, new = Done(r, p)
  PROVE  /\ Heir(new, r) /\ new.at = "done" /\ new.payment = p
         /\ new.kind = "pay" /\ new.key = r.key /\ new.row = r.row
         /\ new.client # "gone" => IsRequest(new)
  <1>1. /\ DOMAIN new = DOMAIN r /\ new.kind = r.kind /\ new.row = r.row /\ new.key = r.key
        /\ new.seen = r.seen /\ new.payment = p /\ new.client = r.client /\ new.at = "done"
    BY DEF IsRequest, Done
  <1> QED BY <1>1 DEF IsRequest, Heir

LEMMA Updated ==
  ASSUME NEW r, NEW new, Update(r, new)
  PROVE  /\ requests' \subseteq (requests \ {r}) \cup {new}
         /\ new \in requests' =>
              new.client # "gone" \/ new.at \notin {"done", "refused"} \/ new \in requests
  <1>1. CASE new.client = "gone" /\ new.at \in {"done", "refused"}
    <2>1. requests' = (requests \ {r}) \cup {}
      BY <1>1 DEF Update
    <2> QED BY <2>1
  <1>2. CASE ~(new.client = "gone" /\ new.at \in {"done", "refused"})
    <2>1. requests' = (requests \ {r}) \cup {new}
      BY <1>2 DEF Update
    <2> QED BY <1>2, <2>1
  <1> QED BY <1>1, <1>2

(* A request that has an outcome, or is cleared for the insert. *)
LEMMA LookupKeeps ==
  ASSUME IInv, NEW r \in requests, Lookup(r)
  PROVE  IInv'
  <1>1. IsRequest(r) /\ r.kind = "pay" /\ UNCHANGED <<payments, sent, screen, doubts>>
    BY DEF Lookup, IInv, Shape
  <1>2. CASE \E p \in Booked(r.key) : Update(r, [r EXCEPT !.at = "done", !.payment = p])
    <2>1. PICK p \in Booked(r.key) : Update(r, Done(r, p))
      BY <1>2 DEF Done
    <2> PICK new : new = Done(r, p)
      OBVIOUS
    <2>2. Heir(new, r) /\ new.at = "done" /\ (new.client # "gone" => IsRequest(new))
      BY <1>1, DoneTyped
    <2>3. new.payment = p /\ new.kind = "pay"
      BY <1>1, DoneTyped
    <2>4. payments[p].row = r.row /\ payments[p].key = r.key /\ p \in PaymentIds
      <3>1. payments[p].key = r.key /\ p \in PaymentIds /\ r.key \in 1..sent
        BY <1>1, <2>1 DEF Booked, IsRequest, IInv, Shape
      <3>2. payments[p].row \in 1..Guests /\ r.row \in 1..Guests
        BY <1>1, <3>1 DEF IInv, Shape, IsPayment, IsRequest
      <3>3. Uses(r.key, payments[p].row) /\ Uses(r.key, r.row)
        BY <3>1 DEF Uses
      <3> QED BY <3>1, <3>2, <3>3 DEF IInv, OneRowPerKey
    <2>5. /\ requests' \subseteq (requests \ {r}) \cup {new}
          /\ new \in requests' => IsRequest(new)
      BY <2>1, <2>2, Updated DEF IInv, Shape
    <2>6. Of(new.payment, new.row)' /\ payments'[new.payment].key = new.key
      BY <1>1, <2>2, <2>3, <2>4 DEF Of, Heir, PaymentIds
    <2> QED BY <1>1, <2>2, <2>5, <2>6, PaymentsUntouched, Handled
  <1>3. CASE \E at \in {"refused", "checked"} : Update(r, [r EXCEPT !.at = at])
    <2>1. PICK at \in {"refused", "checked"} : Update(r, WithAt(r, at))
      BY <1>3 DEF WithAt
    <2> PICK new : new = WithAt(r, at)
      OBVIOUS
    <2>2. Heir(new, r) /\ new.at = at /\ (new.client # "gone" \/ at = "checked" => IsRequest(new))
      BY <1>1, HeirTyped
    <2>3. /\ requests' \subseteq (requests \ {r}) \cup {new}
          /\ new \in requests' => IsRequest(new)
      BY <2>1, <2>2, Updated DEF IInv, Shape
    <2> QED BY <1>1, <2>2, <2>3, PaymentsUntouched, Handled
  <1> QED BY <1>2, <1>3 DEF Lookup

LEMMA InsertKeeps ==
  ASSUME IInv, NEW r \in requests, Insert(r)
  PROVE  IInv'
  <1>1. IsRequest(r) /\ r.kind = "pay" /\ UNCHANGED <<sent, screen, doubts>>
    BY DEF Insert, IInv, Shape, IsRequest
  <1>2. CASE Booked(r.key) # {}
    <2> PICK new : new = WithAt(r, "refused")
      OBVIOUS
    <2>1. Update(r, new) /\ UNCHANGED payments
      BY <1>2 DEF Insert, WithAt
    <2>2. Heir(new, r) /\ new.at = "refused" /\ (new.client # "gone" => IsRequest(new))
      BY <1>1, HeirTyped
    <2>3. /\ requests' \subseteq (requests \ {r}) \cup {new}
          /\ new \in requests' => IsRequest(new)
      BY <2>1, <2>2, Updated DEF IInv, Shape
    <2> QED BY <1>1, <2>1, <2>2, <2>3, PaymentsUntouched, Handled
  <1>3. CASE Booked(r.key) = {}
    <2> PICK n : n = Len(payments) + 1
      OBVIOUS
    <2> PICK b : b = [key |-> r.key, amount |-> r.amount, row |-> r.row, refunded |-> FALSE]
      OBVIOUS
    <2> PICK new : new = Done(r, n)
      OBVIOUS
    <2>1. Update(r, new) /\ payments' = Append(payments, b)
      BY <1>3 DEF Insert, Done
    <2>2. Heir(new, r) /\ new.at = "done" /\ (new.client # "gone" => IsRequest(new))
      BY <1>1, DoneTyped
    <2>3. new.payment = n /\ new.kind = "pay" /\ new.key = r.key /\ new.row = r.row
      BY <1>1, DoneTyped
    <2>4. b.key = r.key /\ b.row = r.row /\ b.refunded = FALSE /\ IsPayment(b)
      BY <1>1 DEF IsPayment, IsRequest, IInv, Shape
    <2>5. /\ \E S : payments' \in Seq(S)
          /\ PaymentIds' = PaymentIds \cup {n} /\ n \notin PaymentIds /\ payments'[n] = b
          /\ \A p \in PaymentIds : payments'[p] = payments[p]
      BY <2>1, PaymentBooked DEF IInv
    <2>6. Uses(r.key, r.row)
      BY DEF Uses
    <2>7. PaymentsGrow
      BY <2>4, <2>5, <2>6 DEF PaymentsGrow, Going
    <2>8. \A p \in PaymentIds' : IsPayment(payments'[p])
      BY <2>4, <2>5 DEF IInv, Shape
    <2>9. KeyBooksOnce'
      BY <1>3, <2>4, <2>5 DEF IInv, KeyBooksOnce, Booked
    <2>10. /\ requests' \subseteq (requests \ {r}) \cup {new}
           /\ new \in requests' => IsRequest(new)
      BY <2>1, <2>2, Updated DEF IInv, Shape
    <2>11. Of(new.payment, new.row)' /\ payments'[new.payment].key = new.key
      BY <2>3, <2>4, <2>5 DEF Of
    <2> QED BY <1>1, <2>2, <2>5, <2>7, <2>8, <2>9, <2>10, <2>11, Handled
  <1> QED BY <1>2, <1>3

LEMMA RefundKeeps ==
  ASSUME IInv, NEW r \in requests, Refund(r)
  PROVE  IInv'
  <1> PICK new : new = WithAt(r, "done")
    OBVIOUS
  <1>1. /\ IsRequest(r) /\ r.kind = "refund" /\ Update(r, new)
        /\ UNCHANGED <<sent, screen, doubts>>
    BY DEF Refund, IInv, Shape, WithAt
  <1>2. Heir(new, r) /\ new.at = "done" /\ (new.client # "gone" => IsRequest(new))
    BY <1>1, HeirTyped
  <1>3. new.kind = "refund"
    BY <1>1, HeirTyped
  <1>4. /\ requests' \subseteq (requests \ {r}) \cup {new}
        /\ new \in requests' => IsRequest(new)
    BY <1>1, <1>2, Updated DEF IInv, Shape
  <1>5. CASE UNCHANGED payments
    BY <1>1, <1>2, <1>3, <1>4, <1>5, PaymentsUntouched, Handled
  <1>6. CASE payments' = [payments EXCEPT ![r.payment].refunded = TRUE]
    <2>1. r.payment \in PaymentIds /\ Going(r.payment)
      BY <1>1 DEF IInv, Named, Of, Going
    <2>2. /\ \E S : payments' \in Seq(S)
          /\ PaymentIds' = PaymentIds
          /\ \A p \in PaymentIds :
               /\ DOMAIN payments'[p] = DOMAIN payments[p]
               /\ payments'[p].key = payments[p].key /\ payments'[p].row = payments[p].row
               /\ payments'[p].refunded = IF p = r.payment THEN TRUE ELSE payments[p].refunded
      BY <1>6, <2>1, PaymentGivenBack DEF IInv
    <2>3. PaymentsGrow
      BY <2>1, <2>2 DEF PaymentsGrow, Going
    <2>4. \A p \in PaymentIds' : IsPayment(payments'[p])
      BY <2>2 DEF IInv, Shape, IsPayment
    <2>5. KeyBooksOnce'
      <3>1. PaymentIds' = PaymentIds /\ \A p \in PaymentIds : payments'[p].key = payments[p].key
        BY <2>2
      <3>2. \A p, q \in PaymentIds : payments[p].key = payments[q].key => p = q
        BY DEF IInv, KeyBooksOnce
      <3> QED BY <3>1, <3>2 DEF KeyBooksOnce
    <2> QED BY <1>1, <1>2, <1>3, <1>4, <2>2, <2>3, <2>4, <2>5, Handled
  <1> QED BY <1>5, <1>6 DEF Refund

LEMMA LostKeeps ==
  ASSUME IInv, NEW r \in requests, Lost(r)
  PROVE  IInv'
  <1>1. requests' = requests \ {r} /\ UNCHANGED <<payments, sent, screen, doubts>>
    BY DEF Lost
  <1>2. Heir(r, r) /\ r \notin requests'
    BY <1>1 DEF Heir
  <1> QED BY <1>1, <1>2, PaymentsUntouched, Handled

-----------------------------------------------------------------------------
(* An answer, or the timeout: the request is no longer waited for, and its *)
(* row, if its dialog is open, becomes row.                                *)

RowAfter(row, r) ==
  /\ IsRow(row) /\ row.key \in {0, rows[r.row].key}
  /\ row.payment # 0 =>
       \/ row.payment = rows[r.row].payment
       \/ r.kind = "pay" /\ r.at = "done" /\ row.payment = r.payment
  /\ row.status = "succeeded" /\ ~row.error =>
       row.payment \in PaymentIds /\ row.payment # 0 /\ ~Going(row.payment)
  /\ row.status = "succeeded" /\ row.error => r.row \in doubts'
  /\ row.status \in {"idle", "failed"} /\ row.key # 0 => \A p \in Booked(row.key) : ~Going(p)

LEMMA AnsweredKeeps ==
  ASSUME IInv, NEW r \in requests, NEW new, Heir(new, r),
         requests' \subseteq (requests \ {r}) \cup {new},
         new \in requests' => IsRequest(new) /\ new.client = "gone" /\ new.at # "done",
         UNCHANGED <<payments, sent, open, data, receipt>>, doubts \subseteq doubts',
         NEW row,
         IF Waiting(r) THEN rows' = [rows EXCEPT ![r.row] = row] /\ RowAfter(row, r)
         ELSE rows' = rows,
         Shares(saved')
  PROVE  IInv'
  <1>1. /\ \A s \in requests' : s.client \in {"waiting", "orphan", "gone"}
        /\ \A s \in requests' : \E q \in requests : Carried(s, q)
        /\ \A s \in requests' : IsRequest(s)'
    BY MovedOn
  <1>2. ~open => DOMAIN rows = {} /\ \A q \in requests : ~Waiting(q)
    BY DEF IInv, Screen
  <1>3. /\ DOMAIN rows' = DOMAIN rows
        /\ \A i \in DOMAIN rows : rows'[i] = IF Waiting(r) /\ i = r.row THEN row ELSE rows[i]
    OBVIOUS
  <1>4. Waiting(r) => r.row \in DOMAIN rows /\ RowAfter(row, r)
    BY DEF IInv, Screen
  <1>5. PaymentsGrow
    BY DEF PaymentsGrow, Going, PaymentIds
  <1>6. Onward
    <2>1. \A i \in DOMAIN rows' :
            rows'[i].key = 0 \/ (i \in DOMAIN rows /\ rows'[i].key = rows[i].key)
      BY <1>3, <1>4 DEF RowAfter
    <2>2. \A i \in DOMAIN rows' : rows'[i].payment # 0 =>
            \/ i \in DOMAIN rows /\ rows'[i].payment = rows[i].payment
            \/ \E q \in requests : /\ Waiting(q) /\ q.kind = "pay" /\ q.at = "done"
                                   /\ rows'[i].payment = q.payment
      BY <1>3, <1>4 DEF RowAfter
    <2>3. ~open' => DOMAIN rows' = {} /\ \A s \in requests' : ~Waiting(s)
      BY <1>1, <1>2, <1>3 DEF Carried
    <2> QED BY <1>1, <1>5, <2>1, <2>2, <2>3 DEF Onward
  <1>7. Shape'
    <2>1. \A i \in DOMAIN rows' : IsRow(rows'[i])
      BY <1>3, <1>4 DEF RowAfter, IInv, Shape
    <2>2. \A i \in DOMAIN rows' : IsRow(rows[i])'
      BY <2>1 DEF IsRow
    <2>3. Shares(rows') /\ sent' \in Nat /\ open' \in BOOLEAN /\ \E S : payments' \in Seq(S)
      BY <1>3 DEF Shares, IInv, Shape
    <2>4. \A p \in PaymentIds' : IsPayment(payments[p])'
      BY DEF IInv, Shape, IsPayment, PaymentIds
    <2> QED BY <1>1, <2>2, <2>3, <2>4 DEF IInv, Shape, Shares
  <1>8. Named'
    <2>1. \A p, i : Of(p, i) => Of(p, i)'
      BY OfStays, <1>5
    <2>2. \A i \in DOMAIN rows' : rows'[i].payment # 0 => Of(rows'[i].payment, i)
      BY <1>3, <1>4 DEF RowAfter, IInv, Named
    <2>3. \A i \in DOMAIN rows' : rows'[i].payment # 0 => Of(rows[i].payment, i)'
      BY <2>2 DEF Of, PaymentIds
    <2>4. \A j \in DOMAIN receipt' : receipt'[j] # 0 => Of(receipt[j], j)'
      BY DEF IInv, Named, Of, PaymentIds
    <2>5. \A s \in requests' :
            /\ s.kind = "refund" => Of(s.payment, s.row)
            /\ s.kind = "pay" /\ s.at = "done" =>
                 Of(s.payment, s.row) /\ payments[s.payment].key = s.key
            /\ \A j \in DOMAIN s.seen : s.seen[j] # 0 => Of(s.seen[j], j)
      BY DEF Heir, IInv, Named
    <2> QED BY <2>3, <2>4, <2>5 DEF Named, Of, PaymentIds
  <1>9. KeyBooksOnce'
    BY DEF IInv, KeyBooksOnce, PaymentIds
  <1>10. Screen'
    <2>1. \A s \in requests' : Waiting(s) => s \in requests /\ s # r
      BY DEF Waiting
    <2>2. (~open' => DOMAIN rows' = {}) /\ (receipt' # <<>> => ~open')
      BY <1>2, <1>3 DEF IInv, Screen
    <2>3. ASSUME NEW s \in requests', Waiting(s)
          PROVE  /\ s.row \in DOMAIN rows'
                 /\ rows'[s.row].status # "succeeded" /\ rows'[s.row].key \in {0, s.key}
                 /\ s.kind = "pay" => \A j \in DOMAIN s.seen :
                      /\ rows'[s.row].status = "submitting"
                      /\ j \in DOMAIN rows' /\ rows'[j].status = "succeeded"
      <3>1. /\ s \in requests /\ s.row \in DOMAIN rows
            /\ rows[s.row].status # "succeeded" /\ rows[s.row].key \in {0, s.key}
            /\ s.kind = "pay" => \A j \in DOMAIN s.seen :
                 /\ rows[s.row].status = "submitting"
                 /\ j \in DOMAIN rows /\ rows[j].status = "succeeded"
        BY <2>1, <2>3 DEF IInv, Screen
      <3>2. Waiting(r) => s.row # r.row /\ rows[r.row].status # "succeeded"
        BY <2>1, <2>3, <3>1 DEF IInv, Screen
      <3> QED BY <1>3, <3>1, <3>2
    <2>4. \A s, q \in requests' : Waiting(s) /\ Waiting(q) /\ s.row = q.row => s = q
      BY WaitingMovedOn
    <2> QED BY <2>2, <2>3, <2>4 DEF Screen, Waiting
  <1>11. \A i \in DOMAIN rows' : RowKept(i)'
    <2> SUFFICES ASSUME NEW i \in DOMAIN rows' PROVE RowKept(i)'
      OBVIOUS
    <2>1. CASE Waiting(r) /\ i = r.row
      <3>1. rows'[i] = row /\ RowAfter(row, r)
        BY <1>3, <1>4, <2>1
      <3>2. \A p \in PaymentIds : ~Going(p) => ~Going(p)'
        BY <1>6, GoingStep
      <3>3. row.status = "succeeded" /\ ~row.error => row.payment # 0 /\ ~Going(row.payment)'
        BY <3>1, <3>2 DEF RowAfter
      <3>4. row.status \in {"idle", "failed"} /\ row.key # 0 =>
              \A p \in PaymentIds' : payments'[p].key = row.key => ~Going(p)'
        BY <3>1, <3>2 DEF RowAfter, Booked, PaymentIds
      <3>5. row.status = "succeeded" /\ row.error => i \in doubts'
        BY <2>1, <3>1 DEF RowAfter
      <3>6. /\ rows'[i].status = "succeeded" /\ ~rows'[i].error =>
                 rows'[i].payment # 0 /\ ~Going(rows[i].payment)'
            /\ rows'[i].status = "succeeded" /\ rows'[i].error => i \in doubts'
            /\ rows'[i].status \in {"idle", "failed"} /\ rows'[i].key # 0 =>
                 \A p \in Booked(rows[i].key)' : ~Going(p)'
        BY <3>1, <3>3, <3>4, <3>5 DEF Booked
      <3> QED BY <3>6 DEF RowKept
    <2>2. CASE ~(Waiting(r) /\ i = r.row)
      BY <1>3, <1>6, <2>2, RowStaysKept
    <2> QED BY <2>1, <2>2
  <1> QED BY <1>6, <1>7, <1>8, <1>9, <1>10, <1>11, ReceiptKept, Assembled

LEMMA Patched ==
  ASSUME IInv, NEW r \in requests, NEW row, Patch(r, row)
  PROVE  /\ rows' = IF Waiting(r) THEN [rows EXCEPT ![r.row] = row] ELSE rows
         /\ Shares(saved')
  <1>1. Shares([rows EXCEPT ![r.row] = row])
    BY DEF IInv, Shape, Shares
  <1> QED BY <1>1, Shown DEF Patch, IInv, Shape, Waiting

Gone(r) == [r EXCEPT !.client = "gone"]

LEMMA GoneTyped ==
  ASSUME NEW r, IsRequest(r), NEW new, new = Gone(r)
  PROVE  /\ Heir(new, r) /\ new.client = "gone" /\ new.at = r.at
         /\ r.at \in {"sent", "checked"} => IsRequest(new)
  <1>1. /\ DOMAIN new = DOMAIN r /\ new.kind = r.kind /\ new.row = r.row /\ new.key = r.key
        /\ new.seen = r.seen /\ new.payment = r.payment /\ new.client = "gone" /\ new.at = r.at
    BY DEF IsRequest, Gone
  <1> QED BY <1>1 DEF IsRequest, Heir

LEMMA GaveUp ==
  ASSUME IInv, NEW r \in requests, NEW new, new = Gone(r), Update(r, new)
  PROVE  /\ Heir(new, r) /\ requests' \subseteq (requests \ {r}) \cup {new}
         /\ new \in requests' => IsRequest(new) /\ new.client = "gone" /\ new.at # "done"
  <1>1. IsRequest(r) /\ \A q \in requests : IsRequest(q)
    BY DEF IInv, Shape
  <1>2. /\ Heir(new, r) /\ new.client = "gone" /\ new.at = r.at
        /\ r.at \in {"sent", "checked"} => IsRequest(new)
    BY <1>1, GoneTyped
  <1>3. /\ requests' \subseteq (requests \ {r}) \cup {new}
        /\ new \in requests' =>
             new.client # "gone" \/ new.at \notin {"done", "refused"} \/ new \in requests
    BY Updated
  <1> QED BY <1>1, <1>2, <1>3 DEF IsRequest

(* The row a request is waited for on. *)
LEMMA WaitingRow ==
  ASSUME IInv, NEW r \in requests, Waiting(r)
  PROVE  /\ IsRow(rows[r.row]) /\ rows[r.row].key \in {0, r.key}
         /\ \A p \in PaymentIds : p # 0
         /\ r.kind = "pay" => RequestKept(r)
  <1>1. \A p \in PaymentIds : p # 0
    BY DEF PaymentIds
  <1> QED BY <1>1 DEF IInv, Shape, Screen, Kept, Waiting

LEMMA PayAnsweredKeeps ==
  ASSUME IInv, NEW r \in requests, PayAnswered(r)
  PROVE  IInv'
  <1>1. PICK row : row = [rows[r.row] EXCEPT !.status = "succeeded", !.error = FALSE,
                                             !.payment = r.payment]
    OBVIOUS
  <1>2. /\ r.kind = "pay" /\ r.at = "done" /\ Patch(r, row) /\ requests' = requests \ {r}
        /\ UNCHANGED <<payments, sent, open, data, receipt, doubts>>
    BY <1>1 DEF PayAnswered
  <1>3. rows' = (IF Waiting(r) THEN [rows EXCEPT ![r.row] = row] ELSE rows) /\ Shares(saved')
    BY <1>2, Patched
  <1>4. ASSUME Waiting(r) PROVE RowAfter(row, r)
    <2>1. IsRow(rows[r.row]) /\ RequestKept(r) /\ \A p \in PaymentIds : p # 0
      BY <1>2, <1>4, WaitingRow
    <2>2. /\ IsRow(row) /\ row.key = rows[r.row].key /\ row.status = "succeeded"
          /\ row.error = FALSE /\ row.payment = r.payment
      BY <1>1, <2>1 DEF IsRow
    <2>3. r.payment \in Booked(r.key)
      BY <1>2 DEF IInv, Named, Of, Booked
    <2>4. r.payment \in PaymentIds /\ ~Going(r.payment)
      BY <2>1, <2>3 DEF RequestKept, Booked
    <2> QED BY <1>2, <2>1, <2>2, <2>4 DEF RowAfter
  <1>5. Heir(r, r) /\ r \notin requests' /\ requests' \subseteq (requests \ {r}) \cup {r}
    BY <1>2 DEF Heir
  <1> QED BY <1>2, <1>3, <1>4, <1>5, AnsweredKeeps

LEMMA PayFailsKeeps ==
  ASSUME IInv, NEW r \in requests, PayFails(r)
  PROVE  IInv'
  <1>1. PICK row : row = [rows[r.row] EXCEPT !.status = "failed", !.error = TRUE]
    OBVIOUS
  <1>2. PICK new : new = Gone(r)
    OBVIOUS
  <1>3. /\ r.kind = "pay" /\ Patch(r, row) /\ Update(r, new)
        /\ UNCHANGED <<payments, sent, open, data, receipt, doubts>>
    BY <1>1, <1>2 DEF PayFails, Gone
  <1>4. rows' = (IF Waiting(r) THEN [rows EXCEPT ![r.row] = row] ELSE rows) /\ Shares(saved')
    BY <1>3, Patched
  <1>5. ASSUME Waiting(r) PROVE RowAfter(row, r)
    <2>1. IsRow(rows[r.row]) /\ RequestKept(r) /\ rows[r.row].key \in {0, r.key}
      BY <1>3, <1>5, WaitingRow
    <2>2. /\ IsRow(row) /\ row.key = rows[r.row].key /\ row.status = "failed"
          /\ row.payment = rows[r.row].payment
      BY <1>1, <2>1 DEF IsRow
    <2> QED BY <2>1, <2>2 DEF RowAfter, RequestKept
  <1>6. /\ Heir(new, r) /\ requests' \subseteq (requests \ {r}) \cup {new}
        /\ new \in requests' => IsRequest(new) /\ new.client = "gone" /\ new.at # "done"
    BY <1>2, <1>3, GaveUp
  <1> QED BY <1>3, <1>4, <1>5, <1>6, AnsweredKeeps

LEMMA RefundAnsweredKeeps ==
  ASSUME IInv, NEW r \in requests, RefundAnswered(r)
  PROVE  IInv'
  <1>1. PICK row : row = IdleRow(rows[r.row].amount)
    OBVIOUS
  <1>2. /\ Patch(r, row) /\ requests' = requests \ {r}
        /\ UNCHANGED <<payments, sent, open, data, receipt, doubts>>
    BY <1>1 DEF RefundAnswered
  <1>3. rows' = (IF Waiting(r) THEN [rows EXCEPT ![r.row] = row] ELSE rows) /\ Shares(saved')
    BY <1>2, Patched
  <1>4. RowAfter(row, r)
    <2>1. IsRow(row) /\ row.status = "idle" /\ row.key = 0 /\ row.payment = 0
      BY <1>1, IdleTyped DEF IInv
    <2> QED BY <2>1 DEF RowAfter
  <1>5. Heir(r, r) /\ r \notin requests' /\ requests' \subseteq (requests \ {r}) \cup {r}
    BY <1>2 DEF Heir
  <1> QED BY <1>2, <1>3, <1>4, <1>5, AnsweredKeeps

LEMMA RefundFailsKeeps ==
  ASSUME IInv, NEW r \in requests, RefundFails(r)
  PROVE  IInv'
  <1>1. PICK row : row = [rows[r.row] EXCEPT !.status = "succeeded", !.error = TRUE]
    OBVIOUS
  <1>2. PICK new : new = Gone(r)
    OBVIOUS
  <1>3. /\ Patch(r, row) /\ Update(r, new) /\ doubts' = doubts \cup {r.row}
        /\ UNCHANGED <<payments, sent, open, data, receipt>>
    BY <1>1, <1>2 DEF RefundFails, Gone
  <1>4. rows' = (IF Waiting(r) THEN [rows EXCEPT ![r.row] = row] ELSE rows) /\ Shares(saved')
    BY <1>3, Patched
  <1>5. ASSUME Waiting(r) PROVE RowAfter(row, r)
    <2>1. IsRow(rows[r.row])
      BY <1>5, WaitingRow
    <2>2. /\ IsRow(row) /\ row.key = rows[r.row].key /\ row.status = "succeeded"
          /\ row.error = TRUE /\ row.payment = rows[r.row].payment
      BY <1>1, <2>1 DEF IsRow
    <2> QED BY <1>3, <2>2 DEF RowAfter
  <1>6. /\ Heir(new, r) /\ requests' \subseteq (requests \ {r}) \cup {new}
        /\ new \in requests' => IsRequest(new) /\ new.client = "gone" /\ new.at # "done"
    BY <1>2, <1>3, GaveUp
  <1> QED BY <1>3, <1>4, <1>5, <1>6, AnsweredKeeps

-----------------------------------------------------------------------------
(* A request is sent: a fresh key is nobody's yet, and a payment that is   *)
(* now given back is counted on by its row only, which is busy from now.   *)

SentFor(kind, i, key) ==
  \/ /\ kind = "pay" /\ ~Locked(rows[i])
     /\ key = IF rows[i].key # 0 THEN rows[i].key ELSE sent + 1
  \/ /\ kind = "refund" /\ rows[i].status = "succeeded" /\ rows[i].payment # 0
     /\ ~AnySubmitting /\ key = rows[i].key

LEMMA SendKeeps ==
  ASSUME IInv, NEW kind \in {"pay", "refund"}, NEW i \in DOMAIN rows, NEW key,
         SentFor(kind, i, key), Send(kind, i, key)
  PROVE  IInv'
  <1>1. PICK q : q = [number |-> sent + 1, kind |-> kind, row |-> i, key |-> key,
                      amount |-> rows[i].amount, payment |-> rows[i].payment, at |-> "sent",
                      client |-> "waiting",
                      seen |-> [j \in {k \in DOMAIN rows : rows[k].status = "succeeded"}
                                  |-> rows[j].payment]]
    OBVIOUS
  <1>2. PICK row : row = [rows[i] EXCEPT !.status = "submitting", !.error = FALSE, !.key = key]
    OBVIOUS
  <1>3. /\ open /\ sent' = sent + 1 /\ requests' = requests \cup {q}
        /\ Show([rows EXCEPT ![i] = row]) /\ i \notin InFlight
        /\ UNCHANGED <<payments, open, data, receipt, doubts>>
    BY <1>1, <1>2 DEF Send, Usable
  <1>4. /\ sent \in Nat /\ IsRow(rows[i]) /\ Shares([rows EXCEPT ![i] = row]) /\ Shares(saved)
        /\ DOMAIN rows = {} \/ DOMAIN rows = 1..Guests
    BY DEF IInv, Shape, Shares
  <1>5. /\ DOMAIN rows' = DOMAIN rows /\ Shares(rows') /\ Shares(saved')
        /\ \A j \in DOMAIN rows : rows'[j] = IF j = i THEN row ELSE rows[j]
    <2>1. rows' = [rows EXCEPT ![i] = row] /\ Shares(saved')
      BY <1>3, <1>4, Shown
    <2> QED BY <1>4, <2>1
  <1>6. key \in 0..sent' /\ (kind = "pay" => key # 0)
    BY <1>3, <1>4 DEF SentFor, IsRow
  <1>7. /\ DOMAIN row = DOMAIN rows[i] /\ row.status = "submitting" /\ row.error = FALSE
        /\ row.key = key /\ row.payment = rows[i].payment
    BY <1>2, <1>4 DEF IsRow
  <1>8. IsRow(row)'
    BY <1>4, <1>6, <1>7 DEF IsRow
  <1>9. /\ DOMAIN q = {"number", "kind", "row", "key", "amount", "payment", "at", "client", "seen"}
        /\ q.kind = kind /\ q.row = i /\ q.key = key /\ q.payment = rows[i].payment
        /\ q.at = "sent" /\ q.client = "waiting"
        /\ \A j \in DOMAIN q.seen : /\ j \in DOMAIN rows /\ rows[j].status = "succeeded"
                                    /\ q.seen[j] = rows[j].payment
    BY <1>1
  <1>10. IsRequest(q)'
    BY <1>4, <1>6, <1>9 DEF IsRequest
  <1>11. \A s \in requests : Waiting(s) => s.row # i
    BY <1>3 DEF InFlight, Waiting
  <1>12. receipt = <<>> /\ DOMAIN receipt = {}
    BY <1>3 DEF IInv, Screen
  <1>13. /\ kind = "pay" => rows[i].status \in {"idle", "failed"}
         /\ kind = "refund" => /\ rows[i].status = "succeeded" /\ rows[i].payment # 0
                               /\ key = rows[i].key
                               /\ \A j \in DOMAIN rows : rows[j].status # "submitting"
    BY <1>4 DEF SentFor, Locked, IsRow, AnySubmitting
  <1>14. PaymentIds' = PaymentIds
    BY <1>3 DEF PaymentIds
  <1>15. Shape'
    <2>1. \A j \in DOMAIN rows' : IsRow(rows[j])'
      BY <1>3, <1>5, <1>8 DEF IInv, Shape, IsRow
    <2>2. \A s \in requests' : IsRequest(s)'
      BY <1>3, <1>10 DEF IInv, Shape, IsRequest
    <2>3. \A p \in PaymentIds' : IsPayment(payments[p])'
      BY <1>3, <1>14 DEF IInv, Shape, IsPayment
    <2>4. Shares(rows)' /\ Shares(saved)' /\ Shares(data)'
      BY <1>3, <1>5 DEF IInv, Shape, Shares
    <2> QED BY <1>3, <2>1, <2>2, <2>3, <2>4 DEF IInv, Shape
  <1>16. \A p, j : Of(p, j) => Of(p, j)'
    BY <1>3, <1>14 DEF Of
  <1>17. \A j \in DOMAIN rows : rows[j].payment # 0 => Of(rows[j].payment, j)
    BY DEF IInv, Named
  <1>18. Named'
    <2>1. \A j \in DOMAIN rows' : rows'[j].payment # 0 => Of(rows'[j].payment, j)
      BY <1>5, <1>7, <1>17
    <2>2. \A s \in requests' :
            /\ s.kind = "refund" => Of(s.payment, s.row)
            /\ s.kind = "pay" /\ s.at = "done" =>
                 Of(s.payment, s.row) /\ payments[s.payment].key = s.key
            /\ \A j \in DOMAIN s.seen : s.seen[j] # 0 => Of(s.seen[j], j)
      BY <1>3, <1>9, <1>13, <1>17 DEF IInv, Named
    <2> QED BY <1>3, <1>12, <1>14, <2>1, <2>2 DEF Named, Of
  <1>19. KeyBooksOnce'
    BY <1>3, <1>14 DEF IInv, KeyBooksOnce
  <1>20. OneRowPerKey'
    <2>1. \A k \in 1..sent', j \in 1..Guests :
            Uses(k, j)' => Uses(k, j) \/ (k = sent + 1 /\ j = i)
      <3> SUFFICES ASSUME NEW k \in 1..sent', NEW j \in 1..Guests, Uses(k, j)'
                   PROVE  Uses(k, j) \/ (k = sent + 1 /\ j = i)
        OBVIOUS
      <3>1. key = sent + 1 \/ key = rows[i].key
        BY DEF SentFor
      <3>2. CASE \E p \in PaymentIds' : payments'[p].key = k /\ payments'[p].row = j
        BY <1>3, <1>14, <3>2 DEF Uses
      <3>3. CASE \E s \in requests' : s.key = k /\ s.row = j
        BY <1>3, <1>9, <3>1, <3>3 DEF Uses
      <3>4. CASE j \in DOMAIN rows' /\ rows'[j].key = k
        BY <1>5, <1>7, <3>1, <3>4 DEF Uses
      <3> QED BY <3>2, <3>3, <3>4 DEF Uses
    <2>2. \A j : ~Uses(sent + 1, j)
      BY <1>4 DEF Uses, IInv, Shape, IsPayment, IsRow, IsRequest
    <2> QED BY <1>3, <1>4, <2>1, <2>2 DEF OneRowPerKey, IInv
  <1>21. Screen'
    <2>1. ASSUME NEW s \in requests, Waiting(s)
          PROVE  /\ s.row \in DOMAIN rows'
                 /\ rows'[s.row].status # "succeeded" /\ rows'[s.row].key \in {0, s.key}
                 /\ s.kind = "pay" => \A j \in DOMAIN s.seen :
                      /\ rows'[s.row].status = "submitting"
                      /\ j \in DOMAIN rows' /\ rows'[j].status = "succeeded"
      <3>1. /\ s.row \in DOMAIN rows
            /\ rows[s.row].status # "succeeded" /\ rows[s.row].key \in {0, s.key}
            /\ s.kind = "pay" => \A j \in DOMAIN s.seen :
                 /\ rows[s.row].status = "submitting"
                 /\ j \in DOMAIN rows /\ rows[j].status = "succeeded"
        BY <2>1 DEF IInv, Screen
      <3>2. s.kind = "pay" => \A j \in DOMAIN s.seen : j # i
        BY <1>13, <3>1
      <3> QED BY <1>5, <1>11, <2>1, <3>1, <3>2
    <2>2. /\ i \in DOMAIN rows'
          /\ rows'[i].status # "succeeded" /\ rows'[i].key \in {0, key}
          /\ kind = "pay" => \A j \in DOMAIN q.seen :
               /\ rows'[i].status = "submitting"
               /\ j \in DOMAIN rows' /\ rows'[j].status = "succeeded"
      BY <1>5, <1>7, <1>9, <1>13
    <2>3. \A s, t \in requests : Waiting(s) /\ Waiting(t) /\ t.row = s.row => t = s
      BY DEF IInv, Screen
    <2>4. \A s, t \in requests' : Waiting(s) /\ Waiting(t) /\ t.row = s.row => t = s
      BY <1>3, <1>9, <1>11, <2>3
    <2> QED BY <1>3, <1>9, <1>12, <2>1, <2>2, <2>4 DEF Screen, Waiting
  <1>22. \A p \in PaymentIds : Going(p)' => Going(p) \/ (kind = "refund" /\ p = rows[i].payment)
    BY <1>3, <1>9 DEF Going
  <1>23. ASSUME NEW k \in 1..sent, Holds(k)'
         PROVE  Holds(k)
    <2>1. key = sent + 1 \/ key = rows[i].key
      BY DEF SentFor
    <2>2. CASE \E j \in DOMAIN rows' : rows'[j].key = k
      BY <1>4, <1>5, <1>7, <2>1, <2>2 DEF Holds
    <2>3. CASE \E j \in DOMAIN rows' : rows'[j].payment # 0 /\ payments'[rows'[j].payment].key = k
      BY <1>3, <1>5, <1>7, <2>3 DEF Holds
    <2>4. CASE \E s \in requests' : Waiting(s) /\ s.key = k
      BY <1>3, <1>4, <1>9, <2>1, <2>4 DEF Holds
    <2> QED BY <1>23, <2>2, <2>3, <2>4 DEF Holds, Waiting
  <1>24. \A j \in DOMAIN rows' : RowKept(j)'
    <2> SUFFICES ASSUME NEW j \in DOMAIN rows', j # i PROVE RowKept(j)'
      BY <1>5, <1>7 DEF RowKept
    <2>1. rows'[j] = rows[j] /\ j \in DOMAIN rows /\ RowKept(j) /\ IsRow(rows[j])
      BY <1>5 DEF IInv, Kept, Shape
    <2>2. PICK p : p = rows[j].payment
      OBVIOUS
    <2>3. p # 0 /\ ~Going(p) => ~Going(p)'
      BY <1>13, <1>17, <1>22, <2>1, <2>2 DEF Of
    <2>4. ASSUME NEW b \in PaymentIds, payments[b].key = rows[j].key, rows[j].key # 0, ~Going(b)
          PROVE  ~Going(b)'
      <3>1. kind = "refund" => b # rows[i].payment
        <4> SUFFICES ASSUME kind = "refund", b = rows[i].payment PROVE FALSE
          OBVIOUS
        <4>1. Of(b, i)
          BY <1>13, <1>17
        <4>2. Uses(rows[j].key, j) /\ Uses(rows[j].key, i) /\ rows[j].key \in 1..sent
          BY <2>1, <2>4, <4>1 DEF Uses, Of, IsRow
        <4> QED BY <1>4, <2>1, <4>2 DEF IInv, OneRowPerKey
      <3> QED BY <1>22, <2>4, <3>1
    <2>5. rows'[j].status = "succeeded" /\ ~rows'[j].error =>
            rows'[j].payment # 0 /\ ~Going(rows[j].payment)'
      BY <2>1, <2>2, <2>3 DEF RowKept
    <2>6. rows'[j].status = "succeeded" /\ rows'[j].error => j \in doubts'
      BY <1>3, <2>1 DEF RowKept
    <2>7. rows'[j].status \in {"idle", "failed"} /\ rows'[j].key # 0 =>
            \A b \in PaymentIds' : payments'[b].key = rows'[j].key => ~Going(b)'
      BY <1>3, <1>14, <2>1, <2>4 DEF RowKept, Booked
    <2> QED BY <2>5, <2>6, <2>7 DEF RowKept, Booked
  <1>25. ASSUME NEW s \in requests, s.kind = "pay", s.client # "gone"
         PROVE  RequestKept(s)'
    <2>1. RequestKept(s) /\ IsRequest(s) /\ \A j \in DOMAIN s.seen : s.seen[j] # 0 => Of(s.seen[j], j)
      BY <1>25 DEF IInv, Kept, Shape, Named
    <2>2. Waiting(s) => s.row # i /\ \A j \in DOMAIN s.seen : rows[s.row].status = "submitting" /\ s.row \in DOMAIN rows
      BY <1>11, <1>25 DEF IInv, Screen
    <2>3. Waiting(s) \/ s.client = "orphan"
      BY <1>25, <2>1 DEF IsRequest, Waiting
    <2>4. ASSUME kind = "refund"
          PROVE  rows[i].payment \notin Booked(s.key)
                 /\ \A j \in DOMAIN s.seen : s.seen[j] # rows[i].payment
      <3>1. Of(rows[i].payment, i) /\ Holds(payments[rows[i].payment].key)
        BY <1>13, <1>17, <2>4 DEF Holds
      <3>2. CASE Waiting(s)
        <4>1. Uses(s.key, s.row)
          BY DEF Uses
        <4>2. ASSUME rows[i].payment \in Booked(s.key) PROVE FALSE
          <5>1. Uses(s.key, i)
            BY <3>1, <4>2 DEF Uses, Booked, Of
          <5>2. s.key \in 1..sent /\ s.row \in 1..Guests
            BY <1>4, <1>25, <2>1 DEF IsRequest
          <5>3. i \in 1..Guests
            BY <1>4
          <5> QED BY <5>3, <2>2, <3>2, <4>1, <5>1, <5>2 DEF IInv, OneRowPerKey
        <4>3. DOMAIN s.seen = {}
          BY <1>13, <2>2, <2>4, <3>2
        <4> QED BY <4>2, <4>3
      <3>3. CASE s.client = "orphan"
        BY <1>13, <2>1, <2>4, <3>1, <3>3 DEF RequestKept, Booked
      <3> QED BY <2>3, <3>2, <3>3
    <2>5. \A p \in Booked(s.key)' : ~Going(p)'
      BY <1>3, <1>14, <1>22, <2>1, <2>4 DEF RequestKept, Booked
    <2>6. \A j \in DOMAIN s.seen \ doubts' : s.seen[j] # 0 /\ ~Going(s.seen[j])'
      BY <1>3, <1>22, <2>1, <2>4 DEF RequestKept, Of
    <2>7. ASSUME s.client = "orphan"
          PROVE  /\ ~Holds(s.key)'
                 /\ \A j \in DOMAIN s.seen : s.seen[j] # 0 => ~Holds(payments[s.seen[j]].key)'
      <3>1. ~Holds(s.key)'
        BY <1>4, <1>23, <1>25, <2>1, <2>7 DEF RequestKept, IsRequest
      <3>2. ASSUME NEW j \in DOMAIN s.seen, s.seen[j] # 0
            PROVE  ~Holds(payments[s.seen[j]].key)'
        <4>1. PICK k : k = payments[s.seen[j]].key
          OBVIOUS
        <4>2. k \in 1..sent /\ k = payments'[s.seen[j]].key
          BY <1>3, <2>1, <3>2, <4>1 DEF Of, IInv, Shape, IsPayment
        <4>3. ~Holds(k)'
          BY <1>23, <2>1, <2>7, <3>2, <4>1, <4>2 DEF RequestKept
        <4> QED BY <4>2, <4>3
      <3> QED BY <3>1, <3>2
    <2> QED BY <2>5, <2>6, <2>7 DEF RequestKept
  <1>26. ASSUME kind = "pay"
         PROVE  RequestKept(q)'
    <2>1. \A j \in DOMAIN rows : RowKept(j)
      BY DEF IInv, Kept
    <2>2. \A p \in PaymentIds : Going(p)' => Going(p)
      BY <1>22, <1>26
    <2>3. \A p \in PaymentIds : payments[p].key = key => ~Going(p)
      <3>1. CASE rows[i].key # 0
        BY <1>13, <1>26, <2>1, <3>1 DEF SentFor, RowKept, Booked
      <3>2. CASE rows[i].key = 0
        BY <1>4, <1>26, <3>2 DEF SentFor, IInv, Shape, IsPayment
      <3> QED BY <3>1, <3>2
    <2>4. \A p \in Booked(q.key)' : ~Going(p)'
      BY <1>3, <1>9, <1>14, <2>2, <2>3 DEF Booked
    <2>5. ASSUME NEW j \in DOMAIN q.seen \ doubts'
          PROVE  q.seen[j] # 0 /\ ~Going(q.seen[j])'
      <3>1. /\ j \in DOMAIN rows /\ rows[j].status = "succeeded" /\ j \notin doubts
            /\ q.seen[j] = rows[j].payment /\ IsRow(rows[j])
        BY <1>3, <1>9, <2>5 DEF IInv, Shape
      <3>2. rows[j].payment # 0 /\ ~Going(rows[j].payment)
        BY <2>1, <3>1 DEF RowKept, IsRow
      <3>3. q.seen[j] \in PaymentIds /\ ~Going(q.seen[j])
        BY <1>17, <3>1, <3>2 DEF Of
      <3> QED BY <2>2, <3>1, <3>2, <3>3
    <2> QED BY <1>9, <2>4, <2>5 DEF RequestKept
  <1>27. Kept'
    BY <1>3, <1>9, <1>12, <1>24, <1>25, <1>26 DEF Kept
  <1> QED BY <1>15, <1>18, <1>19, <1>20, <1>21, <1>27 DEF IInv

LEMMA PayRowKeeps ==
  ASSUME IInv, NEW i \in DOMAIN rows, PayRow(i)
  PROVE  IInv'
  <1>1. PICK key : key = IF rows[i].key # 0 THEN rows[i].key ELSE sent + 1
    OBVIOUS
  <1>2. Send("pay", i, key) /\ SentFor("pay", i, key)
    BY <1>1 DEF PayRow, SentFor
  <1> QED BY <1>2, SendKeeps

LEMMA RefundRowKeeps ==
  ASSUME IInv, NEW i \in DOMAIN rows, RefundRow(i)
  PROVE  IInv'
  <1>1. Send("refund", i, rows[i].key) /\ SentFor("refund", i, rows[i].key)
    BY DEF RefundRow, SentFor
  <1> QED BY <1>1, SendKeeps

-----------------------------------------------------------------------------
(* The theorems.                                                           *)

LEMMA InitInv == Init => IInv
  <1> SUFFICES ASSUME Init PROVE IInv
    OBVIOUS
  <1>1. /\ payments = <<>> /\ requests = {} /\ sent = 0 /\ open = FALSE
        /\ rows = <<>> /\ saved = <<>> /\ data = <<>> /\ receipt = <<>>
    BY DEF Init
  <1>2. PaymentIds = {} /\ payments \in Seq({})
    BY <1>1 DEF PaymentIds
  <1>3. DOMAIN rows = {} /\ DOMAIN receipt = {}
    BY <1>1
  <1>4. Shape
    BY <1>1, <1>2, <1>3, NoShares DEF Shape
  <1>5. Named /\ KeyBooksOnce /\ Screen /\ Kept
    BY <1>1, <1>2, <1>3 DEF Named, KeyBooksOnce, Screen, Kept
  <1>6. OneRowPerKey
    BY <1>1 DEF OneRowPerKey
  <1> QED BY <1>4, <1>5, <1>6 DEF IInv

LEMMA NextInv == IInv /\ [Next]_vars => IInv'
  <1> SUFFICES ASSUME IInv, [Next]_vars PROVE IInv'
    OBVIOUS
  <1>1. CASE Open
    BY <1>1, OpenKeeps
  <1>2. CASE FetchArrives
    BY <1>2, FetchArrivesKeeps
  <1>3. CASE Refetch
    BY <1>3, RefetchKeeps
  <1>4. CASE Close \/ CancelSplit
    BY <1>4, CloseKeeps
  <1>5. ASSUME NEW i \in DOMAIN rows,
               \/ PayRow(i) \/ RefundRow(i) \/ MethodChange(i)
               \/ \E amount \in Typed : AmountChange(i, amount)
        PROVE  IInv'
    BY <1>5, PayRowKeeps, RefundRowKeeps, MethodChangeKeeps, AmountChangeKeeps
  <1>6. ASSUME NEW r \in requests, Handle(r) \/ Lost(r)
        PROVE  IInv'
    BY <1>6, LookupKeeps, InsertKeeps, RefundKeeps, LostKeeps DEF Handle
  <1>7. ASSUME NEW r \in requests, Answer(r)
        PROVE  IInv'
    BY <1>7, PayAnsweredKeeps, AllRowsPaidKeeps, PayFailsKeeps, RefundAnsweredKeeps,
       RefundFailsKeeps DEF Answer
  <1>8. CASE UNCHANGED vars
    <2>1. UNCHANGED <<payments, requests, sent, open, rows, saved, data, receipt, doubts>>
      BY <1>8 DEF vars
    <2>2. \A i \in DOMAIN rows' : SameRow(i)
      BY <2>1 DEF SameRow, IInv, Shape
    <2> QED BY <2>1, <2>2, Redrawn DEF IInv, Shape, Screen
  <1> QED BY <1>1, <1>2, <1>3, <1>4, <1>5, <1>6, <1>7, <1>8 DEF Next

LEMMA Invariance == Spec => []IInv
  BY InitInv, NextInv, PTL DEF Spec

(* A row shown as paid has a payment of its own that nobody gave back.     *)
THEOREM PaidRowsAreBooked == Spec => []PaidRowIsBooked
  <1>1. IInv => PaidRowIsBooked
    <2> SUFFICES ASSUME IInv PROVE PaidRowIsBooked
      OBVIOUS
    <2>1. ASSUME NEW i \in DOMAIN rows, rows[i].status = "succeeded", ~rows[i].error
          PROVE  rows[i].payment \in PaymentIds /\ ~payments[rows[i].payment].refunded
      <3>1. rows[i].payment # 0 /\ ~Going(rows[i].payment)
        BY <2>1 DEF IInv, Kept, RowKept
      <3> QED BY <3>1 DEF IInv, Named, Of, Going
    <2>2. ASSUME NEW i \in DOMAIN rows, NEW j \in DOMAIN rows,
                 rows[i].payment # 0, rows[j].payment = rows[i].payment
          PROVE  i = j
      BY <2>2 DEF IInv, Named, Of
    <2> QED BY <2>1, <2>2 DEF PaidRowIsBooked
  <1> QED BY <1>1, Invariance, PTL

(* The receipt names, guest by guest, a payment of its own that was booked *)
(* and not given back, except where the row says that a refund timed out.  *)
THEOREM ReceiptsAreBooked == Spec => []ReceiptIsBooked
  <1>1. IInv => ReceiptIsBooked
    <2> SUFFICES ASSUME IInv, NEW i \in DOMAIN receipt \ doubts
                 PROVE  /\ receipt[i] \in PaymentIds /\ ~payments[receipt[i]].refunded
                        /\ \A j \in DOMAIN receipt : receipt[j] = receipt[i] => j = i
      BY DEF ReceiptIsBooked
    <2>1. receipt[i] # 0 /\ ~Going(receipt[i])
      BY DEF IInv, Kept
    <2>2. \A j \in DOMAIN receipt : receipt[j] # 0 => Of(receipt[j], j)
      BY DEF IInv, Named
    <2> QED BY <2>1, <2>2 DEF Of, Going
  <1> QED BY <1>1, Invariance, PTL

LEMMA SameAmounts ==
  ASSUME NEW rs, DOMAIN rs = DOMAIN rows, \A i \in DOMAIN rows : rs[i].amount = rows[i].amount
  PROVE  Amounts(rs) = Amounts(rows)
  BY DEF Amounts

LEMMA OneRowRewritten ==
  ASSUME NEW rs, NEW i, NEW row, rs = [rows EXCEPT ![i] = row],
         i \in DOMAIN rows => row.amount = rows[i].amount
  PROVE  Amounts(rs) = Amounts(rows)
  <1>1. DOMAIN rs = DOMAIN rows /\ \A j \in DOMAIN rows : rs[j].amount = rows[j].amount
    OBVIOUS
  <1> QED BY <1>1, SameAmounts

(* Which steps leave every amount as it is, once a row has settled.        *)
LEMMA AmountsStay ==
  ASSUME IInv, AnySettled(rows), rows' # <<>>,
         \/ Open \/ FetchArrives \/ Refetch \/ Close \/ CancelSplit
         \/ \E i \in DOMAIN rows : PayRow(i) \/ RefundRow(i) \/ MethodChange(i)
         \/ \E r \in requests : Handle(r) \/ Answer(r) \/ Lost(r)
         \/ UNCHANGED rows
  PROVE  Amounts(rows') = Amounts(rows)
  <1>1. open /\ \A i \in DOMAIN rows : IsRow(rows[i])
    BY DEF IInv, Screen, Shape, AnySettled
  <1>2. CASE Open \/ Close \/ CancelSplit
    BY <1>1, <1>2 DEF Open, Close, CancelSplit, Unmount
  <1>3. CASE FetchArrives \/ Refetch \/ UNCHANGED rows
    BY <1>3 DEF FetchArrives, Refetch, Hydrated, Show
  <1>4. ASSUME NEW i \in DOMAIN rows, MethodChange(i)
        PROVE  Amounts(rows') = Amounts(rows)
    <2>1. PICK row : row = [rows[i] EXCEPT !.key = 0, !.error = FALSE]
      OBVIOUS
    <2>2. rows' = [rows EXCEPT ![i] = row] /\ row.amount = rows[i].amount
      BY <1>1, <1>4, <2>1 DEF MethodChange, Show, IsRow
    <2> QED BY <2>2, OneRowRewritten
  <1>5. ASSUME NEW i \in DOMAIN rows, NEW kind, NEW key, Send(kind, i, key)
        PROVE  Amounts(rows') = Amounts(rows)
    <2>1. PICK row : row = [rows[i] EXCEPT !.status = "submitting", !.error = FALSE, !.key = key]
      OBVIOUS
    <2>2. rows' = [rows EXCEPT ![i] = row] /\ row.amount = rows[i].amount
      BY <1>1, <1>5, <2>1 DEF Send, Show, IsRow
    <2> QED BY <2>2, OneRowRewritten
  <1>6. ASSUME NEW r \in requests, Handle(r) \/ Lost(r)
        PROVE  Amounts(rows') = Amounts(rows)
    BY <1>6 DEF Handle, Lookup, Insert, Refund, Lost, screen
  <1>7. ASSUME NEW r \in requests, NEW row, Patch(r, row),
               r.row \in DOMAIN rows => row.amount = rows[r.row].amount
        PROVE  Amounts(rows') = Amounts(rows)
    <2>1. rows' = rows \/ rows' = [rows EXCEPT ![r.row] = row]
      BY <1>7 DEF Patch, Show
    <2> QED BY <1>7, <2>1, OneRowRewritten
  <1>8. ASSUME NEW r \in requests, PayAnswered(r)
        PROVE  Amounts(rows') = Amounts(rows)
    <2>1. PICK row : row = [rows[r.row] EXCEPT !.status = "succeeded", !.error = FALSE,
                                               !.payment = r.payment]
      OBVIOUS
    <2>2. Patch(r, row) /\ (r.row \in DOMAIN rows => row.amount = rows[r.row].amount)
      BY <1>1, <1>8, <2>1 DEF PayAnswered, IsRow
    <2> QED BY <1>7, <2>2
  <1>9. ASSUME NEW r \in requests, PayFails(r)
        PROVE  Amounts(rows') = Amounts(rows)
    <2>1. PICK row : row = [rows[r.row] EXCEPT !.status = "failed", !.error = TRUE]
      OBVIOUS
    <2>2. Patch(r, row) /\ (r.row \in DOMAIN rows => row.amount = rows[r.row].amount)
      BY <1>1, <1>9, <2>1 DEF PayFails, IsRow
    <2> QED BY <1>7, <2>2
  <1>10. ASSUME NEW r \in requests, RefundAnswered(r)
         PROVE  Amounts(rows') = Amounts(rows)
    <2>1. PICK row : row = IdleRow(rows[r.row].amount)
      OBVIOUS
    <2>2. Patch(r, row) /\ row.amount = rows[r.row].amount
      BY <1>10, <2>1 DEF RefundAnswered, IdleRow
    <2> QED BY <1>7, <2>2
  <1>11. ASSUME NEW r \in requests, RefundFails(r)
         PROVE  Amounts(rows') = Amounts(rows)
    <2>1. PICK row : row = [rows[r.row] EXCEPT !.status = "succeeded", !.error = TRUE]
      OBVIOUS
    <2>2. Patch(r, row) /\ (r.row \in DOMAIN rows => row.amount = rows[r.row].amount)
      BY <1>1, <1>11, <2>1 DEF RefundFails, IsRow
    <2> QED BY <1>7, <2>2
  <1>12. ASSUME NEW r \in requests, AllRowsPaid(r)
         PROVE  FALSE
    BY <1>12 DEF AllRowsPaid, Unmount
  <1>13. ASSUME NEW r \in requests, Answer(r)
         PROVE  Amounts(rows') = Amounts(rows)
    BY <1>8, <1>9, <1>10, <1>11, <1>12, <1>13 DEF Answer
  <1>14. ASSUME NEW i \in DOMAIN rows, PayRow(i) \/ RefundRow(i)
         PROVE  Amounts(rows') = Amounts(rows)
    BY <1>5, <1>14 DEF PayRow, RefundRow
  <1> QED BY <1>2, <1>3, <1>4, <1>6, <1>13, <1>14

(* Once a row has settled, the amounts announced to the other guests       *)
(* change by the cashier's hand only, whatever the calculator answers.     *)
THEOREM AmountsAreFrozen == Spec => AnnouncedAmountsHold
  <1>1. IInv /\ [Next]_vars =>
          [AnySettled(rows) /\ rows' # <<>> /\ Amounts(rows') # Amounts(rows)
             => \E i \in DOMAIN rows, amount \in Typed : AmountChange(i, amount)]_vars
    <2> SUFFICES ASSUME IInv, [Next]_vars, AnySettled(rows), rows' # <<>>,
                        Amounts(rows') # Amounts(rows)
                 PROVE  \E i \in DOMAIN rows, amount \in Typed : AmountChange(i, amount)
      OBVIOUS
    <2>1. Next
      BY AmountsStay DEF vars
    <2> QED BY <2>1, AmountsStay DEF Next
  <1> QED BY <1>1, Invariance, PTL DEF Spec, AnnouncedAmountsHold
-----------------------------------------------------------------------------
(* What is asked for under a key: the amount of a payment, of a request or *)
(* of a row that has the key.  A step that sends no request adds nothing   *)
(* to it, and a request is sent for the amount its row shows, under that   *)
(* row's key or one that nobody has.                                       *)

Asks(k, a) ==
  \/ \E p \in PaymentIds : payments[p].key = k /\ payments[p].amount = a
  \/ \E r \in requests : r.key = k /\ r.amount = a
  \/ \E i \in DOMAIN rows : rows[i].key = k /\ rows[i].amount = a

OneAmountPerKey == \A k \in 1..sent : \A a, b : Asks(k, a) /\ Asks(k, b) => a = b

SameAsk(b, r) == b.key = r.key /\ b.amount = r.amount

PaymentsAskTheSame ==
  \A p \in PaymentIds' : \/ p \in PaymentIds /\ SameAsk(payments'[p], payments[p])
                         \/ \E q \in requests : SameAsk(payments'[p], q)
RequestsAskTheSame == \A r \in requests' : \E q \in requests : SameAsk(r, q)
RowAsksTheSame(i) == rows'[i].key = 0 \/ (i \in DOMAIN rows /\ SameAsk(rows'[i], rows[i]))
RowsAskTheSame == \A i \in DOMAIN rows' : RowAsksTheSame(i)

LEMMA AsksStep ==
  ASSUME IInv, OneAmountPerKey, sent' = sent,
         PaymentsAskTheSame, RequestsAskTheSame, RowsAskTheSame
  PROVE  OneAmountPerKey'
  <1>1. ASSUME NEW k \in 1..sent, NEW a, Asks(k, a)'
        PROVE  Asks(k, a)
    <2>1. CASE \E p \in PaymentIds' : payments'[p].key = k /\ payments'[p].amount = a
      BY <2>1 DEF PaymentsAskTheSame, SameAsk, Asks
    <2>2. CASE \E r \in requests' : r.key = k /\ r.amount = a
      BY <2>2 DEF RequestsAskTheSame, SameAsk, Asks
    <2>3. CASE \E i \in DOMAIN rows' : rows'[i].key = k /\ rows'[i].amount = a
      <3>1. k # 0
        BY DEF IInv, Shape
      <3> QED BY <2>3, <3>1 DEF RowsAskTheSame, RowAsksTheSame, SameAsk, Asks
    <2> QED BY <1>1, <2>1, <2>2, <2>3 DEF Asks
  <1> QED BY <1>1 DEF OneAmountPerKey

LEMMA SendAsks ==
  ASSUME IInv, OneAmountPerKey, NEW i \in DOMAIN rows, NEW kind, NEW key,
         key = rows[i].key \/ key = sent + 1, Send(kind, i, key)
  PROVE  OneAmountPerKey'
  <1>8. PICK q : q = [number |-> sent + 1, kind |-> kind, row |-> i, key |-> key,
                      amount |-> rows[i].amount, payment |-> rows[i].payment, at |-> "sent",
                      client |-> "waiting",
                      seen |-> [j \in {k \in DOMAIN rows : rows[k].status = "succeeded"}
                                  |-> rows[j].payment]]
    OBVIOUS
  <1>1. requests' = requests \cup {q} /\ q.key = key /\ q.amount = rows[i].amount
    BY <1>8 DEF Send
  <1>2. PICK row : row = [rows[i] EXCEPT !.status = "submitting", !.error = FALSE, !.key = key]
    OBVIOUS
  <1>3. /\ sent \in Nat /\ sent' = sent + 1 /\ PaymentIds' = PaymentIds
        /\ rows' = [rows EXCEPT ![i] = row] /\ payments' = payments
        /\ row.key = key /\ row.amount = rows[i].amount
    BY <1>2 DEF Send, Show, IInv, Shape, IsRow, PaymentIds
  <1>4. ASSUME NEW k, NEW a, Asks(k, a)'
        PROVE  Asks(k, a) \/ (k = key /\ a = rows[i].amount)
    BY <1>1, <1>3, <1>4 DEF Asks
  <1>5. \A a : ~Asks(sent + 1, a)
    BY <1>3 DEF Asks, IInv, Shape, IsPayment, IsRequest, IsRow
  <1>6. key = rows[i].key => Asks(key, rows[i].amount)
    BY DEF Asks
  <1>7. ASSUME NEW k \in 1..sent', NEW a, NEW b, Asks(k, a)', Asks(k, b)'
        PROVE  a = b
    <2>1. /\ Asks(k, a) \/ (k = key /\ a = rows[i].amount)
          /\ Asks(k, b) \/ (k = key /\ b = rows[i].amount)
      BY <1>4, <1>7
    <2>2. CASE k = sent + 1
      BY <1>5, <2>1, <2>2
    <2>3. CASE k \in 1..sent
      <3>1. k = key => key = rows[i].key
        BY <1>3, <2>3
      <3>2. k = key => Asks(k, rows[i].amount)
        BY <1>6, <3>1
      <3> QED BY <2>1, <2>3, <3>2 DEF OneAmountPerKey
    <2> QED BY <1>3, <1>7, <2>2, <2>3
  <1> QED BY <1>7 DEF OneAmountPerKey

LEMMA RowRewrittenAsks ==
  ASSUME NEW i, NEW row, rows' = [rows EXCEPT ![i] = row],
         i \in DOMAIN rows => row.key = 0 \/ SameAsk(row, rows[i])
  PROVE  RowsAskTheSame
  <1>1. DOMAIN rows' = DOMAIN rows
    OBVIOUS
  <1>2. \A j \in DOMAIN rows : rows'[j] = IF j = i THEN row ELSE rows[j]
    OBVIOUS
  <1> QED BY <1>1, <1>2 DEF RowsAskTheSame, RowAsksTheSame, SameAsk

LEMMA IdleRowsAsk ==
  ASSUME NEW shares, rows' = IdleRows(shares)
  PROVE  RowsAskTheSame
  BY DEF IdleRows, IdleRow, RowsAskTheSame, RowAsksTheSame

(* The rows after a step that sends nothing. *)
LEMMA RowsAsk ==
  ASSUME IInv,
         \/ Open \/ FetchArrives \/ Refetch \/ Close \/ CancelSplit
         \/ \E i \in DOMAIN rows : \/ MethodChange(i)
                                  \/ \E amount \in Typed : AmountChange(i, amount)
         \/ \E r \in requests : Handle(r) \/ Answer(r) \/ Lost(r)
         \/ UNCHANGED rows
  PROVE  RowsAskTheSame
  <1>1. \A i \in DOMAIN rows : IsRow(rows[i])
    BY DEF IInv, Shape
  <1>2. CASE rows' = rows \/ rows' = <<>>
    BY <1>2 DEF RowsAskTheSame, RowAsksTheSame, SameAsk
  <1>3. CASE Open
    BY <1>3, IdleRowsAsk DEF Open, Show
  <1>4. CASE FetchArrives \/ Refetch
    <2>1. rows' = rows \/ rows' = IdleRows(data')
      BY <1>4 DEF FetchArrives, Refetch, Hydrated, Show
    <2> QED BY <1>2, <2>1, IdleRowsAsk
  <1>5. CASE Close \/ CancelSplit
    BY <1>2, <1>5 DEF Close, CancelSplit, Unmount
  <1>6. ASSUME NEW i \in DOMAIN rows, MethodChange(i)
        PROVE  RowsAskTheSame
    <2>1. PICK row : row = [rows[i] EXCEPT !.key = 0, !.error = FALSE]
      OBVIOUS
    <2>2. rows' = [rows EXCEPT ![i] = row] /\ row.key = 0
      BY <1>1, <1>6, <2>1 DEF MethodChange, Show, IsRow
    <2> QED BY <2>2, RowRewrittenAsks
  <1>7. ASSUME NEW i \in DOMAIN rows, NEW amount, AmountChange(i, amount)
        PROVE  RowsAskTheSame
    <2>1. PICK amounts : amounts = Redistributed(i, amount)
      OBVIOUS
    <2>2. rows' = [j \in DOMAIN rows |->
                     IF Locked(rows[j]) THEN rows[j]
                     ELSE [rows[j] EXCEPT !.amount = amounts[j], !.key = 0, !.error = FALSE]]
      BY <1>7, <2>1 DEF AmountChange, Show
    <2>3. \A j \in DOMAIN rows' : j \in DOMAIN rows /\ (rows'[j] = rows[j] \/ rows'[j].key = 0)
      BY <1>1, <2>2 DEF IsRow
    <2> QED BY <2>3 DEF RowsAskTheSame, RowAsksTheSame, SameAsk
  <1>8. ASSUME NEW r \in requests, Handle(r) \/ Lost(r)
        PROVE  RowsAskTheSame
    BY <1>2, <1>8 DEF Handle, Lookup, Insert, Refund, Lost, screen
  <1>9. ASSUME NEW r \in requests, NEW row, Patch(r, row),
               r.row \in DOMAIN rows => row.key = 0 \/ SameAsk(row, rows[r.row])
        PROVE  RowsAskTheSame
    <2>1. rows' = rows \/ rows' = [rows EXCEPT ![r.row] = row]
      BY <1>9 DEF Patch, Show
    <2> QED BY <1>2, <1>9, <2>1, RowRewrittenAsks
  <1>10. ASSUME NEW r \in requests, PayAnswered(r)
         PROVE  RowsAskTheSame
    <2>1. PICK row : row = [rows[r.row] EXCEPT !.status = "succeeded", !.error = FALSE,
                                               !.payment = r.payment]
      OBVIOUS
    <2>2. Patch(r, row) /\ (r.row \in DOMAIN rows => SameAsk(row, rows[r.row]))
      BY <1>1, <1>10, <2>1 DEF PayAnswered, IsRow, SameAsk
    <2> QED BY <1>9, <2>2
  <1>11. ASSUME NEW r \in requests, PayFails(r)
         PROVE  RowsAskTheSame
    <2>1. PICK row : row = [rows[r.row] EXCEPT !.status = "failed", !.error = TRUE]
      OBVIOUS
    <2>2. Patch(r, row) /\ (r.row \in DOMAIN rows => SameAsk(row, rows[r.row]))
      BY <1>1, <1>11, <2>1 DEF PayFails, IsRow, SameAsk
    <2> QED BY <1>9, <2>2
  <1>12. ASSUME NEW r \in requests, RefundAnswered(r)
         PROVE  RowsAskTheSame
    <2>1. PICK row : row = IdleRow(rows[r.row].amount)
      OBVIOUS
    <2>2. Patch(r, row) /\ row.key = 0
      BY <1>12, <2>1 DEF RefundAnswered, IdleRow
    <2> QED BY <1>9, <2>2
  <1>13. ASSUME NEW r \in requests, RefundFails(r)
         PROVE  RowsAskTheSame
    <2>1. PICK row : row = [rows[r.row] EXCEPT !.status = "succeeded", !.error = TRUE]
      OBVIOUS
    <2>2. Patch(r, row) /\ (r.row \in DOMAIN rows => SameAsk(row, rows[r.row]))
      BY <1>1, <1>13, <2>1 DEF RefundFails, IsRow, SameAsk
    <2> QED BY <1>9, <2>2
  <1>14. ASSUME NEW r \in requests, AllRowsPaid(r)
         PROVE  RowsAskTheSame
    BY <1>2, <1>14 DEF AllRowsPaid, Unmount
  <1>15. ASSUME NEW r \in requests, Answer(r)
         PROVE  RowsAskTheSame
    BY <1>10, <1>11, <1>12, <1>13, <1>14, <1>15 DEF Answer
  <1> QED BY <1>2, <1>3, <1>4, <1>5, <1>6, <1>7, <1>8, <1>15

(* The requests after such a step. *)
LEMMA RequestsAsk ==
  ASSUME IInv, requests' # requests,
         \/ Close \/ CancelSplit \/ \E r \in requests : Handle(r) \/ Answer(r) \/ Lost(r)
  PROVE  RequestsAskTheSame
  <1>1. \A q \in requests : IsRequest(q)
    BY DEF IInv, Shape
  <1>2. ASSUME NEW R, R \subseteq requests, requests' = Orphaned(R)
        PROVE  RequestsAskTheSame
    BY <1>1, <1>2 DEF Orphaned, IsRequest, RequestsAskTheSame, SameAsk
  <1>3. ASSUME requests' \subseteq requests
        PROVE  RequestsAskTheSame
    BY <1>3 DEF RequestsAskTheSame, SameAsk
  <1>4. ASSUME NEW r \in requests, NEW new, Update(r, new), SameAsk(new, r)
        PROVE  RequestsAskTheSame
    <2>1. \A s \in requests' : s \in requests \/ s = new
      BY <1>4, Updated
    <2> QED BY <1>4, <2>1 DEF RequestsAskTheSame, SameAsk
  <1>5. ASSUME NEW r \in requests, NEW new, Update(r, new),
               \/ \E at : new = [r EXCEPT !.at = at]
               \/ \E p : new = [r EXCEPT !.at = "done", !.payment = p]
               \/ new = [r EXCEPT !.client = "gone"]
        PROVE  RequestsAskTheSame
    <2>1. SameAsk(new, r)
      BY <1>1, <1>5 DEF IsRequest, SameAsk
    <2> QED BY <1>4, <1>5, <2>1
  <1>6. CASE Close \/ CancelSplit
    BY <1>2, <1>6 DEF Close, CancelSplit
  <1>7. ASSUME NEW r \in requests, Handle(r)
        PROVE  RequestsAskTheSame
    <2>1. \E new : /\ Update(r, new)
                   /\ \/ \E at : new = [r EXCEPT !.at = at]
                      \/ \E p : new = [r EXCEPT !.at = "done", !.payment = p]
      BY <1>7 DEF Handle, Lookup, Insert, Refund
    <2> QED BY <1>5, <2>1
  <1>8. ASSUME NEW r \in requests, PayFails(r) \/ RefundFails(r)
        PROVE  RequestsAskTheSame
    <2>1. Update(r, [r EXCEPT !.client = "gone"])
      BY <1>8 DEF PayFails, RefundFails
    <2> QED BY <1>5, <2>1
  <1>9. ASSUME NEW r \in requests, PayAnswered(r) \/ RefundAnswered(r) \/ Lost(r)
        PROVE  RequestsAskTheSame
    BY <1>3, <1>9 DEF PayAnswered, RefundAnswered, Lost
  <1>10. ASSUME NEW r \in requests, AllRowsPaid(r)
         PROVE  RequestsAskTheSame
    <2>1. requests \ {r} \subseteq requests
      OBVIOUS
    <2> QED BY <1>2, <1>10, <2>1 DEF AllRowsPaid
  <1> QED BY <1>6, <1>7, <1>8, <1>9, <1>10 DEF Answer

(* The payments after any step. *)
LEMMA PaymentsAsk ==
  ASSUME IInv, [Next]_vars
  PROVE  PaymentsAskTheSame
  <1>1. ASSUME NEW r \in requests, Insert(r), payments' # payments
        PROVE  PaymentsAskTheSame
    <2>1. PICK b : b = [key |-> r.key, amount |-> r.amount, row |-> r.row, refunded |-> FALSE]
      OBVIOUS
    <2>2. payments' = Append(payments, b) /\ SameAsk(b, r)
      BY <1>1, <2>1 DEF Insert, SameAsk
    <2> QED BY <2>2, PaymentBooked DEF IInv, PaymentsAskTheSame, SameAsk
  <1>2. ASSUME NEW r \in requests, Refund(r), payments' # payments
        PROVE  PaymentsAskTheSame
    <2>1. /\ r.payment \in PaymentIds
          /\ payments' = [payments EXCEPT ![r.payment].refunded = TRUE]
      BY <1>2 DEF Refund, IInv, Named, Of
    <2> QED BY <2>1, PaymentGivenBack DEF IInv, PaymentsAskTheSame, SameAsk
  <1>3. CASE payments' = payments
    BY <1>3 DEF PaymentsAskTheSame, SameAsk, PaymentIds
  <1>4. ASSUME Next, \A r \in requests : ~Insert(r) /\ ~Refund(r)
        PROVE  UNCHANGED payments
    BY <1>4 DEF Next, Open, FetchArrives, Refetch, Close, CancelSplit, PayRow, RefundRow, Send,
       MethodChange, AmountChange, Handle, Lookup, Lost, Answer, PayAnswered, AllRowsPaid,
       PayFails, RefundAnswered, RefundFails
  <1> QED BY <1>1, <1>2, <1>3, <1>4 DEF vars

LEMMA AsksNext ==
  ASSUME IInv, OneAmountPerKey, [Next]_vars
  PROVE  OneAmountPerKey'
  <1>1. ASSUME NEW i \in DOMAIN rows, PayRow(i) \/ RefundRow(i)
        PROVE  OneAmountPerKey'
    <2>1. PICK kind, key : /\ Send(kind, i, key)
                           /\ key = rows[i].key \/ key = sent + 1
      BY <1>1 DEF PayRow, RefundRow
    <2> QED BY <2>1, SendAsks
  <1>2. ASSUME ~\E i \in DOMAIN rows : PayRow(i) \/ RefundRow(i)
        PROVE  OneAmountPerKey'
    <2>1. RowsAskTheSame
      BY <1>2, RowsAsk DEF Next, vars
    <2>2. RequestsAskTheSame
      <3>1. CASE requests' = requests
        BY <3>1 DEF RequestsAskTheSame, SameAsk
      <3>2. CASE requests' # requests
        BY <1>2, <3>2, RequestsAsk
          DEF Next, vars, Open, FetchArrives, Refetch, MethodChange, AmountChange
      <3> QED BY <3>1, <3>2
    <2>3. sent' = sent
      BY <1>2 DEF Next, vars, Open, FetchArrives, Refetch, Close, CancelSplit, MethodChange,
         AmountChange, Handle, Lookup, Insert, Refund, Lost, Answer, PayAnswered, AllRowsPaid,
         PayFails, RefundAnswered, RefundFails
    <2> QED BY <2>1, <2>2, <2>3, PaymentsAsk, AsksStep
  <1> QED BY <1>1, <1>2

(* Whatever is booked under a key, the requests out under it and the row   *)
(* that would be retried with it ask for the same guest and amount: the    *)
(* payment a replay is answered with is the one the cashier asked for.     *)
THEOREM RetriesAskTheSame == Spec => []RetryAsksTheSame
  <1>1. Init => OneAmountPerKey
    BY DEF Init, OneAmountPerKey, Asks, PaymentIds
  <1>2. IInv /\ OneAmountPerKey => RetryAsksTheSame
    <2> SUFFICES ASSUME IInv, OneAmountPerKey, NEW p \in PaymentIds
                 PROVE  /\ \A r \in requests : r.key = payments[p].key =>
                             r.row = payments[p].row /\ r.amount = payments[p].amount
                        /\ \A i \in DOMAIN rows : rows[i].key = payments[p].key =>
                             i = payments[p].row /\ rows[i].amount = payments[p].amount
      BY DEF RetryAsksTheSame
    <2>1. PICK k : k = payments[p].key
      OBVIOUS
    <2>2. /\ k \in 1..sent /\ payments[p].row \in 1..Guests
          /\ Uses(k, payments[p].row) /\ Asks(k, payments[p].amount)
      BY <2>1 DEF IInv, Shape, IsPayment, Uses, Asks
    <2>3. ASSUME NEW r \in requests, r.key = k
          PROVE  r.row = payments[p].row /\ r.amount = payments[p].amount
      <3>1. Uses(k, r.row) /\ Asks(k, r.amount) /\ r.row \in 1..Guests
        BY <2>3 DEF Uses, Asks, IInv, Shape, IsRequest
      <3> QED BY <2>2, <3>1 DEF IInv, OneRowPerKey, OneAmountPerKey
    <2>4. ASSUME NEW i \in DOMAIN rows, rows[i].key = k
          PROVE  i = payments[p].row /\ rows[i].amount = payments[p].amount
      <3>1. Uses(k, i) /\ Asks(k, rows[i].amount) /\ i \in 1..Guests
        BY <2>4 DEF Uses, Asks, IInv, Shape, Shares
      <3> QED BY <2>2, <3>1 DEF IInv, OneRowPerKey, OneAmountPerKey
    <2> QED BY <2>1, <2>3, <2>4
  <1> QED BY <1>1, <1>2, AsksNext, Invariance, PTL DEF Spec

-----------------------------------------------------------------------------
(* The type invariant: what is captured is a sum of naturals (SumFacts),   *)
(* so what remains, what each guest is asked for and what the other rows   *)
(* get when one is retyped are naturals as well.                           *)

Payment == [key : 1..MaxRequests, amount : 1..Total, row : 1..Guests, refunded : BOOLEAN]
SharesTyped(shares) == shares = <<>> \/ shares \in [1..Guests -> Nat]
RowsTyped(rs) == rs = <<>> \/ rs \in [1..Guests -> RowState]

(* The workstation only clears for the insert what the total has room for. *)
Sized(r) ==
  /\ r.number \in 1..sent /\ r.amount \in Nat
  /\ r.kind = "pay" => r.amount > 0
  /\ r.at = "checked" => r.amount <= Total

Sizes == TypeOK /\ \A r \in requests : Sized(r)

LEMMA ShareTyped ==
  ASSUME NEW left \in Nat, NEW n \in Nat \ {0}
  PROVE  left \div n \in Nat /\ left % n \in Nat /\ left - (left \div n) * (n - 1) \in Nat
  <1>1. left \div n \in Nat /\ left % n \in Nat
    OBVIOUS
  <1>2. left - (left \div n) * (n - 1) \in Nat
    BY SMTT(30)
  <1> QED BY <1>1, <1>2

LEMMA CapturedIsNat ==
  ASSUME TypeOK
  PROVE  Captured \in Nat
  <1> DEFINE S == {q \in PaymentIds : ~payments[q].refunded}
             f == [p \in S |-> payments[p].amount]
  <1>1. Len(payments) \in Nat /\ payments \in [PaymentIds -> Payment]
    BY LenProperties DEF TypeOK, Payment, PaymentIds
  <1>2. IsFiniteSet(S)
    <2>1. IsFiniteSet(PaymentIds) /\ S \subseteq PaymentIds
      BY <1>1, FS_Interval DEF PaymentIds
    <2> HIDE DEF S
    <2> QED BY <2>1, FS_Subset
  <1>3. \A p \in S : f[p] \in Nat
    BY <1>1 DEF Payment
  <1>4. Captured = SumFunctionOnSet(f, S)
    BY DEF Captured, SumFunction
  <1> HIDE DEF f, S
  <1> QED BY <1>2, <1>3, <1>4, SumIsNat

LEMMA SharesAreNat ==
  ASSUME TypeOK
  PROVE  PerPersonAmounts \in [1..Guests -> Nat]
  <1>1. Remaining \in Nat /\ Guests \in Nat \ {0}
    BY CapturedIsNat, SplitBillAssumption DEF Remaining
  <1>2. Remaining \div Guests \in Nat /\ Remaining % Guests \in Nat
    BY <1>1, ShareTyped
  <1> QED BY <1>2 DEF PerPersonAmounts

LEMMA RetypedIsNat ==
  ASSUME TypeOK, rows # <<>>, NEW i \in DOMAIN rows, NEW amount \in Nat
  PROVE  Redistributed(i, amount) \in [1..Guests -> Nat]
  <1> DEFINE S == {k \in DOMAIN rows \ {i} : Locked(rows[k])}
             f == [j \in S |-> rows[j].amount]
             fixed == SumFunction(f)
             left  == IF amount + fixed < Total THEN Total - amount - fixed ELSE 0
             n     == Cardinality(Others(i))
             last(j) == \A k \in Others(i) : k <= j
  <1>1. /\ rows \in [1..Guests -> RowState] /\ Guests \in Nat /\ Total \in Nat
        /\ IsFiniteSet(DOMAIN rows)
    BY SplitBillAssumption, FS_Interval DEF TypeOK
  <1>2. fixed \in Nat
    <2>1. IsFiniteSet(S) /\ \A j \in S : f[j] \in Nat
      BY <1>1, FS_Subset DEF RowState
    <2>2. fixed = SumFunctionOnSet(f, S)
      BY DEF SumFunction
    <2> HIDE DEF f, S, fixed
    <2> QED BY <2>1, <2>2, SumIsNat
  <1>3. left \in Nat
    <2> HIDE DEF fixed
    <2> QED BY <1>1, <1>2
  <1>4. ASSUME NEW j \in Others(i)
        PROVE  left \div n \in Nat /\ left - (left \div n) * (n - 1) \in Nat
    <2>1. IsFiniteSet(Others(i)) /\ Others(i) # {}
      BY <1>1, <1>4, FS_Subset DEF Others
    <2>2. n \in Nat \ {0}
      BY <2>1, FS_CardinalityType, FS_EmptySet
    <2> HIDE DEF left, n
    <2> QED BY <1>3, <2>2, ShareTyped
  <1>5. \A j \in DOMAIN rows : rows[j].amount \in Nat
    BY <1>1 DEF RowState
  <1>6. Redistributed(i, amount) =
          [j \in DOMAIN rows |->
             CASE j = i -> amount
               [] j \in Others(i) -> IF last(j) THEN left - (left \div n) * (n - 1) ELSE left \div n
               [] OTHER -> rows[j].amount]
    BY DEF Redistributed
  <1> HIDE DEF left, n, last
  <1>7. ASSUME NEW j \in DOMAIN rows PROVE Redistributed(i, amount)[j] \in Nat
    <2>1. CASE j = i
      <3>1. Redistributed(i, amount)[j] =
              CASE j = i -> amount
                [] j \in Others(i) -> IF last(j) THEN left - (left \div n) * (n - 1) ELSE left \div n
                [] OTHER -> rows[j].amount
        BY <1>6
      <3>2. j \notin Others(i)
        BY <2>1 DEF Others
      <3> QED BY <2>1, <3>1, <3>2
    <2>2. CASE j # i /\ j \in Others(i)
      BY <1>4, <1>6, <2>2
    <2>3. CASE j # i /\ j \notin Others(i)
      BY <1>5, <1>6, <2>3
    <2> QED BY <2>1, <2>2, <2>3
  <1> QED BY <1>1, <1>6, <1>7

(* The rows that are shown are rows, and are saved as amounts. *)
LEMMA ShownTyped ==
  ASSUME TypeOK, NEW rs, RowsTyped(rs), Show(rs)
  PROVE  RowsTyped(rows') /\ SharesTyped(saved')
  <1>1. CASE rs = <<>>
    BY <1>1 DEF Show, TypeOK, RowsTyped, SharesTyped
  <1>2. CASE rs # <<>>
    <2>1. rs \in [1..Guests -> RowState] /\ Amounts(rs) \in [1..Guests -> Nat]
      BY <1>2 DEF RowsTyped, Amounts, RowState
    <2> QED BY <1>2, <2>1 DEF Show, RowsTyped, SharesTyped
  <1> QED BY <1>1, <1>2

LEMMA IdleRowsTyped ==
  ASSUME TypeOK, NEW shares, SharesTyped(shares)
  PROVE  RowsTyped(IdleRows(shares))
  <1>1. 0 \in 0..MaxRequests
    BY SplitBillAssumption
  <1>2. \A amount \in Nat : IdleRow(amount) \in RowState
    BY <1>1 DEF IdleRow, RowState
  <1>3. CASE shares = <<>>
    <2>1. IdleRows(shares) = <<>>
      BY <1>3 DEF IdleRows
    <2> QED BY <2>1 DEF RowsTyped
  <1>4. CASE shares \in [1..Guests -> Nat]
    BY <1>2, <1>4 DEF IdleRows, RowsTyped
  <1> QED BY <1>3, <1>4 DEF SharesTyped

LEMMA OneRowTyped ==
  ASSUME TypeOK, NEW i, NEW row, rows # <<>> /\ i \in DOMAIN rows => row \in RowState
  PROVE  RowsTyped([rows EXCEPT ![i] = row])
  <1>1. CASE rows = <<>>
    BY <1>1 DEF RowsTyped
  <1>2. CASE rows \in [1..Guests -> RowState] /\ rows # <<>>
    BY <1>2 DEF RowsTyped
  <1> QED BY <1>1, <1>2 DEF TypeOK

LEMMA PatchTyped ==
  ASSUME TypeOK, NEW r, NEW row, rows # <<>> /\ r.row \in DOMAIN rows => row \in RowState,
         Patch(r, row)
  PROVE  RowsTyped(rows') /\ SharesTyped(saved')
  <1>1. RowsTyped([rows EXCEPT ![r.row] = row])
    BY OneRowTyped
  <1>2. CASE r.client = "waiting"
    BY <1>1, <1>2, ShownTyped DEF Patch
  <1>3. CASE r.client # "waiting"
    BY <1>3 DEF Patch, TypeOK, RowsTyped, SharesTyped
  <1> QED BY <1>2, <1>3

(* The screen after every step. *)
LEMMA ScreenTyped ==
  ASSUME IInv, TypeOK, [Next]_vars
  PROVE  RowsTyped(rows') /\ SharesTyped(saved') /\ SharesTyped(data')
  <1>1. RowsTyped(rows) /\ SharesTyped(saved) /\ SharesTyped(data)
    BY DEF TypeOK, RowsTyped, SharesTyped
  <1>2. /\ \A i \in DOMAIN rows : rows # <<>> /\ rows[i] \in RowState
        /\ rows # <<>> => rows \in [1..Guests -> RowState]
    <2>1. CASE rows = <<>>
      BY <2>1
    <2>2. CASE rows # <<>>
      BY <2>2 DEF TypeOK
    <2> QED BY <2>1, <2>2
  <1>3. CASE Open
    <2>1. SharesTyped(IF saved # <<>> THEN saved ELSE data)
      BY <1>1
    <2> QED BY <1>1, <1>3, <2>1, IdleRowsTyped, ShownTyped DEF Open
  <1>4. CASE FetchArrives
    <2>1. SharesTyped(data')
      BY <1>4, SharesAreNat DEF FetchArrives, SharesTyped
    <2>2. RowsTyped(Hydrated(data'))
      BY <1>1, <2>1, IdleRowsTyped DEF Hydrated
    <2> QED BY <1>1, <1>4, <2>1, <2>2, ShownTyped DEF FetchArrives
  <1>5. CASE Refetch
    BY <1>1, <1>5 DEF Refetch
  <1>6. CASE Close \/ CancelSplit
    BY <1>1, <1>6 DEF Close, CancelSplit, Unmount, RowsTyped, SharesTyped
  <1>7. ASSUME NEW i \in DOMAIN rows, NEW amount \in Typed, AmountChange(i, amount)
        PROVE  RowsTyped(rows') /\ SharesTyped(saved') /\ data' = data
    <2>1. PICK amounts : amounts = Redistributed(i, amount)
      OBVIOUS
    <2>2. amounts \in [1..Guests -> Nat]
      BY <1>2, <1>7, <2>1, RetypedIsNat, SplitBillAssumption
    <2>3. PICK rs : rs = [j \in DOMAIN rows |->
                IF Locked(rows[j]) THEN rows[j]
                ELSE [rows[j] EXCEPT !.amount = amounts[j], !.key = 0, !.error = FALSE]]
      OBVIOUS
    <2>4. Show(rs) /\ data' = data
      BY <1>7, <2>1, <2>3 DEF AmountChange
    <2>5. 0 \in 0..MaxRequests
      BY SplitBillAssumption
    <2>6. ASSUME NEW j \in DOMAIN rows
          PROVE  [rows[j] EXCEPT !.amount = amounts[j], !.key = 0, !.error = FALSE] \in RowState
      <3>1. rows[j] \in RowState /\ amounts[j] \in Nat
        BY <1>2, <2>2
      <3> QED BY <2>5, <3>1 DEF RowState
    <2>7. DOMAIN rows = 1..Guests
      BY <1>2
    <2>8. rs \in [1..Guests -> RowState]
      BY <1>2, <2>3, <2>6, <2>7
    <2> QED BY <2>4, <2>8, ShownTyped DEF RowsTyped
  <1>8. ASSUME NEW i \in DOMAIN rows, MethodChange(i)
        PROVE  RowsTyped(rows') /\ SharesTyped(saved') /\ data' = data
    <2>1. PICK row : row = [rows[i] EXCEPT !.key = 0, !.error = FALSE]
      OBVIOUS
    <2>2. 0 \in 0..MaxRequests
      BY SplitBillAssumption
    <2>3. row \in RowState
      BY <1>2, <2>1, <2>2 DEF RowState
    <2>4. Show([rows EXCEPT ![i] = row]) /\ data' = data
      BY <1>8, <2>1 DEF MethodChange
    <2> QED BY <2>3, <2>4, OneRowTyped, ShownTyped
  <1>9. ASSUME NEW i \in DOMAIN rows, NEW kind, NEW key \in 0..MaxRequests, Send(kind, i, key)
        PROVE  RowsTyped(rows') /\ SharesTyped(saved') /\ data' = data
    <2>1. PICK row : row = [rows[i] EXCEPT !.status = "submitting", !.error = FALSE, !.key = key]
      OBVIOUS
    <2>2. row \in RowState
      BY <1>2, <2>1 DEF RowState
    <2>3. Show([rows EXCEPT ![i] = row]) /\ data' = data
      BY <1>9, <2>1 DEF Send
    <2> QED BY <2>2, <2>3, OneRowTyped, ShownTyped
  <1>10. ASSUME NEW i \in DOMAIN rows, PayRow(i) \/ RefundRow(i)
         PROVE  RowsTyped(rows') /\ SharesTyped(saved') /\ data' = data
    <2>1. rows[i].key \in 0..MaxRequests
      BY <1>2 DEF RowState
    <2>2. CASE PayRow(i)
      <3>1. PICK key : key = IF rows[i].key # 0 THEN rows[i].key ELSE sent + 1
        OBVIOUS
      <3>2. Send("pay", i, key) /\ sent < MaxRequests
        BY <2>2, <3>1 DEF PayRow, Send
      <3>3. key \in 0..MaxRequests
        BY <2>1, <3>1, <3>2, SplitBillAssumption DEF TypeOK
      <3> QED BY <1>9, <3>2, <3>3
    <2>3. CASE RefundRow(i)
      BY <1>9, <2>1, <2>3 DEF RefundRow
    <2> QED BY <1>10, <2>2, <2>3
  <1>11. ASSUME NEW r \in requests, Handle(r) \/ Lost(r)
         PROVE  UNCHANGED <<rows, saved, data>>
    BY <1>11 DEF Handle, Lookup, Insert, Refund, Lost, screen
  <1>12. ASSUME NEW r \in requests, Answer(r)
         PROVE  RowsTyped(rows') /\ SharesTyped(saved') /\ data' = data
    <2>1. rows # <<>> /\ r.row \in DOMAIN rows => rows[r.row] \in RowState
      BY <1>2
    <2>2. CASE PayAnswered(r)
      <3>1. PICK row : row = [rows[r.row] EXCEPT !.status = "succeeded", !.error = FALSE,
                                                 !.payment = r.payment]
        OBVIOUS
      <3>2. r.payment \in Nat
        <4>1. r.payment \in PaymentIds
          BY <2>2 DEF PayAnswered, IInv, Named, Of
        <4> QED BY <4>1 DEF PaymentIds
      <3>3. rows # <<>> /\ r.row \in DOMAIN rows => row \in RowState
        BY <2>1, <3>1, <3>2 DEF RowState
      <3> QED BY <2>2, <3>1, <3>3, PatchTyped DEF PayAnswered
    <2>3. CASE AllRowsPaid(r)
      BY <1>1, <2>3 DEF AllRowsPaid, Unmount, RowsTyped, SharesTyped
    <2>4. CASE PayFails(r)
      <3>1. PICK row : row = [rows[r.row] EXCEPT !.status = "failed", !.error = TRUE]
        OBVIOUS
      <3>2. rows # <<>> /\ r.row \in DOMAIN rows => row \in RowState
        BY <2>1, <3>1 DEF RowState
      <3> QED BY <2>4, <3>1, <3>2, PatchTyped DEF PayFails
    <2>5. CASE RefundAnswered(r)
      <3>1. PICK row : row = IdleRow(rows[r.row].amount)
        OBVIOUS
      <3>2. 0 \in 0..MaxRequests
        BY SplitBillAssumption
      <3>3. rows # <<>> /\ r.row \in DOMAIN rows => row \in RowState
        BY <2>1, <3>1, <3>2 DEF RowState, IdleRow
      <3> QED BY <2>5, <3>1, <3>3, PatchTyped DEF RefundAnswered
    <2>6. CASE RefundFails(r)
      <3>1. PICK row : row = [rows[r.row] EXCEPT !.status = "succeeded", !.error = TRUE]
        OBVIOUS
      <3>2. rows # <<>> /\ r.row \in DOMAIN rows => row \in RowState
        BY <2>1, <3>1 DEF RowState
      <3> QED BY <2>6, <3>1, <3>2, PatchTyped DEF RefundFails
    <2> QED BY <1>12, <2>2, <2>3, <2>4, <2>5, <2>6 DEF Answer
  <1>13. CASE UNCHANGED vars
    BY <1>1, <1>13 DEF vars
  <1> QED BY <1>1, <1>3, <1>4, <1>5, <1>6, <1>7, <1>8, <1>10, <1>11, <1>12, <1>13 DEF Next

(* The requests after every step.                                          *)

(* A request that is one of before as far as its size goes. *)
SameSize(s, r) ==
  /\ s.number = r.number /\ s.amount = r.amount /\ s.kind = r.kind
  /\ s.at = "checked" => r.at = "checked"

LEMMA SameSizeSized ==
  ASSUME NEW r, Sized(r), NEW s, SameSize(s, r), sent' = sent
  PROVE  Sized(s)'
  BY DEF Sized, SameSize

LEMMA OrphanSize ==
  ASSUME NEW R, NEW s \in Orphaned(R), \A q \in R : IsRequest(q)
  PROVE  \E q \in R : SameSize(s, q)
  BY DEF Orphaned, IsRequest, SameSize

LEMMA UpdatedSize ==
  ASSUME \A q \in requests : Sized(q), NEW r \in requests, NEW new, Update(r, new),
         SameSize(new, r) \/ Sized(new), sent' = sent
  PROVE  \A s \in requests' : Sized(s)'
  <1>1. \A s \in requests' : s \in requests \/ s = new
    BY Updated
  <1>2. \A s \in requests : Sized(s)'
    BY DEF Sized
  <1>3. Sized(new)'
    BY SameSizeSized DEF Sized
  <1> QED BY <1>1, <1>2, <1>3

LEMMA RequestsSized ==
  ASSUME IInv, Sizes, [Next]_vars
  PROVE  (\A r \in requests : Sized(r))'
  <1>1. /\ \A q \in requests : IsRequest(q) /\ Sized(q)
        /\ \A q \in requests : SameSize(q, q)
    BY DEF IInv, Shape, Sizes, SameSize
  <1>2. ASSUME NEW R, R \subseteq requests, requests' = Orphaned(R), sent' = sent
        PROVE  (\A r \in requests : Sized(r))'
    <2>1. \A s \in requests' : \E q \in R : SameSize(s, q)
      BY <1>1, <1>2, OrphanSize
    <2> QED BY <1>1, <1>2, <2>1, SameSizeSized
  <1>3. ASSUME requests' \subseteq requests, sent' = sent
        PROVE  (\A r \in requests : Sized(r))'
    BY <1>1, <1>3, SameSizeSized
  <1>4. CASE Open \/ FetchArrives \/ Refetch \/ UNCHANGED vars
    BY <1>3, <1>4 DEF Open, FetchArrives, Refetch, vars
  <1>5. CASE Close \/ CancelSplit
    BY <1>2, <1>5 DEF Close, CancelSplit
  <1>6. ASSUME NEW i \in DOMAIN rows,
               MethodChange(i) \/ \E amount \in Typed : AmountChange(i, amount)
        PROVE  (\A r \in requests : Sized(r))'
    BY <1>3, <1>6 DEF MethodChange, AmountChange
  <1>7. ASSUME NEW i \in DOMAIN rows, NEW kind, NEW key, Send(kind, i, key),
               kind = "pay" => rows[i].amount > 0
        PROVE  (\A r \in requests : Sized(r))'
    <2>1. rows[i].amount \in Nat /\ sent \in Nat
      <3>1. rows # <<>>
        OBVIOUS
      <3>2. rows \in [1..Guests -> RowState] /\ sent \in Nat
        BY <3>1 DEF Sizes, TypeOK
      <3> QED BY <3>2 DEF RowState
    <2>2. PICK new :
            new = [number |-> sent + 1, kind |-> kind, row |-> i, key |-> key,
                   amount |-> rows[i].amount, payment |-> rows[i].payment, at |-> "sent",
                   client |-> "waiting",
                   seen |-> [j \in {k \in DOMAIN rows : rows[k].status = "succeeded"} |->
                               rows[j].payment]]
      OBVIOUS
    <2>3. requests' = requests \cup {new} /\ sent' = sent + 1
      BY <1>7, <2>2 DEF Send
    <2>4. Sized(new)'
      BY <1>7, <2>1, <2>2, <2>3 DEF Sized
    <2>5. \A q \in requests : Sized(q)'
      BY <1>1, <2>1, <2>3 DEF Sized
    <2> QED BY <2>3, <2>4, <2>5
  <1>8. ASSUME NEW i \in DOMAIN rows, PayRow(i) \/ RefundRow(i)
        PROVE  (\A r \in requests : Sized(r))'
    BY <1>7, <1>8 DEF PayRow, RefundRow
  <1>9. ASSUME NEW r \in requests, Lookup(r)
        PROVE  (\A q \in requests : Sized(q))'
    <2>1. IsRequest(r) /\ Sized(r) /\ sent' = sent /\ r.kind = "pay"
      BY <1>1, <1>9 DEF Lookup
    <2>2. CASE \E p \in Booked(r.key) : Update(r, [r EXCEPT !.at = "done", !.payment = p])
      <3>1. PICK p : Update(r, [r EXCEPT !.at = "done", !.payment = p])
        BY <2>2
      <3>2. PICK new : new = [r EXCEPT !.at = "done", !.payment = p]
        OBVIOUS
      <3>3. SameSize(new, r)
        BY <2>1, <3>2 DEF IsRequest, SameSize
      <3> QED BY <1>1, <2>1, <3>1, <3>2, <3>3, UpdatedSize
    <2>3. CASE Update(r, [r EXCEPT !.at = IF Captured + r.amount > Total
                                          THEN "refused" ELSE "checked"])
      <3>1. PICK at : at = IF Captured + r.amount > Total THEN "refused" ELSE "checked"
        OBVIOUS
      <3>2. PICK new : new = [r EXCEPT !.at = at]
        OBVIOUS
      <3>3. at = "checked" => r.amount <= Total
        BY <2>1, <3>1, CapturedIsNat, SplitBillAssumption DEF Sizes, Sized
      <3>4. new.number = r.number /\ new.amount = r.amount /\ new.kind = r.kind /\ new.at = at
        BY <2>1, <3>2 DEF IsRequest
      <3>5. Sized(new)
        BY <2>1, <3>3, <3>4 DEF Sized
      <3> QED BY <1>1, <2>1, <2>3, <3>1, <3>2, <3>5, UpdatedSize
    <2> QED BY <1>9, <2>2, <2>3 DEF Lookup
  <1>10. ASSUME NEW r \in requests, NEW new, Update(r, new), sent' = sent,
                \/ \E at \in {"done", "refused"} : new = [r EXCEPT !.at = at]
                \/ \E p : new = [r EXCEPT !.at = "done", !.payment = p]
                \/ new = [r EXCEPT !.client = "gone"]
         PROVE  (\A q \in requests : Sized(q))'
    <2>1. SameSize(new, r)
      BY <1>1, <1>10 DEF IsRequest, SameSize
    <2> QED BY <1>1, <1>10, <2>1, UpdatedSize
  <1>11. ASSUME NEW r \in requests, Insert(r) \/ Refund(r)
         PROVE  (\A q \in requests : Sized(q))'
    <2>1. sent' = sent
      BY <1>11 DEF Insert, Refund
    <2>2. \E new : /\ Update(r, new)
                   /\ \/ \E at \in {"done", "refused"} : new = [r EXCEPT !.at = at]
                      \/ \E p : new = [r EXCEPT !.at = "done", !.payment = p]
      BY <1>11 DEF Insert, Refund
    <2> QED BY <1>10, <2>1, <2>2
  <1>12. ASSUME NEW r \in requests, Lost(r)
         PROVE  (\A q \in requests : Sized(q))'
    BY <1>3, <1>12 DEF Lost
  <1>13. ASSUME NEW r \in requests, PayAnswered(r) \/ RefundAnswered(r)
         PROVE  (\A q \in requests : Sized(q))'
    BY <1>3, <1>13 DEF PayAnswered, RefundAnswered
  <1>14. ASSUME NEW r \in requests, AllRowsPaid(r)
         PROVE  (\A q \in requests : Sized(q))'
    <2>1. requests \ {r} \subseteq requests
      OBVIOUS
    <2> QED BY <1>2, <1>14, <2>1 DEF AllRowsPaid
  <1>15. ASSUME NEW r \in requests, PayFails(r) \/ RefundFails(r)
         PROVE  (\A q \in requests : Sized(q))'
    <2>1. sent' = sent /\ Update(r, [r EXCEPT !.client = "gone"])
      BY <1>15 DEF PayFails, RefundFails
    <2> QED BY <1>10, <2>1
  <1> QED BY <1>4, <1>5, <1>6, <1>8, <1>9, <1>11, <1>12, <1>13, <1>14, <1>15
          DEF Next, Handle, Answer

(* The payments after every step. *)
LEMMA PaymentsTypedNext ==
  ASSUME IInv, Sizes, [Next]_vars
  PROVE  payments' \in Seq(Payment)
  <1>1. payments \in Seq(Payment) /\ payments \in [PaymentIds -> Payment]
    BY LenProperties DEF Sizes, TypeOK, Payment, PaymentIds
  <1>2. ASSUME NEW r \in requests, Insert(r), payments' # payments
        PROVE  payments' \in Seq(Payment)
    <2>1. PICK b : b = [key |-> r.key, amount |-> r.amount, row |-> r.row, refunded |-> FALSE]
      OBVIOUS
    <2>2. payments' = Append(payments, b) /\ r.at = "checked"
      BY <1>2, <2>1 DEF Insert
    <2>3. r.kind = "pay" /\ r.key \in 1..sent /\ r.row \in 1..Guests
      BY <2>2 DEF IInv, Shape, IsRequest
    <2>4. r.amount \in 1..Total
      BY <2>2, <2>3, SplitBillAssumption DEF Sizes, Sized
    <2>5. r.key \in 1..MaxRequests
      BY <2>3, SplitBillAssumption DEF Sizes, TypeOK
    <2>6. b \in Payment
      BY <2>1, <2>3, <2>4, <2>5 DEF Payment
    <2> QED BY <1>1, <2>2, <2>6, AppendProperties
  <1>3. ASSUME NEW r \in requests, Refund(r), payments' # payments
        PROVE  payments' \in Seq(Payment)
    <2>1. r.payment \in PaymentIds
      BY <1>3 DEF Refund, IInv, Named, Of
    <2>2. PICK b : b = [payments[r.payment] EXCEPT !.refunded = TRUE]
      OBVIOUS
    <2>3. payments' = [payments EXCEPT ![r.payment] = b]
      BY <1>3, <2>2 DEF Refund
    <2>4. b \in Payment
      BY <1>1, <2>1, <2>2 DEF Payment
    <2>5. payments' \in [1..Len(payments) -> Payment] /\ Len(payments) \in Nat
      BY <1>1, <2>3, <2>4, LenProperties DEF PaymentIds
    <2> QED BY <2>5, SeqDef
  <1>4. ASSUME Next, \A r \in requests : ~Insert(r) /\ ~Refund(r)
        PROVE  UNCHANGED payments
    BY <1>4 DEF Next, Open, FetchArrives, Refetch, Close, CancelSplit, PayRow, RefundRow, Send,
       MethodChange, AmountChange, Handle, Lookup, Lost, Answer, PayAnswered, AllRowsPaid,
       PayFails, RefundAnswered, RefundFails
  <1> QED BY <1>1, <1>2, <1>3, <1>4 DEF vars

(* The receipt, where it is handed over. *)
LEMMA ReceiptTyped ==
  ASSUME IInv, NEW r \in requests, AllRowsPaid(r)
  PROVE  receipt' \in [1..Guests -> Nat]
  <1>1. \A p \in PaymentIds : p \in Nat
    BY DEF PaymentIds
  <1>2. r.payment \in Nat
    BY <1>1 DEF AllRowsPaid, IInv, Named, Of
  <1>3. \A j \in DOMAIN r.seen : r.seen[j] \in Nat
    BY <1>1 DEF IInv, Named, Of
  <1>4. DOMAIN r.seen \cup {r.row} = 1..Guests
    BY DEF AllRowsPaid, IsLast
  <1> QED BY <1>2, <1>3, <1>4 DEF AllRowsPaid

LEMMA RestTyped ==
  ASSUME IInv, Sizes, [Next]_vars
  PROVE  /\ sent' \in 0..MaxRequests /\ doubts' \subseteq 1..Guests
         /\ receipt' = <<>> \/ receipt' \in [1..Guests -> Nat]
         /\ open' \in BOOLEAN /\ fetching' \in BOOLEAN
  <1>1. /\ sent \in 0..MaxRequests /\ doubts \subseteq 1..Guests
        /\ receipt = <<>> \/ receipt \in [1..Guests -> Nat]
        /\ open \in BOOLEAN /\ fetching \in BOOLEAN
    BY DEF Sizes, TypeOK
  <1>2. CASE UNCHANGED vars
    BY <1>1, <1>2 DEF vars
  <1>3. CASE Open \/ FetchArrives \/ Refetch \/ Close \/ CancelSplit
    BY <1>1, <1>3 DEF Open, FetchArrives, Refetch, Close, CancelSplit, Unmount
  <1>4. ASSUME NEW i \in DOMAIN rows,
               MethodChange(i) \/ \E amount \in Typed : AmountChange(i, amount)
        PROVE  UNCHANGED <<sent, doubts, receipt, open, fetching>>
    BY <1>4 DEF MethodChange, AmountChange
  <1>5. ASSUME NEW i \in DOMAIN rows, PayRow(i) \/ RefundRow(i)
        PROVE  sent' \in 0..MaxRequests /\ UNCHANGED <<doubts, receipt, open, fetching>>
    BY <1>1, <1>5, SplitBillAssumption DEF PayRow, RefundRow, Send
  <1>6. ASSUME NEW r \in requests, Handle(r) \/ Lost(r)
        PROVE  UNCHANGED <<sent, doubts, receipt, open, fetching>>
    BY <1>6 DEF Handle, Lookup, Insert, Refund, Lost, screen
  <1>7. ASSUME NEW r \in requests, PayAnswered(r) \/ RefundAnswered(r)
        PROVE  fetching' = open /\ UNCHANGED <<sent, doubts, receipt, open>>
    BY <1>7 DEF PayAnswered, RefundAnswered
  <1>8. ASSUME NEW r \in requests, PayFails(r)
        PROVE  UNCHANGED <<sent, doubts, receipt, open, fetching>>
    BY <1>8 DEF PayFails
  <1>9. ASSUME NEW r \in requests, RefundFails(r)
        PROVE  doubts' = doubts \cup {r.row} /\ UNCHANGED <<sent, receipt, open, fetching>>
    BY <1>9 DEF RefundFails
  <1>10. ASSUME NEW r \in requests, AllRowsPaid(r)
         PROVE  /\ receipt' \in [1..Guests -> Nat] /\ open' = FALSE /\ fetching' = FALSE
                /\ UNCHANGED <<sent, doubts>>
    BY <1>10, ReceiptTyped DEF AllRowsPaid, Unmount
  <1>11. \A r \in requests : r.row \in 1..Guests
    BY DEF IInv, Shape, IsRequest
  <1> QED BY <1>1, <1>2, <1>3, <1>4, <1>5, <1>6, <1>7, <1>8, <1>9, <1>10, <1>11
          DEF Next, Answer

LEMMA SizesNext ==
  ASSUME IInv, IInv', Sizes, [Next]_vars
  PROVE  Sizes'
  <1>1. TypeOK
    BY DEF Sizes
  <1>2. RowsTyped(rows') /\ SharesTyped(saved') /\ SharesTyped(data')
    BY <1>1, ScreenTyped
  <1>3. rows' = <<>> \/ rows' \in [1..Guests -> RowState]
    BY <1>2 DEF RowsTyped
  <1>4. \A shares \in {saved', data'} : shares = <<>> \/ shares \in [1..Guests -> Nat]
    BY <1>2 DEF SharesTyped
  <1>5. (\A r \in requests : Sized(r))'
    BY RequestsSized
  <1>6. (\A r \in requests : IsRequest(r))'
    BY DEF IInv, Shape
  <1>7. payments' \in Seq([key : 1..MaxRequests, amount : 1..Total, row : 1..Guests,
                           refunded : BOOLEAN])
    BY PaymentsTypedNext DEF Payment
  <1>8. \A r \in requests' :
          /\ r.number \in 1..sent' /\ r.kind \in {"pay", "refund"} /\ r.row \in 1..Guests
          /\ r.at \in {"sent", "checked", "done", "refused"}
          /\ r.client \in {"waiting", "orphan", "gone"}
    BY <1>5, <1>6 DEF Sized, IsRequest
  <1>9. TypeOK'
    BY <1>3, <1>4, <1>7, <1>8, RestTyped DEF TypeOK, RowState
  <1> QED BY <1>5, <1>9 DEF Sizes

(* Whatever the cashier types and however often payments are given back,   *)
(* the shares the calculator answers, and those a retyped row leaves to    *)
(* the others, are amounts and never negative, and no payment is booked    *)
(* beyond the total.                                                       *)
THEOREM Typing == Spec => []TypeOK
  <1>1. Init => Sizes
    <2> SUFFICES ASSUME Init PROVE Sizes
      OBVIOUS
    <2>1. <<>> \in Seq([key : 1..MaxRequests, amount : 1..Total, row : 1..Guests,
                        refunded : BOOLEAN])
      BY EmptySeq
    <2>2. payments = <<>> /\ requests = {} /\ sent = 0 /\ doubts = {} /\ 0 \in 0..MaxRequests
      BY SplitBillAssumption DEF Init
    <2>3. open \in BOOLEAN /\ fetching \in BOOLEAN
      BY DEF Init
    <2>4. rows = <<>> /\ receipt = <<>> /\ \A shares \in {saved, data} : shares = <<>>
      BY DEF Init
    <2>5. TypeOK
      BY <2>1, <2>2, <2>3, <2>4 DEF TypeOK
    <2> QED BY <2>2, <2>5 DEF Sizes
  <1>2. IInv /\ IInv' /\ Sizes /\ [Next]_vars => Sizes'
    BY SizesNext
  <1>3. Sizes => TypeOK
    BY DEF Sizes
  <1> QED BY <1>1, <1>2, <1>3, Invariance, PTL DEF Spec
=============================================================================

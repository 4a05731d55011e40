----------------------------- MODULE CloudLedger -----------------------------
(***************************************************************************)
(* Cloud's side of the workstation sync: the orders Cloud holds and the    *)
(* payments booked on them, as the routes under /api/v1/workstation (and   *)
(* /api/v1/kiosk for payments) read and write them.                        *)
(*                                                                         *)
(* An order is minted once per client_order_id; a payment is booked once   *)
(* per (order, Idempotency-Key).  Each operation below is what one request *)
(* does in its database transaction; it reports its HTTP answer so that    *)
(* the caller's module decides who hears it.  Amounts are left out: an     *)
(* order either still takes payments ("open") or was settled through       *)
(* another channel ("closed").                                             *)
(***************************************************************************)
EXTENDS Naturals, Sequences

CONSTANTS
  Orders,          \* the workstation's local orders (client_order_id)
  Payments,        \* the payments recorded on the workstation
  OrderOf,         \* the local order each payment belongs to
  MaxCloudOrders   \* bound: how many Cloud orders may ever be minted

ASSUME OrderOfAssumption == OrderOf \in [Payments -> Orders]
ASSUME MaxCloudOrdersAssumption == MaxCloudOrders \in Nat

VARIABLES
  cloud,    \* the Cloud orders minted so far, [client, state]; an id is an index
  booked    \* the payments Cloud holds: records [order, payment, key]

cloudVars == <<cloud, booked>>

CloudIds == 1..Len(cloud)

(***************************************************************************)
(* "open" takes payments, "closed" was settled by another channel,         *)
(* "trashed" is soft-deleted: no lookup by id finds it, but its            *)
(* client_order_id is still taken.  "gone" is a row a reseed or a restore  *)
(* removed altogether.                                                     *)
(***************************************************************************)
OrderStates == {"open", "closed", "trashed", "gone"}

CloudInit ==
  /\ cloud = <<>>
  /\ booked = {}

(* The rows, trashed ones included, that the unique client_order_id sees. *)
HeldFor(o) == {c \in CloudIds : cloud[c].client = o /\ cloud[c].state # "gone"}

(* Route-model binding and the branch-scoped where(id) skip trashed rows. *)
Exists(c) == c \in CloudIds /\ cloud[c].state \in {"open", "closed"}

BookedOn(c, p) == \E b \in booked : b.order = c /\ b.payment = p

(***************************************************************************)
(* POST /workstation/orders: the row already held for client_order_id is   *)
(* returned (withTrashed); otherwise a new order is minted.                *)
(***************************************************************************)
StoreOrder(o, c) ==
  \/ /\ c \in HeldFor(o)
     /\ UNCHANGED cloudVars
  \/ /\ HeldFor(o) = {}
     /\ Len(cloud) < MaxCloudOrders
     /\ c = Len(cloud) + 1
     /\ cloud' = Append(cloud, [client |-> o, state |-> "open"])
     /\ UNCHANGED booked

(***************************************************************************)
(* POST /{workstation,kiosk}/payments: 404 when the order is not found,    *)
(* the existing row when the key was used on it, 409 when the order takes  *)
(* no payment any more, otherwise a new row.                               *)
(***************************************************************************)
Replayed(c, key) == \E b \in booked : b.order = c /\ b.key = key

StorePayment(c, p, key, answer) ==
  \/ /\ ~Exists(c)
     /\ answer = "404"
     /\ UNCHANGED cloudVars
  \/ /\ Exists(c)
     /\ Replayed(c, key)
     /\ answer = "ok"
     /\ UNCHANGED cloudVars
  \/ /\ Exists(c)
     /\ ~Replayed(c, key)
     /\ cloud[c].state = "closed"
     /\ answer = "409"
     /\ UNCHANGED cloudVars
  \/ /\ Exists(c)
     /\ ~Replayed(c, key)
     /\ cloud[c].state = "open"
     /\ answer = "ok"
     /\ booked' = booked \cup {[order |-> c, payment |-> p, key |-> key]}
     /\ UNCHANGED cloud

(***************************************************************************)
(* POST /payments/{id}/confirm: 404 when Cloud has no such payment.        *)
(* Confirming one that is settled already is a 409 the caller reads as     *)
(* done, so both outcomes of a payment that exists are "ok" here.          *)
(***************************************************************************)
ConfirmPayment(c, p, answer) ==
  /\ answer = IF BookedOn(c, p) THEN "ok" ELSE "404"
  /\ UNCHANGED cloudVars

-----------------------------------------------------------------------------
(* What happens to an order on Cloud without the workstation.              *)

(* The guest settles the bill online: paid in full, the order closes. *)
SettleOnline(c) ==
  /\ c \in CloudIds
  /\ cloud[c].state = "open"
  /\ cloud' = [cloud EXCEPT ![c].state = "closed"]
  /\ UNCHANGED booked

(* Soft delete; refused while the order holds money. *)
TrashOrder(c) ==
  /\ c \in CloudIds
  /\ cloud[c].state = "open"
  /\ \A p \in Payments : ~BookedOn(c, p)
  /\ cloud' = [cloud EXCEPT ![c].state = "trashed"]
  /\ UNCHANGED booked

(* A reseed or a disaster-recovery restore drops the order and its money   *)
(* (only while the bound leaves an id to mint it again under).             *)
LoseOrder(c) ==
  /\ c \in CloudIds
  /\ Len(cloud) < MaxCloudOrders
  /\ cloud[c].state # "gone"
  /\ cloud' = [cloud EXCEPT ![c].state = "gone"]
  /\ booked' = {b \in booked : b.order # c}

=============================================================================

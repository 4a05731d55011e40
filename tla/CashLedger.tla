------------------------------ MODULE CashLedger ------------------------------
(***************************************************************************)
(* What the cash changer bridge owes the shop: a collection the machine    *)
(* finished is booked at most once, for the amount the machine took, on    *)
(* the order it was started for, and nothing else is ever booked for the   *)
(* machine.                                                                *)
(***************************************************************************)
CONSTANTS
  Collections,  \* the machine's transaction numbers
  Accounts,     \* the orders
  Amounts       \* what a collection may be for

VARIABLES
  finished,  \* the collections the machine finished: collection -> [order, amount]
  books      \* the payments booked for them: sets of [txn, order, amount]

Entry(t) == [txn |-> t, order |-> finished[t].order, amount |-> finished[t].amount]

Init == finished = <<>> /\ books = {}

(* The machine finishes a collection it was started for. *)
Finish(t, o, a) ==
  /\ t \notin DOMAIN finished
  /\ finished' = [u \in DOMAIN finished \cup {t} |->
                    IF u = t THEN [order |-> o, amount |-> a] ELSE finished[u]]
  /\ UNCHANGED books

(* The workstation books a finished collection that is not booked yet. *)
Book(t) ==
  /\ t \in DOMAIN finished
  /\ \A b \in books : b.txn # t
  /\ books' = books \cup {Entry(t)}
  /\ UNCHANGED finished

Next ==
  \/ \E t \in Collections, o \in Accounts, a \in Amounts : Finish(t, o, a)
  \/ \E t \in Collections : Book(t)

Spec == Init /\ [][Next]_<<finished, books>>
=============================================================================

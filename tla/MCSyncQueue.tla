---------------------------- MODULE MCSyncQueue ----------------------------
(* Instances of SyncQueue for TLC. *)
EXTENDS SyncQueue, TLC

CONSTANTS o1, o2, p1, p2

OneOrder == [p \in Payments |-> o1]
TwoOrders == [p \in Payments |-> IF p = p1 THEN o1 ELSE o2]
=============================================================================

---------------------------- MODULE MCLiveOrders ----------------------------
EXTENDS LiveOrders, TLC
CONSTANTS o1, o2
=============================================================================

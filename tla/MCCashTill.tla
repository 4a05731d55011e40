----------------------------- MODULE MCCashTill -----------------------------
EXTENDS CashTill, TLC
CONSTANTS o1, o2
=============================================================================

---------------------------- MODULE MCCashMachine ----------------------------
EXTENDS CashMachine, TLC
CONSTANTS o1, o2
=============================================================================

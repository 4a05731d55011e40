--------------------------- MODULE MCPrintJournal ---------------------------
(* Instances of PrintJournal for TLC: the receipts a, b, ... of one payer   *)
(* and the kitchen ticket t.                                                *)
EXTENDS PrintJournal, TLC

CONSTANTS a, b, t, receipt, kitchen

ScopesOfPrints == [p \in Prints |-> IF p \in Tickets THEN kitchen ELSE receipt]
=============================================================================

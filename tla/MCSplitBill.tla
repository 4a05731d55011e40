----------------------------- MODULE MCSplitBill -----------------------------
EXTENDS SplitBill
=============================================================================

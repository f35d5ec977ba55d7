---------------------------- MODULE MCInvoicing ----------------------------
EXTENDS Invoicing, TLC
CONSTANTS r1, r2, r3, r4, c1, c2
Symmetric == Permutations(Requests) \cup Permutations(Clients)
============================================================================

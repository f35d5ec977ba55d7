---------------------------- MODULE MCTenantRows ----------------------------
EXTENDS TenantRows, TLC

CONSTANTS r1, r2, r3, r4, v1

\* A case carries the name of the request that makes it.
Symmetric == Permutations(Requests)
=============================================================================

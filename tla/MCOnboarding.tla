---------------------------- MODULE MCOnboarding ----------------------------
EXTENDS Onboarding, TLC

CONSTANTS g1, g2, r1, r2, r3, v1, v2, e1, e2, e3, n1, n2

\* One customer registers twice.
OneCustomer == [g \in Regs |-> e1]

\* Two further contacts share a name; whichever is invited, they or the
\* customer compete for the one seat.
Namesakes == [e \in Emails |-> IF e = e1 THEN n1 ELSE n2]

Symmetric == Permutations({g1, g2}) \cup Permutations({r1, r2, r3})
                \cup Permutations({v1, v2}) \cup Permutations({e2, e3})
=============================================================================

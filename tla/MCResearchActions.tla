------------------------- MODULE MCResearchActions --------------------------
EXTENDS ResearchActions, TLC

CONSTANTS a1, a2, a3, t1, t2, t3, p1, p2, photo, mail

AllPhotos == [a \in Actions |-> photo]

AllMail == [a \in Actions |-> mail]

Symmetric == Permutations({t1, t2, t3}) \cup Permutations({p1, p2})
=============================================================================

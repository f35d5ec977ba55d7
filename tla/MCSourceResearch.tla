-------------------------- MODULE MCSourceResearch --------------------------
EXTENDS SourceResearch, TLC

CONSTANTS name, mail, r1, r2, h1, h2

\* Each scan reports one payload, the third another than the rest, and an
\* event without data.
PayloadOf ==
    [p \in Scans \X Indexes |->
        IF p[2] = 2 THEN NoData ELSE IF p[1] = 3 THEN mail ELSE name]

Symmetric == Permutations({r1, r2}) \cup Permutations({h1, h2})
=============================================================================

-------------------------- MODULE MCFindingCapture --------------------------
EXTENDS FindingCapture

CONSTANTS j1, j2, j3, f1, f2, h1, h2
=============================================================================

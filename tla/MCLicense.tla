----------------------------- MODULE MCLicense -----------------------------
EXTENDS Installation

CONSTANTS w1, w2
=============================================================================

----------------------------- MODULE MCLibrary -----------------------------
EXTENDS Library

CONSTANTS p, q, c, d, log, out
=============================================================================

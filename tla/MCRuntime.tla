----------------------------- MODULE MCRuntime -----------------------------
EXTENDS RuntimeInv
=============================================================================

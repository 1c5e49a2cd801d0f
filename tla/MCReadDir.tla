----------------------------- MODULE MCReadDir -----------------------------
EXTENDS ReadDir
=============================================================================

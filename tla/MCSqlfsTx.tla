----------------------------- MODULE MCSqlfsTx -----------------------------
EXTENDS SqlfsTx

CONSTANTS a, b

MCNames == {a, b}
=============================================================================

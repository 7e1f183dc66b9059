---------------------------- MODULE MCTestWrite ----------------------------
EXTENDS TestWrite

CONSTANT led

\* A normally-open output rests FALSE, a normally-closed one TRUE.
LedOffValveOn == [o \in Outputs |-> o # led]
=============================================================================

------------------------- MODULE MCConfigLifecycle -------------------------
EXTENDS ConfigLifecycle

CONSTANTS a, b, bad

Runnable == Contents \ {bad}
=============================================================================

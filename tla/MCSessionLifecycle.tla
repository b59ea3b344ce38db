------------------------- MODULE MCSessionLifecycle -------------------------
\* SessionLifecycle alone, with these processes.
EXTENDS SessionLifecycle, MCSessionParties
=============================================================================

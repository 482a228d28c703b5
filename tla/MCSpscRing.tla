----------------------------- MODULE MCSpscRing -----------------------------
EXTENDS SpscRing

=============================================================================

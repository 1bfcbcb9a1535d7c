------------------------- MODULE MCUncleanShutdown -------------------------
EXTENDS UncleanShutdown
=============================================================================

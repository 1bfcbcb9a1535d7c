---------------------------- MODULE MCTelemetry ----------------------------
EXTENDS Telemetry, TLC

\* Two items fill an envelope of five bytes to the last one (1 and 2), are one byte
\* too many (two round-trip metrics), or the third is too large for any.
MCItemBytes == (0 :> 2) @@ (1 :> 1) @@ (2 :> 2) @@ (3 :> 5) @@ (4 :> 1)
=============================================================================

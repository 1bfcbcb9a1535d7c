----------------------------- MODULE MCHeartbeat -----------------------------
EXTENDS Heartbeat, TLC

\* Users are interchangeable, and so are devices.
Symmetry == Permutations(Users) \cup Permutations(Devices)
=============================================================================

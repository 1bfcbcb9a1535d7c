------------------------------- MODULE MCCapture -------------------------------
EXTENDS Capture, TLC

\* The game threads are interchangeable, and so are the signatures.
Symmetry == Permutations(Callers) \cup Permutations(Signatures)

Nothing == [kind \in Kinds |-> 0]

MCBudgets ==
    { \* the log: overflow, trim, rotation, deaths and failing disks
      [Nothing EXCEPT !["line"] = 3, !["attach"] = 1, !["flush"] = 1, !["launch"] = 1],
      [Nothing EXCEPT !["line"] = 2, !["attach"] = 1, !["flush"] = 1, !["launch"] = 1,
                      !["fault"] = 1],
      [Nothing EXCEPT !["line"] = 4, !["flush"] = 3, !["fault"] = 2, !["launch"] = 1],
      [Nothing EXCEPT !["line"] = 5, !["flush"] = 4],
      \* consent against the ring
      [Nothing EXCEPT !["crumb"] = 4, !["bug"] = 2, !["consent"] = 4],
      [Nothing EXCEPT !["crumb"] = 1, !["attach"] = 1, !["crash"] = 1, !["consent"] = 2],
      \* the dedupe window
      [Nothing EXCEPT !["crash"] = 4, !["tick"] = 3] }
=============================================================================

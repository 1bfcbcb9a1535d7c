---------------------------- MODULE ReportCustody ----------------------------
(***************************************************************************)
(* What the SDK promises about a crash or bug report, without queues,      *)
(* retries, files or launches: who has custody of it.  A report that was   *)
(* taken into durable custody ("Persisted BEFORE the first attempt so a    *)
(* quit/crash cannot lose it") leaves it only when the server has answered *)
(* for it.  A report the disk did not take whole, refused or behind a      *)
(* path that write() returned all the same, is held on best effort and may *)
(* be lost.  Delivery refines this module.                                 *)
(***************************************************************************)

CONSTANT Reports

VARIABLE custody

Custody == {"unsent", "volatile", "durable", "closed", "lost"}

\* Where one report's custody may go in one step.
Moves ==
    { <<"unsent", "volatile">>, <<"unsent", "durable">>, <<"unsent", "lost">>,
      <<"volatile", "durable">>, <<"volatile", "closed">>, <<"volatile", "lost">>,
      <<"durable", "closed">> }

Init == custody = [r \in Reports |-> "unsent"]

\* One step of the process or of the machine (a crash, say) may move several
\* reports at once, each along its own edge.
Step ==
    /\ custody' \in [Reports -> Custody]
    /\ \A r \in Reports :
          custody'[r] = custody[r] \/ <<custody[r], custody'[r]>> \in Moves

Spec == Init /\ [][Step]_custody
=============================================================================

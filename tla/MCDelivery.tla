----------------------------- MODULE MCDelivery -----------------------------
(***************************************************************************)
(* The instances are in the cfgs.  No payloads are interchangeable: the    *)
(* disk may fail the writes of one crash report and not of the other.      *)
(***************************************************************************)
EXTENDS Delivery
=============================================================================

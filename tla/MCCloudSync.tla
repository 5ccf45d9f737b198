------------------------------ MODULE MCCloudSync ------------------------------
(***************************************************************************)
(* CloudSync with recordings of two ranges.                                *)
(***************************************************************************)
EXTENDS CloudSync

MCTooLong == {2}
===============================================================================

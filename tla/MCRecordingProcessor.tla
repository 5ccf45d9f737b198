-------------------------- MODULE MCRecordingProcessor --------------------------
(***************************************************************************)
(* Instance of RecordingProcessor for TLC.                                 *)
(***************************************************************************)
EXTENDS RecordingProcessor
===============================================================================

---------------------------- MODULE MCLocalRecorder ----------------------------
(* A recorder whose rolling buffer and queue hold two frames. *)
EXTENDS LocalRecorder

MCFaults == {"audio", "memory"}
===============================================================================

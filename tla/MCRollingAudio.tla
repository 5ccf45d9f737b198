---------------------------- MODULE MCRollingAudio ----------------------------
(* A rolling buffer of a few packets and a few bytes. *)
EXTENDS RollingAudio

MCFaults == {"audio", "memory"}
NoFaults == {}
===============================================================================

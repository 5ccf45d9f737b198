---------------------------- MODULE MCVoicePlayback ----------------------------
(* A voice session whose first answer is longer than the credit. *)
EXTENDS VoicePlaybackInv

Shorter == [e \in Epoch |-> IF e = 1 THEN MaxFrames ELSE 1]
===============================================================================

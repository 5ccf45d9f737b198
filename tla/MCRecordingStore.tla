--------------------------- MODULE MCRecordingStore ---------------------------
(***************************************************************************)
(* RecordingStore on small cards: two names for one clock reading, pages of *)
(* two packets, frames of three granules with a look-ahead of one.         *)
(***************************************************************************)
EXTENDS RecordingStoreInv

MCTimes == {"t1"}
FreshHeader == {EncoderSkip}
BothHeaders == {0, EncoderSkip}
NoFaults == {}
DurabilityFaults == {"sync", "dir"}
AllFaults == {"write", "sync", "dir"}
===============================================================================

-------------------------- MODULE MCProcessingOutbox --------------------------
(***************************************************************************)
(* ProcessingOutbox with generations of three bits, so that they wrap.     *)
(***************************************************************************)
EXTENDS ProcessingOutbox

MCFaults == {"write", "sync"}
===============================================================================

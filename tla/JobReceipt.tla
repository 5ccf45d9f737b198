------------------------------ MODULE JobReceipt ------------------------------
(***************************************************************************)
(* What the Sync outbox promises about the receipt of one recording: a     *)
(* save takes effect wholly or not at all, whatever happens to power, and  *)
(* once the caller was told it succeeded the receipt is that job.  Only    *)
(* the very first save may leave a receipt nobody can read.                *)
(***************************************************************************)

CONSTANTS Job, None, Unreadable

VARIABLES
  receipt,  \* what a load answers
  saving,   \* the job being saved, or None
  outcome   \* of the last save: none yet, done or undone

Readable == Job \cup {None}

Init == receipt = None /\ saving = None /\ outcome = "none"

\* A save begins; an unreadable receipt refuses it.
Begin(j) ==
  /\ saving = None /\ receipt \in Readable
  /\ saving' = j /\ outcome' = "none" /\ UNCHANGED receipt

\* It is reported done.
Done ==
  /\ saving \in Job
  /\ receipt' = saving /\ saving' = None /\ outcome' = "done"

\* It failed, or power was lost: the old receipt or the new one.
Undone ==
  /\ saving \in Job
  /\ receipt' \in {receipt, saving} \cup (IF receipt = None THEN {Unreadable} ELSE {})
  /\ saving' = None /\ outcome' = "undone"

Next == (\E j \in Job : Begin(j)) \/ Done \/ Undone

Spec == Init /\ [][Next]_<<receipt, saving, outcome>>
===============================================================================

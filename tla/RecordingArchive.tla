--------------------------- MODULE RecordingArchive ---------------------------
(***************************************************************************)
(* What the recorder promises about a recording, whatever happens to power *)
(* and to the card: once audio is secured it is never lost, and what has   *)
(* been published never changes.                                           *)
(*                                                                         *)
(* A recording is free (no file carries its name), open (the record worker *)
(* is writing it), partial (left behind by a reset or an error) or final   *)
(* (published under its .opus name).  Lengths are counted in Ogg pages.    *)
(***************************************************************************)
EXTENDS Naturals

CONSTANT Stem

VARIABLES
  state,    \* the stage each recording has reached
  secured,  \* pages a completed checkpoint covers
  kept      \* intact pages of the published file, 0 until it is published

archive == <<state, secured, kept>>

States == {"free", "open", "partial", "final"}

TypeOK ==
  /\ state \in [Stem -> States]
  /\ secured \in [Stem -> Nat]
  /\ kept \in [Stem -> Nat]

Init ==
  /\ state = [s \in Stem |-> "free"]
  /\ secured = [s \in Stem |-> 0]
  /\ kept = [s \in Stem |-> 0]

Open(s) ==
  /\ state[s] = "free"
  /\ state' = [state EXCEPT ![s] = "open"]
  /\ UNCHANGED <<secured, kept>>

\* A checkpoint completes: it never covers less than the one before it.
Secure(s) ==
  /\ state[s] = "open"
  /\ secured' \in [Stem -> Nat]
  /\ secured'[s] >= secured[s]
  /\ \A r \in Stem \ {s} : secured'[r] = secured[r]
  /\ UNCHANGED <<state, kept>>

\* Finishing or recovering a recording keeps at least what was secured.
Publish(s) ==
  /\ state[s] \in {"open", "partial"}
  /\ state' = [state EXCEPT ![s] = "final"]
  /\ kept' \in [Stem -> Nat]
  /\ kept'[s] >= secured[s]
  /\ \A r \in Stem \ {s} : kept'[r] = kept[r]
  /\ UNCHANGED secured

\* A reset or an error leaves the recording behind, with what was secured.
Leave(s) ==
  /\ state[s] = "open"
  /\ state' = [state EXCEPT ![s] = "partial"]
  /\ UNCHANGED <<secured, kept>>

\* Only a recording that secured nothing may be thrown away.
Discard(s) ==
  /\ state[s] = "open"
  /\ secured[s] = 0
  /\ state' = [state EXCEPT ![s] = "free"]
  /\ UNCHANGED <<secured, kept>>

Next ==
  \E s \in Stem : Open(s) \/ Secure(s) \/ Publish(s) \/ Leave(s) \/ Discard(s)

Spec == Init /\ [][Next]_archive
===============================================================================

---------------------------- MODULE PlaybackLedger ----------------------------
(***************************************************************************)
(* What playback accounting promises about the spoken answers of one voice *)
(* session: they are heard one after the other, and the position at which  *)
(* the proxy closes the account of an answer, which is what it tells the   *)
(* provider was heard, is exactly where the speaker stopped.               *)
(***************************************************************************)
EXTENDS Naturals

CONSTANTS Epoch, Open

VARIABLES
  heard,   \* frames of each epoch that left the speaker
  ledger   \* the position each account was closed at, or Open

Init ==
  /\ heard = [e \in Epoch |-> 0]
  /\ ledger = [e \in Epoch |-> Open]

\* A frame is heard: its account is open and no later epoch has begun.
Play(e) ==
  /\ ledger[e] = Open
  /\ \A f \in Epoch : f > e => heard[f] = 0
  /\ heard' = [heard EXCEPT ![e] = @ + 1]
  /\ UNCHANGED ledger

\* The accounts of some epochs are closed at what was heard of them.
Close(E) ==
  /\ \A e \in E : ledger[e] = Open
  /\ ledger' = [e \in Epoch |-> IF e \in E THEN heard[e] ELSE ledger[e]]
  /\ UNCHANGED heard

Next == (\E e \in Epoch : Play(e)) \/ (\E E \in SUBSET Epoch : Close(E))

Spec == Init /\ [][Next]_<<heard, ledger>>
===============================================================================

---------------------------- MODULE MCDeviceModes -----------------------------
(* Both builds with every mode and clients on the LAN; and the text one with a
   companion that signs in and unlinks while setup and Sync come and go. *)
EXTENDS DeviceModes

AllModes == {"local", "sync", "voice", "setup"}
MCScenes ==
  {[gui |-> g, starts |-> AllModes, clients |-> TRUE, signs |-> FALSE] : g \in BOOLEAN}
  \cup {[gui |-> FALSE, starts |-> {"sync", "setup"}, clients |-> FALSE, signs |-> TRUE]}
===============================================================================

------------------------------- MODULE LanServer -------------------------------
(***************************************************************************)
(* The read-only HTTP server, components/lan_server/lan_server.c: one      *)
(* server task answers a request at a time from the card, under a lease    *)
(* the main task waits for before it does anything else with the card.     *)
(***************************************************************************)
EXTENDS Naturals

VARIABLES
  available,  \* the main task lets requests in
  leased,     \* a request has the card
  lan         \* the request: where it is, and whether it lists or downloads

server == <<available, leased, lan>>

NoRequest == [pc |-> "idle", kind |-> "list"]

ServerTypeOK ==
  /\ available \in BOOLEAN /\ leased \in BOOLEAN
  /\ lan \in [pc : {"idle", "lease", "check", "read", "send", "next"},
              kind : {"list", "file"}]

-------------------------------------------------------------------------------
At(pc) == lan.pc = pc
LanGoto(pc) == lan' = [lan EXCEPT !.pc = pc]
Release == leased' = FALSE /\ lan' = NoRequest

\* check_available; the request is then looked at, and may be refused.
Request(kind) ==
  /\ At("idle") /\ available
  /\ lan' = [pc |-> "lease", kind |-> kind]
  /\ UNCHANGED <<available, leased>>

Refuse ==
  /\ At("lease") /\ lan' = NoRequest
  /\ UNCHANGED <<available, leased>>

Lease ==
  /\ At("lease") /\ ~leased
  /\ leased' = TRUE /\ LanGoto("check")
  /\ UNCHANGED available

\* Mutant: what was available before the lease is taken to be so still.
CheckBeforeLease ==
  /\ At("check")
  /\ LanGoto("read") /\ UNCHANGED leased
  /\ UNCHANGED available

\* Between the first check and the lease the main task may have paused it.
Check ==
  /\ At("check")
  /\ IF available THEN LanGoto("read") /\ UNCHANGED leased ELSE Release
  /\ UNCHANGED available

\* storage_catalog_page, storage_open_recording, fread.
Read ==
  /\ At("read")
  /\ Release \/ (LanGoto("send") /\ UNCHANGED leased)
  /\ UNCHANGED available

\* A chunk goes out, or cannot; it may have been the last one.
Send ==
  /\ At("send")
  /\ Release \/ (LanGoto("next") /\ UNCHANGED leased)
  /\ UNCHANGED available

\* The next item, or the next piece of the file, if still allowed.
Continue ==
  /\ At("next")
  /\ IF available
     THEN LanGoto(IF lan.kind = "file" THEN "read" ELSE "send") /\ UNCHANGED leased
     ELSE Release
  /\ UNCHANGED available

Serve == Refuse \/ Lease \/ Check \/ Read \/ Send \/ Continue

\* The server is in one call that may take as long as lan_server_pause waits:
\* it reads, or sends to a client that does not take the data.
Blocked == lan.pc \in {"read", "send"}

ServerInit == available = FALSE /\ leased = FALSE /\ lan = NoRequest
RebootServer == available' = FALSE /\ leased' = FALSE /\ lan' = NoRequest
===============================================================================

------------------------------ MODULE DeviceSetup ------------------------------
(***************************************************************************)
(* Setup over Bluetooth, components/provisioning: the main task shows the  *)
(* credentials, opens the radio and closes it again (provisioning.c); the  *)
(* Bluetooth task answers the requests of the companion one at a time      *)
(* (control.c) and may itself end the setup.                               *)
(*                                                                         *)
(* The network provisioning manager is a library.  Of it the code uses     *)
(* that stop_provisioning returns at once, that the radio is down and END  *)
(* is posted a while later, when no request is being answered, and that    *)
(* deinit leaves nothing behind.                                           *)
(***************************************************************************)
EXTENDS Identity

VARIABLES
  active, ended, stop_requested,  \* as in provisioning.c
  manager,  \* manager_initialized
  shown,    \* display_shown
  radio,    \* the manager: "off", "on", or "closing"
  due,      \* the ten minutes are over
  task      \* where the main task and the Bluetooth task are

setup == <<active, ended, stop_requested, manager, shown, radio, due>>

Starting == {"show", "advertise", "register", "activate"}
Stopping == {"claim", "hide", "close"}

SetupTypeOK ==
  /\ \A b \in {active, ended, stop_requested, manager, shown, due} : b \in BOOLEAN
  /\ radio \in {"off", "on", "closing"}
  /\ task.ble \in {"free"} \cup Stopping

Goto(t, pc) == task' = [task EXCEPT ![t] = pc]
Main(pc) == task.main = pc

-------------------------------------------------------------------------------
(***************************************************************************)
(* recorder_setup_start, in the main task.  A step that fails undoes all.  *)
(***************************************************************************)

\* Mutant: the request to stop of the last setup is not forgotten.
StartSetupStopped ==
  /\ ~active /\ ~manager
  /\ manager' = TRUE /\ ended' = FALSE
  /\ Goto("main", "show")
  /\ UNCHANGED <<identity, active, stop_requested, shown, radio, due>>

StartSetup ==
  /\ ~active /\ ~manager
  /\ manager' = TRUE /\ ended' = FALSE /\ stop_requested' = FALSE
  /\ Goto("main", "show")
  /\ UNCHANGED <<identity, active, shown, radio, due>>

\* display_shown is set before the drawing, which may fail half way.
ShowSetup ==
  /\ Main("show")
  /\ shown' = TRUE /\ Goto("main", "advertise")
  /\ UNCHANGED <<identity, active, ended, stop_requested, manager, radio, due>>

AdvertiseSetup ==
  /\ Main("advertise")
  /\ radio' = "on" /\ Goto("main", "register")
  /\ UNCHANGED <<identity, active, ended, stop_requested, manager, shown, due>>

RegisterControl ==
  /\ Main("register")
  /\ Goto("main", "activate")
  /\ UNCHANGED <<identity, setup>>

ActivateSetup ==
  /\ Main("activate")
  /\ active' = TRUE /\ due' = FALSE /\ Goto("main", "tick")
  /\ UNCHANGED <<identity, ended, stop_requested, manager, shown, radio>>

\* Mutant: a start that fails leaves the credentials on the display.
FailSetupShown ==
  /\ task.main \in {"show", "advertise", "register"}
  /\ manager' = FALSE /\ radio' = "off" /\ ended' = FALSE
  /\ Goto("main", "tick")
  /\ UNCHANGED <<identity, active, stop_requested, shown, due>>

FailSetup ==
  /\ task.main \in {"show", "advertise", "register"}
  /\ manager' = FALSE /\ radio' = "off" /\ shown' = FALSE /\ ended' = FALSE
  /\ Goto("main", "tick")
  /\ UNCHANGED <<identity, active, stop_requested, due>>

SetupStart == ShowSetup \/ AdvertiseSetup \/ RegisterControl \/ ActivateSetup \/ FailSetup

-------------------------------------------------------------------------------
(***************************************************************************)
(* recorder_setup_stop, in either task.  Its test of stop_requested and    *)
(* the assignment are not one step.                                        *)
(***************************************************************************)

Stoppable == active /\ ~stop_requested
Returned(t) == IF t = "main" THEN "tick" ELSE "free"

ClaimStop(t) ==
  /\ task[t] = "claim"
  /\ stop_requested' = TRUE /\ Goto(t, "hide")
  /\ UNCHANGED <<identity, active, ended, manager, shown, radio, due>>

HideSetup(t) ==
  /\ task[t] = "hide"
  /\ shown' = FALSE /\ Goto(t, "close")
  /\ UNCHANGED <<identity, active, ended, stop_requested, manager, radio, due>>

CloseSetup(t) ==
  /\ task[t] = "close"
  /\ CancelGrant(Resources) /\ UNCHANGED control
  /\ radio' = IF radio = "on" THEN "closing" ELSE radio
  /\ Goto(t, Returned(t))
  /\ UNCHANGED <<active, ended, stop_requested, manager, shown, due>>

SetupStop(t) == ClaimStop(t) \/ HideSetup(t) \/ CloseSetup(t)

\* The manager has closed the radio: NETWORK_PROV_END.
RadioCloses ==
  /\ radio = "closing" /\ task.ble = "free" /\ control.pc = "idle"
  /\ radio' = "off" /\ ended' = TRUE
  /\ UNCHANGED <<identity, active, stop_requested, manager, shown, due, task>>

SetupExpires ==
  /\ active /\ ~due
  /\ due' = TRUE
  /\ UNCHANGED <<identity, active, ended, stop_requested, manager, shown, radio, task>>

-------------------------------------------------------------------------------
(***************************************************************************)
(* recorder_setup_tick.                                                    *)
(***************************************************************************)

Tick ==
  /\ Main("tick")
  /\ Goto("main", IF due /\ Stoppable THEN "claim" ELSE "ended")
  /\ UNCHANGED <<identity, setup>>

TickEnded ==
  /\ Main("ended")
  /\ ended' = FALSE
  /\ IF ended /\ manager
     THEN manager' = FALSE /\ shown' = FALSE /\ active' = FALSE
     ELSE UNCHANGED <<manager, shown, active>>
  /\ Goto("main", "look")
  /\ UNCHANGED <<identity, stop_requested, radio, due>>

-------------------------------------------------------------------------------
(***************************************************************************)
(* The requests, once the endpoint is registered.                          *)
(***************************************************************************)

Asked ==
  /\ radio # "off" /\ ~Main("register")
  /\ task.ble = "free" /\ control.pc = "idle"

FinishRequest ==
  /\ Asked /\ Stoppable /\ Goto("ble", "claim")
  /\ UNCHANGED <<identity, setup>>

AuthRequest ==
  /\ Asked
  /\ \/ BeginUnlink
     \/ \E r \in Resources :
          StartGrant(r) \/ (CancelGrant({r}) /\ UNCHANGED control)
  /\ UNCHANGED <<setup, task>>

SetupInit ==
  /\ IdentityInit
  /\ active = FALSE /\ ended = FALSE /\ stop_requested = FALSE
  /\ manager = FALSE /\ shown = FALSE /\ due = FALSE
  /\ radio = "off" /\ task = [main |-> "tick", ble |-> "free"]

RebootSetup ==
  /\ RebootIdentity
  /\ active' = FALSE /\ ended' = FALSE /\ stop_requested' = FALSE
  /\ manager' = FALSE /\ shown' = FALSE /\ due' = FALSE
  /\ radio' = "off" /\ task' = [main |-> "tick", ble |-> "free"]

-------------------------------------------------------------------------------
\* The radio is open only while the credentials were put on the display and
\* nobody asked to close it; and when no setup is under way, because it ended
\* or because any step of its start failed, nothing of it is left: neither
\* credentials on the display nor the radio (recorder_setup_start and _tick).
SetupConfined ==
  /\ radio = "on" => shown \/ stop_requested
  /\ ~manager => ~shown /\ ~active /\ radio = "off"

\* A stop is not lost: once one was asked for, by the key, the companion or the
\* deadline, or two of them at the same time, something is on its way that ends
\* the setup (recorder_setup_stop, the END event, recorder_setup_tick).
StopUnderWay ==
  active /\ stop_requested =>
    (\E t \in {"main", "ble"} : task[t] \in Stopping) \/ radio = "closing" \/ ended
===============================================================================

------------------------------ MODULE DeviceModes ------------------------------
(***************************************************************************)
(* The main task of the recorder: the loop that reads a key, sees what the *)
(* modes are doing, and starts and stops them.  There are two of it, the   *)
(* text one (main/main.c) and the graphical one (gui/gui_app.c); a build   *)
(* has one.  It is composed here with setup, the accounts and the LAN      *)
(* server.  Recording and playback, Sync and the voice session run in      *)
(* tasks of their own, which have modules of their own: here such a mode   *)
(* is on, was asked to stop, or is off.  Rolling audio, which the loop     *)
(* also turns on and off, is composed with the recorder in LocalRecorder.  *)
(***************************************************************************)
EXTENDS DeviceSetup, LanServer

CONSTANT
  Scenes  \* builds of the recorder, each with what happens to it

Scene == [gui : BOOLEAN,                 \* the graphical interface
          starts : SUBSET {"local", "sync", "voice", "setup"},
          clients : BOOLEAN,             \* of the LAN server
          signs : BOOLEAN]               \* the companion signs in and unlinks

ASSUME ScenesAssumption == Scenes \subseteq Scene

VARIABLES
  scene,     \* one of the scenes
  screen,    \* "home", the "catalog" of recordings, or "busy": that of a mode
  error,     \* the graphical interface shows an error
  previous,  \* a mode was on when last looked at: model.active, or previous
  seen,      \* the statuses the loop has read
  key,       \* the key it has read
  local, sync, voice,  \* the modes
  online     \* connected, of network.c

screenvars == <<screen, error, previous>>
loopvars == <<seen, key>>
modes == <<local, sync, voice>>
device == <<identity, setup, task, server, scene, screenvars, loopvars, modes, online>>

gui == scene.gui
Mode == {"off", "on", "stop"}
Unseen == [local |-> FALSE, sync |-> FALSE, voice |-> FALSE]

DeviceTypeOK ==
  /\ IdentityTypeOK /\ SetupTypeOK /\ ServerTypeOK
  /\ task.main \in Starting \cup Stopping
       \cup {"tick", "ended", "look", "key", "pause", "dispatch", "list"}
  /\ screen \in {"home", "catalog", "busy"}
  /\ scene \in Scenes
  /\ \A b \in {error, previous, online} : b \in BOOLEAN
  /\ seen \in [{"local", "sync", "voice"} -> BOOLEAN]
  /\ key \in {"none", "back", "enter", "move"}
  /\ local \in Mode /\ sync \in Mode /\ voice \in Mode

-------------------------------------------------------------------------------
(***************************************************************************)
(* The steps of the loop before a key is acted upon.                       *)
(***************************************************************************)

\* What update() makes of a mode that is on, or has just ended; it runs only
\* every 100 or 400 ms, and when nothing is left to paint.
Update ==
  IF \/ voice # "off" \/ sync # "off" \/ active' \/ local # "off"
  THEN screen' = "busy" /\ previous' = TRUE /\ UNCHANGED error
  ELSE /\ previous' = FALSE /\ UNCHANGED screen
       /\ error' \in IF previous /\ screen = "busy" THEN {error, TRUE} ELSE {error}

Ended ==
  /\ TickEnded
  /\ UNCHANGED screenvars \/ (gui /\ Update)
  /\ UNCHANGED <<server, scene, loopvars, modes, online>>

\* Mutant: a voice session does not keep the server out.
LookPastVoice ==
  /\ Main("look") /\ Goto("main", "key")
  /\ seen' = [local |-> local # "off", sync |-> sync # "off", voice |-> voice # "off"]
  /\ available' = /\ screen = "home" /\ ~error /\ online
                  /\ local = "off" /\ sync = "off" /\ ~active
  /\ UNCHANGED <<identity, setup, leased, lan, scene, screenvars, key, modes, online>>

\* The statuses are read, and the server let in when all is idle at home.
Look ==
  /\ Main("look") /\ Goto("main", "key")
  /\ seen' = [local |-> local # "off", sync |-> sync # "off", voice |-> voice # "off"]
  /\ available' = /\ screen = "home" /\ ~error /\ online
                  /\ local = "off" /\ sync = "off" /\ voice = "off" /\ ~active
  /\ UNCHANGED <<identity, setup, leased, lan, scene, screenvars, key, modes, online>>

\* board_key_read, which may fail, then lan_server_pause for any key.
Key ==
  /\ Main("key")
  /\ \/ Goto("main", "dispatch") /\ UNCHANGED <<key, available, error, previous>>
     \/ /\ gui /\ ~error /\ error' = TRUE /\ previous' = FALSE
        /\ Goto("main", "dispatch") /\ UNCHANGED <<key, available>>
     \/ /\ key' \in {"back", "enter", "move"} /\ available' = FALSE
        /\ Goto("main", "pause") /\ UNCHANGED <<error, previous>>
  /\ UNCHANGED <<identity, setup, leased, lan, scene, screen, seen, modes, online>>

\* lan_server_pause: the lease is gone, or still there after 5 s.
Paused ==
  /\ Main("pause") /\ ~leased
  /\ Goto("main", "dispatch")
  /\ UNCHANGED <<identity, setup, server, scene, screenvars, loopvars, modes, online>>

\* The key is lost; the graphical interface shows an error for it.
PauseTimeout ==
  /\ Main("pause") /\ leased /\ Blocked
  /\ key' = "none" /\ seen' = IF gui THEN Unseen ELSE seen
  /\ error' = gui
  /\ previous' = (previous /\ ~gui)
  /\ Goto("main", IF gui THEN "tick" ELSE "dispatch")
  /\ UNCHANGED <<identity, setup, server, scene, screen, modes, online>>

-------------------------------------------------------------------------------
(***************************************************************************)
(* What a key does.  The text loop remembers the mode it saw, and draws    *)
(* the catalog again when that one has just ended.                         *)
(***************************************************************************)

Done(pc) ==
  /\ key' = "none" /\ seen' = Unseen
  /\ Goto("main", pc)
  /\ UNCHANGED <<identity, server, scene, online>>

Remember == previous' = IF gui THEN previous ELSE seen.local

Asks(mode, keys) == IF key \in keys /\ mode = "on" THEN "stop" ELSE mode

\* voice_client_stop, cloud_sync_cancel
VoiceKey ==
  /\ seen.voice
  /\ voice' = Asks(voice, {"back"})
  /\ Remember /\ Done("tick") /\ UNCHANGED <<setup, screen, error, local, sync>>

SyncKey ==
  /\ ~seen.voice /\ seen.sync
  /\ sync' = Asks(sync, {"back"})
  /\ Remember /\ Done("tick") /\ UNCHANGED <<setup, screen, error, local, voice>>

\* recorder_setup_stop
SetupKey ==
  /\ ~seen.voice /\ ~seen.sync /\ active
  /\ Remember /\ Done(IF key = "back" /\ Stoppable THEN "claim" ELSE "tick")
  /\ UNCHANGED <<setup, screen, error, modes>>

LocalKey ==
  /\ ~seen.voice /\ ~seen.sync /\ ~active /\ seen.local
  /\ local' = Asks(local, {"back", "enter"})
  /\ Remember /\ Done("tick") /\ UNCHANGED <<setup, screen, error, sync, voice>>

\* Mutant: a setup that is under way is not looked at.
IdleInSetup == ~seen.voice /\ ~seen.sync /\ ~seen.local

Idle == ~seen.voice /\ ~seen.sync /\ ~active /\ ~seen.local

\* Whether the catalog is read from the card after this key.
Redraws == IF gui THEN FALSE ELSE previous /\ screen = "catalog"
Rest(reads) == Done(IF reads \/ Redraws THEN "list" ELSE "tick")

NoKey ==
  /\ Idle /\ key = "none"
  /\ Remember /\ Rest(FALSE) /\ UNCHANGED <<setup, screen, error, modes>>

HomeKey ==
  /\ Idle /\ key = "back"
  /\ screen' = "home" /\ error' = FALSE
  /\ Remember /\ Done("tick") /\ UNCHANGED <<setup, modes>>

MoveKey ==
  /\ Idle /\ key = "move"
  /\ \/ Rest(screen = "catalog" /\ ~error)
     \/ gui /\ Rest(FALSE)  \* within the page
  /\ Remember /\ UNCHANGED <<setup, screen, error, modes>>

\* Enter, on an entry that starts something.
Enters == Idle /\ key = "enter"
Starts(mode) == Enters /\ mode \in scene.starts
Refused == error' = gui /\ previous' = FALSE
Accepted == error' = FALSE /\ Remember

PlayKey ==
  /\ Starts("local") /\ screen = "catalog"
  /\ \/ local' = "on" /\ Accepted
     \/ Refused /\ UNCHANGED local
  /\ Rest(FALSE) /\ UNCHANGED <<setup, screen, sync, voice>>

CatalogKey ==
  /\ Starts("local") /\ screen = "home"
  /\ screen' = "catalog" /\ Accepted
  /\ Done("list") /\ UNCHANGED <<setup, modes>>

RecordKey ==
  /\ Starts("local") /\ screen = "home"
  /\ \/ local' = "on" /\ Accepted
     \/ Refused /\ UNCHANGED local
  /\ Done("tick") /\ UNCHANGED <<setup, screen, sync, voice>>

SyncStartKey ==
  /\ Starts("sync") /\ screen = "home"
  /\ \/ sync' = "on" /\ Accepted
     \/ Refused /\ UNCHANGED sync
  /\ Done("tick") /\ UNCHANGED <<setup, screen, local, voice>>

VoiceStartKey ==
  /\ Starts("voice") /\ screen = "home"
  /\ \/ voice' = "on" /\ Accepted
     \/ Refused /\ UNCHANGED voice
  /\ Done("tick") /\ UNCHANGED <<setup, screen, local, sync>>

\* recorder_setup_start, and the steps that may fail before it begins.
SetupStartKey ==
  /\ Starts("setup") /\ screen = "home"
  /\ \/ StartSetup /\ Accepted /\ UNCHANGED <<server, scene, online>>
     \/ Refused /\ Goto("main", "tick") /\ UNCHANGED <<identity, setup, server, scene, online>>
  /\ key' = "none" /\ seen' = Unseen
  /\ UNCHANGED <<screen, modes>>

LeaveKey ==
  /\ Enters /\ screen = "busy"
  /\ screen' = "home" /\ Accepted
  /\ Done("tick") /\ UNCHANGED <<setup, modes>>

Dispatch ==
  /\ Main("dispatch")
  /\ \/ VoiceKey \/ SyncKey \/ SetupKey \/ LocalKey
     \/ NoKey \/ HomeKey \/ MoveKey
     \/ PlayKey \/ CatalogKey \/ RecordKey \/ SyncStartKey \/ VoiceStartKey
     \/ SetupStartKey \/ LeaveKey

\* storage_catalog, in catalog_load or the text redraw; it may fail.
List ==
  /\ Main("list") /\ Goto("main", "tick")
  /\ \/ UNCHANGED <<error, previous>>
     \/ error' = gui /\ previous' = (previous /\ ~gui)
  /\ UNCHANGED <<identity, setup, server, scene, screen, loopvars, modes, online>>

-------------------------------------------------------------------------------
(***************************************************************************)
(* Setup on the screen: setup_show, setup_clear.                           *)
(***************************************************************************)

Still == UNCHANGED <<server, scene, screenvars, loopvars, modes, online>>
On(s, on) ==
  IF gui THEN screen' = s /\ error' = FALSE /\ previous' = on ELSE UNCHANGED screenvars

SetupStarts ==
  \/ ShowSetup /\ On("busy", TRUE) /\ UNCHANGED <<server, scene, loopvars, modes, online>>
  \/ (AdvertiseSetup \/ RegisterControl \/ ActivateSetup) /\ Still
  \/ /\ FailSetup
     /\ error' = gui /\ previous' = FALSE
     /\ screen' = IF shown /\ gui THEN "home" ELSE screen
     /\ UNCHANGED <<server, scene, loopvars, modes, online>>

SetupStops(t) ==
  \/ (ClaimStop(t) \/ CloseSetup(t)) /\ Still
  \/ /\ HideSetup(t)
     /\ IF shown THEN On("home", FALSE) ELSE UNCHANGED screenvars
     /\ UNCHANGED <<server, scene, loopvars, modes, online>>

-------------------------------------------------------------------------------
(***************************************************************************)
(* The other tasks.                                                        *)
(***************************************************************************)

\* Sync and voice ask for tokens, which they wait for before they end.
Busy(mode) == mode # "off"
Calls == Busy(sync) \/ Busy(voice)

ModeAsksToken ==
  /\ Calls /\ scene.signs /\ \E r \in Resources : AccessBegin(r)
  /\ UNCHANGED <<setup, task>> /\ Still

LocalEnds == /\ Busy(local) /\ local' = "off" /\ UNCHANGED <<sync, voice>>
SyncEnds == /\ Busy(sync) /\ reader.pc = "idle" /\ sync' = "off"
            /\ UNCHANGED <<local, voice>>
VoiceEnds == /\ Busy(voice) /\ reader.pc = "idle" /\ voice' = "off"
             /\ UNCHANGED <<local, sync>>
ModeEnds ==
  /\ LocalEnds \/ SyncEnds \/ VoiceEnds
  /\ UNCHANGED <<identity, setup, task, server, scene, screenvars, loopvars, online>>

\* network_event: an address is given, or the connection is lost.  Whether it
\* is tried again (retries) is between the driver and the access point.
Network ==
  /\ scene.clients /\ online' = ~online
  /\ UNCHANGED <<identity, setup, task, server, scene, screenvars, loopvars, modes>>

Lan ==
  /\ Serve
  /\ UNCHANGED <<identity, setup, task, scene, screenvars, loopvars, modes, online>>

LanRequest ==
  /\ scene.clients /\ \E kind \in {"list", "file"} : Request(kind)
  /\ UNCHANGED <<identity, setup, task, scene, screenvars, loopvars, modes, online>>

Restart ==
  /\ RebootSetup /\ RebootServer
  /\ screen' = "home" /\ error' = FALSE /\ previous' = FALSE
  /\ seen' = Unseen /\ key' = "none"
  /\ local' = "off" /\ sync' = "off" /\ voice' = "off" /\ online' = FALSE
  /\ UNCHANGED scene

-------------------------------------------------------------------------------
MainTask ==
  \/ Tick /\ Still
  \/ Ended \/ Look \/ Key \/ Paused \/ PauseTimeout \/ Dispatch \/ List
  \/ SetupStarts \/ SetupStops("main")

BleTask == SetupStops("ble")
Requests == (FinishRequest \/ (scene.signs /\ AuthRequest)) /\ Still
Work(A) == A /\ UNCHANGED <<setup, task>> /\ Still
Timers == (RadioCloses \/ SetupExpires) /\ Still

Init ==
  /\ SetupInit /\ ServerInit
  /\ scene \in Scenes /\ screen = "home" /\ error = FALSE /\ previous = FALSE
  /\ seen = Unseen /\ key = "none"
  /\ local = "off" /\ sync = "off" /\ voice = "off" /\ online = FALSE

Next ==
  \/ MainTask \/ BleTask \/ Requests \/ Timers
  \/ Work(Grant \/ CodeExpires \/ SpawnGrant \/ Unlink \/ Access)
  \/ ModeAsksToken \/ ModeEnds \/ Network \/ LanRequest \/ Lan \/ Restart

Spec == Init /\ [][Next]_device

-------------------------------------------------------------------------------
\* Recording and playback, Sync, the voice session and setup exclude each other
\* ("Modes are mutually exclusive"), although each ends in a task of its own
\* while the loop acts on statuses it read earlier.
ModesExclusive ==
  LET On1 == {m \in {"local", "sync", "voice", "setup"} :
                CASE m = "local" -> Busy(local) [] m = "sync" -> Busy(sync)
                  [] m = "voice" -> Busy(voice) [] OTHER -> manager}
  IN \A m, n \in On1 : m = n

\* No request reads the card while a mode runs or the main task reads it: not
\* one that was let in just before a key, nor one whose pause timed out
\* ("All routes return 503 outside healthy Home/idle before touching SD").
CardExclusive ==
  At("read") => ~Busy(local) /\ ~Busy(sync) /\ ~Busy(voice) /\ ~manager /\ ~Main("list")

\* Back is never lost on a running mode: when it has been dealt with, every mode
\* that is still on was told to stop.  No client of the LAN server, and no end of
\* another mode, can make it time out or go to the wrong place ("Setup, Sync,
\* and AI stop on KEY2").
BackHeard ==
  [][key = "back" /\ key' = "none" =>
       /\ local' # "on" /\ sync' # "on" /\ voice' # "on"
       /\ active' => stop_requested' \/ task'.main = "claim"]_device
===============================================================================

--------------------------- MODULE RecordingProcessor ---------------------------
(***************************************************************************)
(* The proxy's recording processor (processing.py, sidecars.py): requests  *)
(* to process a recording, or for its status, interleave at every await.   *)
(* One processing request holds the slot; the outcome is two sidecars in   *)
(* the user's drive, the text and then the JSON that completes it, which   *)
(* are all that survives a restart.                                        *)
(*                                                                         *)
(* A text is named by the request that transcribed it, and a JSON document *)
(* by the text and the version (eTag) of the recording it describes.  The  *)
(* drive and its user are external.                                        *)
(***************************************************************************)
EXTENDS Integers, FiniteSets

CONSTANTS
  MaxRequests, \* requests in all, 1..MaxRequests in the order they begin
  Recordings,
  MaxEdits, MaxRestarts, \* bounds: what the user does, restarts of the proxy
  None, User   \* no item; an item that is not the proxy's

Requests == 1..MaxRequests
Versions == 1..(MaxEdits + 1)
Doc == [text : Requests, version : Versions]

ASSUME ProcessorAssumption ==
  /\ MaxRequests \in Nat /\ MaxEdits \in Nat /\ MaxRestarts \in Nat
  /\ None # User
  /\ {None, User} \cap (Recordings \cup Requests \cup Doc) = {}

VARIABLES
  req,      \* the requests: where each is, and what it has read
  running,  \* the recording being processed, or None
  source,   \* the drive: version of each recording, and whether its bytes are
            \* those the requests name; or None
  sidecar,  \* the drive: text and JSON beside each recording
  late,     \* writes that were given up but may still reach the drive
  touched,  \* history: recordings whose sidecars the user changed
  strayed,  \* history: recordings beside which a late write was stored
  begun, edits, restarts

drive == <<source, touched, edits>>
vars == <<req, running, source, sidecar, late, touched, strayed, begun, edits, restarts>>

Reconciling == {"json", "text", "readtext", "readjson"}
Checks == {"check1", "check2", "check3", "check4"}
Puts == {"puttext", "putjson"}
Working == {"resolve", "open", "download", "transcribe"} \cup Reconciling \cup Checks \cup Puts
Leaving == {"cleanup", "closing"}
Active(q) == req[q].pc \in Working \cup Leaving
Workers == {q \in Requests : Active(q) /\ req[q].kind = "process"}

Write == [of : Recordings, name : {"text"}, value : Requests]
         \cup [of : Recordings, name : {"json"}, value : Doc]
Request == [pc : Working \cup Leaving \cup {"new", "ended"}, kind : {"process", "status"},
            of : Recordings \cup {None}, version : 0..(MaxEdits + 1),
            json : Doc \cup {None, User}, text : Requests \cup {None, User},
            right : BOOLEAN, spool : BOOLEAN, saved : BOOLEAN,
            out : {"none", "error", "conflict", "source_changed", "not_found",
                   "not_started", "retry_required", "completed"}]

TypeOK ==
  /\ req \in [Requests -> Request]
  /\ running \in Recordings \cup {None}
  /\ source \in [Recordings -> [version : Versions, same : BOOLEAN] \cup {None}]
  /\ sidecar \in [Recordings -> [text : Requests \cup {None, User}, json : Doc \cup {None, User}]]
  /\ late \subseteq Write /\ touched \cup strayed \subseteq Recordings
  /\ begun \in 0..MaxRequests /\ edits \in 0..MaxEdits /\ restarts \in 0..MaxRestarts

Fresh == [pc |-> "new", kind |-> "status", of |-> None, version |-> 0, json |-> None,
          text |-> None, right |-> FALSE, spool |-> FALSE, saved |-> FALSE, out |-> "none"]

Init ==
  /\ req = [q \in Requests |-> Fresh]
  /\ running = None
  /\ source = [r \in Recordings |-> [version |-> 1, same |-> TRUE]]
  /\ sidecar = [r \in Recordings |-> [text |-> None, json |-> None]]
  /\ late = {} /\ touched = {} /\ strayed = {}
  /\ begun = 0 /\ edits = 0 /\ restarts = 0

-------------------------------------------------------------------------------
\* Where a request goes.

At(q, p) == req[q].pc = p
Source(q) == source[req[q].of]
Beside(q) == sidecar[req[q].of]

To(q, p) == req' = [req EXCEPT ![q].pc = p]

\* An exception or a result: the spool file first, then the Graph client.
Leave(q, o) ==
  req' = [req EXCEPT ![q].pc = IF req[q].spool THEN "cleanup" ELSE "closing", ![q].out = o]

\* What is kept of a request that is over.
Over(s) == [Fresh EXCEPT !.pc = "ended", !.right = s.right, !.spool = s.spool]

-------------------------------------------------------------------------------
\* RecordingProcessor.handle

\* Contention is rejected, never queued; there is no await before the slot is taken.
Begin(r, kind) ==
  /\ begun < MaxRequests /\ begun' = begun + 1
  /\ LET q == begun + 1
         answered == running = r   \* "processing", or 409
         busy == kind = "process" /\ running # None
     IN
     IF answered \/ busy
     THEN req' = [req EXCEPT ![q] = Over(@)] /\ UNCHANGED running
     ELSE /\ req' = [req EXCEPT ![q] = [@ EXCEPT !.pc = "resolve", !.kind = kind, !.of = r]]
          /\ running' = IF kind = "process" THEN r ELSE running
  /\ UNCHANGED <<drive, sidecar, late, strayed, restarts>>

\* The item, within the drive's folder; its metadata may lack a hash.
Resolve(q) ==
  /\ At(q, "resolve")
  /\ IF Source(q) = None THEN Leave(q, "not_found")
     ELSE \/ req' = [req EXCEPT ![q].pc = "json", ![q].version = Source(q).version]
          \/ ~Source(q).same /\ Leave(q, "source_changed")
  /\ UNCHANGED <<running, drive, sidecar, late, strayed, begun, restarts>>

-------------------------------------------------------------------------------
\* reconcile(), at the start and again before success is claimed.

\* Mutant: success is awaited rather than verified.
ReconciledPatiently(q, json, text) ==
  LET s == req[q]
      known == [req EXCEPT ![q].json = json, ![q].text = text]
  IN CASE json # None -> Leave(q, "completed")
       [] json = None /\ s.saved -> To(q, "json")
       [] json = None /\ ~s.saved /\ s.kind = "status" ->
            Leave(q, IF text = None THEN "not_started" ELSE "retry_required")
       [] OTHER -> req' = [known EXCEPT ![q].pc = "open"]

\* It is over with these sidecars, both found in order or absent.
Reconciled(q, json, text) ==
  LET s == req[q]
      known == [req EXCEPT ![q].json = json, ![q].text = text]
  IN CASE json # None -> Leave(q, "completed")
       [] json = None /\ s.saved -> Leave(q, "error")
       [] json = None /\ ~s.saved /\ s.kind = "status" ->
            Leave(q, IF text = None THEN "not_started" ELSE "retry_required")
       [] OTHER -> req' = [known EXCEPT ![q].pc = "open"]

LookJson(q) ==
  /\ At(q, "json")
  /\ req' = [req EXCEPT ![q].pc = "text", ![q].json = Beside(q).json]
  /\ UNCHANGED <<running, drive, sidecar, late, strayed, begun, restarts>>

LookText(q) ==
  /\ At(q, "text")
  /\ LET s == req[q] IN
     IF Beside(q).text # None
     THEN req' = [req EXCEPT ![q].pc = "readtext", ![q].text = Beside(q).text]
     ELSE IF s.json = None THEN Reconciled(q, None, None)
     ELSE req' = [req EXCEPT ![q].pc = "readjson", ![q].text = None]
  /\ UNCHANGED <<running, drive, sidecar, late, strayed, begun, restarts>>

Look(q) == LookJson(q) \/ LookText(q)

\* recover_text: the checksum tells the proxy's text for this operation.
ReadText(q) ==
  /\ At(q, "readtext")
  /\ LET s == req[q]
         read == Beside(q).text
     IN CASE read = User -> Leave(q, "conflict")
          [] read # User /\ read # s.text -> Leave(q, "not_found")
          [] OTHER -> IF s.json = None THEN Reconciled(q, None, s.text) ELSE To(q, "readjson")
  /\ UNCHANGED <<running, drive, sidecar, late, strayed, begun, restarts>>

\* The document must be of this version and of the text beside it.
ReadJson(q) ==
  /\ At(q, "readjson")
  /\ LET s == req[q]
         read == Beside(q).json
     IN CASE read = User -> Leave(q, "conflict")
          [] read # User /\ read # s.json -> Leave(q, "not_found")
          [] read \in Doc /\ read = s.json ->
               IF read.version # s.version THEN Leave(q, "source_changed")
               ELSE IF read.text # s.text THEN Leave(q, "conflict")
               ELSE Reconciled(q, read, s.text)
  /\ UNCHANGED <<running, drive, sidecar, late, strayed, begun, restarts>>

-------------------------------------------------------------------------------
\* _process

\* The open is joined when the request is cancelled: that is Stop after it.
OpenSpool(q) ==
  /\ At(q, "open")
  /\ req' = [req EXCEPT ![q].pc = "download", ![q].spool = TRUE]
  /\ UNCHANGED <<running, drive, sidecar, late, strayed, begun, restarts>>

\* Mutant: the digest of what was downloaded is not compared.
DownloadUnhashed(q) ==
  /\ At(q, "download")
  /\ IF Source(q) = None THEN Leave(q, "not_found")
     ELSE req' = [req EXCEPT ![q].pc = "check1", ![q].right = Source(q).same]
  /\ UNCHANGED <<running, drive, sidecar, late, strayed, begun, restarts>>

\* The bytes, hashed as they arrive, must be those of the request.
Download(q) ==
  /\ At(q, "download")
  /\ IF Source(q) = None THEN Leave(q, "not_found")
     ELSE IF ~Source(q).same THEN Leave(q, "source_changed")
     ELSE req' = [req EXCEPT ![q].pc = "check1", ![q].right = TRUE]
  /\ UNCHANGED <<running, drive, sidecar, late, strayed, begun, restarts>>

\* A text found at the start is recovered: nothing is transcribed or put.
AfterCheck(q) ==
  CASE At(q, "check1") -> IF req[q].text = None THEN "transcribe" ELSE "check2"
    [] At(q, "check2") -> IF req[q].text = None THEN "puttext" ELSE "check3"
    [] At(q, "check3") -> "putjson"
    [] At(q, "check4") -> "json"

\* _unchanged, before every write and before the sidecars are read back.
Unchanged(q) ==
  /\ req[q].pc \in Checks
  /\ IF Source(q) = None THEN Leave(q, "not_found")
     ELSE IF Source(q).version # req[q].version THEN Leave(q, "source_changed")
     ELSE To(q, AfterCheck(q))
  /\ UNCHANGED <<running, drive, sidecar, late, strayed, begun, restarts>>

Transcribe(q) ==
  /\ At(q, "transcribe")
  /\ To(q, "check2")
  /\ UNCHANGED <<running, drive, sidecar, late, strayed, begun, restarts>>

\* The write a request has under way.
WriteOf(q) ==
  IF At(q, "puttext") THEN [of |-> req[q].of, name |-> "text", value |-> q]
  ELSE [of |-> req[q].of, name |-> "json",
        value |-> [text |-> req[q].text, version |-> req[q].version]]

Free(p) == sidecar[p.of][p.name] = None
Store(p) == sidecar' = [sidecar EXCEPT ![p.of][p.name] = p.value]

\* The answered write: the text's item is what the JSON will name.
Written(q) ==
  IF At(q, "puttext") THEN req' = [req EXCEPT ![q].pc = "check3", ![q].text = q]
  ELSE req' = [req EXCEPT ![q].pc = "check4", ![q].saved = TRUE]

\* Mutant: conflictBehavior replace.
PutReplacing(q) ==
  /\ req[q].pc \in Puts
  /\ Store(WriteOf(q))
  /\ Written(q) \/ Leave(q, "error")
  /\ UNCHANGED <<running, drive, late, strayed, begun, restarts>>

\* put_new creates or fails; the answer may be lost.
Put(q) ==
  /\ req[q].pc \in Puts
  /\ IF Free(WriteOf(q)) THEN Store(WriteOf(q)) /\ (Written(q) \/ Leave(q, "error"))
     ELSE Leave(q, "conflict") /\ UNCHANGED sidecar
  /\ UNCHANGED <<running, drive, late, strayed, begun, restarts>>

-------------------------------------------------------------------------------
\* How requests end.

\* A request to the drive or to Speech fails, or the client cancels or is gone, its
\* token expires or the deadline passes: a write under way may still arrive.
Stop(q) ==
  /\ req[q].pc \in Working
  /\ Leave(q, "error")
  /\ \/ UNCHANGED late
     \/ req[q].pc \in Puts /\ late' = late \cup {WriteOf(q)}
  /\ UNCHANGED <<running, drive, sidecar, strayed, begun, restarts>>

\* Mutant: a cancelled clean-up is not joined.
StopAgainUnjoined(q) ==
  /\ req[q].pc \in Leaving
  /\ req' = [req EXCEPT ![q].pc = "closing", ![q].out = "error"]
  /\ UNCHANGED <<running, drive, sidecar, late, strayed, begun, restarts>>

\* finish_task: cancelled again, a request still cleans up, and then is cancelled.
StopAgain(q) ==
  /\ req[q].pc \in Leaving
  /\ req' = [req EXCEPT ![q].out = "error"]
  /\ UNCHANGED <<running, drive, sidecar, late, strayed, begun, restarts>>

RemoveSpool(q) ==
  /\ At(q, "cleanup")
  /\ req' = [req EXCEPT ![q].pc = "closing", ![q].spool = FALSE]
  /\ UNCHANGED <<running, drive, sidecar, late, strayed, begun, restarts>>

\* The Graph client is closed, then the slot is free.
Close(q) ==
  /\ At(q, "closing")
  /\ req' = [req EXCEPT ![q] = Over(@)]
  /\ running' = IF req[q].kind = "process" THEN None ELSE running
  /\ UNCHANGED <<drive, sidecar, late, strayed, begun, restarts>>

-------------------------------------------------------------------------------
\* The drive, its user, and restarts of the proxy.

LandLate ==
  \E p \in late :
    /\ late' = late \ {p}
    /\ IF Free(p) THEN Store(p) /\ strayed' = strayed \cup {p.of}
       ELSE UNCHANGED <<sidecar, strayed>>
    /\ UNCHANGED <<req, running, drive, begun, restarts>>

\* The user replaces a recording or changes what its eTag covers, or removes it.
EditSource(r) ==
  /\ edits < MaxEdits /\ edits' = edits + 1
  /\ source[r] # None
  /\ \/ \E same \in {source[r].same, FALSE} :
          source' = [source EXCEPT ![r] = [version |-> @.version + 1, same |-> same]]
     \/ source' = [source EXCEPT ![r] = None]
  /\ UNCHANGED <<req, running, sidecar, late, touched, strayed, begun, restarts>>

\* The user removes a sidecar, edits it or puts a file of that name.
EditSidecar(r) ==
  /\ edits < MaxEdits /\ edits' = edits + 1
  /\ \E name \in {"text", "json"}, value \in {None, User} :
       /\ sidecar[r][name] # value
       /\ sidecar' = [sidecar EXCEPT ![r][name] = value]
  /\ touched' = touched \cup {r}
  /\ UNCHANGED <<req, running, source, late, strayed, begun, restarts>>

\* The container is replaced: nothing of it survives, its spool included.
Restart ==
  /\ restarts < MaxRestarts /\ restarts' = restarts + 1
  /\ req' = [q \in Requests |-> IF Active(q) THEN Over([req[q] EXCEPT !.spool = FALSE]) ELSE req[q]]
  /\ running' = None
  /\ \E p \in SUBSET {WriteOf(q) : q \in {x \in Requests : req[x].pc \in Puts}} :
       late' = late \cup p
  /\ UNCHANGED <<drive, sidecar, strayed, begun>>

Step(q) ==
  \/ Resolve(q) \/ Look(q) \/ ReadText(q) \/ ReadJson(q)
  \/ OpenSpool(q) \/ Download(q) \/ Unchanged(q) \/ Transcribe(q) \/ Put(q)
  \/ RemoveSpool(q) \/ Close(q)

Next ==
  \/ \E r \in Recordings, kind \in {"process", "status"} : Begin(r, kind)
  \/ \E q \in Requests : Step(q) \/ Stop(q) \/ StopAgain(q)
  \/ LandLate \/ Restart
  \/ \E r \in Recordings : EditSource(r) \/ EditSidecar(r)

Spec == Init /\ [][Next]_vars

\* The event loop runs every task, and each wait of one has a time-out of its own.
FairSpec == Spec /\ \A q \in Requests : WF_vars(Step(q))

-------------------------------------------------------------------------------
(***************************************************************************)
(* Properties.                                                             *)
(***************************************************************************)

\* One request at most processes, and the slot names its recording from before its
\* first await until it has cleaned up, however often it is cancelled.
SlotHeld ==
  /\ running = None <=> Workers = {}
  /\ \A q \in Workers : req[q].of = running
  /\ \A p, q \in Workers : p = q

\* Recordings in the spool belong to a request that has yet to remove them.
SpoolHeld == \A q \in Requests : req[q].spool => Active(q)

ResourcesHeld == SlotHeld /\ SpoolHeld

\* A JSON sidecar is a marker of completion: unless the user changed them, the text
\* it names lies beside it, although transcripts of several requests and their late
\* writes competed for the name; and a text is of the bytes the device uploaded.
CompletionTrue ==
  \A r \in Recordings :
    LET s == sidecar[r] IN
    /\ s.json \in Doc /\ r \notin touched => s.text = s.json.text
    /\ s.text \in Requests => req[s.text].right

\* The device is told of a conflict only when the user changed a sidecar, or a write
\* that was given up came late: never because of sidecars half written by a request.
NoFalseConflict ==
  \A q \in Requests : req[q].out = "conflict" => req[q].of \in touched \cup strayed

\* What the sidecars and the answers to the device say of a recording is true.
AnswersTrue == CompletionTrue /\ NoFalseConflict

\* The proxy creates sidecars and never replaces or removes one.
SidecarsKept ==
  [][\A r \in Recordings : \A name \in {"text", "json"} :
       sidecar[r][name] # None /\ sidecar'[r][name] # sidecar[r][name] => edits' # edits]_vars

\* Every request is answered or given up: when no more of them begin, all are over
\* and the slot is free.
RequestsEnd == []<>(running = None /\ \A q \in Requests : ~Active(q))
===============================================================================

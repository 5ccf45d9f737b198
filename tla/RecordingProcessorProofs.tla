------------------------ MODULE RecordingProcessorProofs ------------------------
(***************************************************************************)
(* Theorems of RecordingProcessor for any number of requests, recordings,  *)
(* restarts and changes by the user.                                       *)
(***************************************************************************)
EXTENDS RecordingProcessor, TLAPS

\* What a request knows at each await: which of its fields mean something there.
Sound(s) ==
  /\ s.pc \in Working \cup Leaving => s.of \in Recordings
  /\ s.pc \in Working \ {"resolve"} => s.version \in Versions
  /\ s.pc = "readtext" => s.text # None
  /\ s.pc = "readjson" => s.json # None
  /\ s.pc \in {"open", "download", "check1", "transcribe", "check2", "puttext"}
       => s.text \in Requests \cup {None}
  /\ s.pc \in {"check3", "putjson"} => s.text \in Requests
  /\ s.spool => s.pc \in Working \cup {"cleanup"}

Unbegun == \A q \in Requests : q > begun => req[q].pc = "new"

\* Every version of a recording is one change by the user.
Edited == \A r \in Recordings : source[r] # None => source[r].version <= edits + 1

IInv == TypeOK /\ SlotHeld /\ Unbegun /\ Edited /\ \A q \in Requests : Sound(req[q])

LEMMA InvInit == Init => IInv
<1> SUFFICES ASSUME Init PROVE IInv
  OBVIOUS
<1> USE ProcessorAssumption
<1>1. Fresh \in Request /\ Sound(Fresh) /\ Fresh.pc = "new"
  BY DEF Fresh, Request, Sound, Working, Leaving, Reconciling, Checks, Puts
<1>2. \A q \in Requests : req[q] = Fresh
  BY DEF Init
<1>3. TypeOK
  <2>1. 1 \in Versions /\ 0 \in 0..MaxRequests /\ 0 \in 0..MaxEdits /\ 0 \in 0..MaxRestarts
    BY DEF Versions
  <2> QED BY <1>1, <2>1 DEF Init, TypeOK
<1>4. Workers = {}
  BY <1>2 DEF Workers, Active, Fresh, Working, Leaving, Reconciling, Checks, Puts
<1>5. SlotHeld
  BY <1>4 DEF SlotHeld, Init
<1>6. Edited
  BY DEF Init, Edited
<1> QED BY <1>1, <1>2, <1>3, <1>5, <1>6 DEF IInv, Unbegun

\* A request moved on: to another await of its own, still with its kind and recording.
Moved(q) ==
  \E s \in Request :
    /\ Sound(s) /\ s.pc \in Working \cup Leaving
    /\ s.kind = req[q].kind /\ s.of = req[q].of
    /\ req' = [req EXCEPT ![q] = s]

\* What is true of the requests, without the types of the rest.
Served == /\ req \in [Requests -> Request] /\ \A q \in Requests : Sound(req[q])
          /\ SlotHeld /\ Unbegun

LEMMA MovedServes ==
  ASSUME IInv, NEW q \in Requests, Active(q), Moved(q), running' = running, begun' = begun
  PROVE  Served'
<1>1. PICK s \in Request : /\ Sound(s) /\ s.pc \in Working \cup Leaving
                           /\ s.kind = req[q].kind /\ s.of = req[q].of
                           /\ req' = [req EXCEPT ![q] = s]
  BY DEF Moved
<1>2. req' \in [Requests -> Request] /\ req'[q] = s /\ \A p \in Requests : p # q => req'[p] = req[p]
  BY <1>1 DEF IInv, TypeOK
<1>3. \A p \in Requests : Sound(req'[p])
  BY <1>1, <1>2 DEF IInv
<1>4. \A p \in Requests :
        /\ req'[p].kind = req[p].kind /\ req'[p].of = req[p].of
        /\ (req'[p].pc \in Working \cup Leaving) <=> (req[p].pc \in Working \cup Leaving)
  BY <1>1, <1>2 DEF Active
<1>5. Workers' = Workers
  BY <1>4 DEF Workers, Active
<1>6. SlotHeld'
  BY <1>4, <1>5 DEF SlotHeld, IInv, Workers
<1>7. Unbegun'
  BY <1>2 DEF IInv, Unbegun, Active, Working, Leaving, Reconciling, Checks, Puts
<1> QED BY <1>2, <1>3, <1>6, <1>7 DEF Served

\* The awaits a record of a request may stand before, and the answers it may get.
Answers == {"error", "conflict", "source_changed", "not_found",
            "not_started", "retry_required", "completed"}

LEMMA LeaveMoves ==
  ASSUME IInv, NEW q \in Requests, Active(q), NEW o \in Answers, Leave(q, o)
  PROVE  Moved(q)
<1> DEFINE s == [req[q] EXCEPT !.pc = IF req[q].spool THEN "cleanup" ELSE "closing", !.out = o]
<1>1. req[q] \in Request /\ req[q].of \in Recordings
  BY DEF IInv, TypeOK, Sound, Active
<1>2. /\ s \in Request /\ s.pc \in Leaving /\ s.kind = req[q].kind /\ s.of = req[q].of
      /\ s.spool = req[q].spool /\ s.spool => s.pc = "cleanup"
  BY <1>1, ZenonT(60) DEF Request, Leaving, Answers
<1>3. Sound(s)
  BY <1>1, <1>2 DEF Sound, Leaving, Working, Reconciling, Checks, Puts
<1>4. req' = [req EXCEPT ![q] = s]
  BY DEF Leave, IInv, TypeOK
<1> QED BY <1>2, <1>3, <1>4 DEF Moved

\* A request that goes to another await without learning anything.
LEMMA ToMoves ==
  ASSUME IInv, NEW q \in Requests, req[q].pc \in Working, NEW p \in Working,
         Sound([req[q] EXCEPT !.pc = p]), To(q, p)
  PROVE  Moved(q)
<1>1. req[q] \in Request
  BY DEF IInv, TypeOK
<1>2. [req[q] EXCEPT !.pc = p] \in Request
  BY <1>1 DEF Request
<1>3. /\ [req[q] EXCEPT !.pc = p].kind = req[q].kind
      /\ [req[q] EXCEPT !.pc = p].of = req[q].of
      /\ [req[q] EXCEPT !.pc = p].pc = p
  BY <1>1 DEF Request
<1>4. req' = [req EXCEPT ![q] = [req[q] EXCEPT !.pc = p]]
  BY DEF To, IInv, TypeOK
<1> QED BY <1>2, <1>3, <1>4 DEF Moved

\* What the drive holds beside a recording.
LEMMA BesideTypes ==
  ASSUME IInv, NEW q \in Requests, Active(q)
  PROVE  /\ req[q] \in Request /\ req[q].of \in Recordings
         /\ Beside(q).text \in Requests \cup {None, User}
         /\ Beside(q).json \in Doc \cup {None, User}
         /\ Source(q) \in [version : Versions, same : BOOLEAN] \cup {None}
BY DEF IInv, TypeOK, Sound, Active, Beside, Source

LEMMA ResolveMoves ==
  ASSUME IInv, NEW q \in Requests, Resolve(q)
  PROVE  Moved(q)
<1>1. Active(q) /\ req[q].pc = "resolve"
  BY DEF Resolve, At, Active, Working
<1>2. CASE \E o \in Answers : Leave(q, o)
  BY <1>1, <1>2, LeaveMoves
<1>3. CASE /\ Source(q) # None
           /\ req' = [req EXCEPT ![q].pc = "json", ![q].version = Source(q).version]
  <2> DEFINE s == [req[q] EXCEPT !.pc = "json", !.version = Source(q).version]
  <2>1. req[q] \in Request /\ req[q].of \in Recordings /\ Source(q).version \in Versions
    BY <1>1, <1>3, BesideTypes, ProcessorAssumption
  <2>2. Source(q).version \in 0..(MaxEdits + 1)
    BY <2>1, ProcessorAssumption DEF Versions
  <2>3. s \in Request /\ s = [req[q] EXCEPT !.pc = "json", !.version = Source(q).version]
    BY <2>1, <2>2 DEF Request, Working, Reconciling
  <2>4. s.pc = "json" /\ s.of = req[q].of /\ s.kind = req[q].kind /\ s.version = Source(q).version
    BY <2>1 DEF Request
  <2>5. Sound(s)
    BY <2>1, <2>4 DEF Sound, Working, Reconciling, Leaving
  <2>6. req' = [req EXCEPT ![q] = s]
    BY <1>3 DEF IInv, TypeOK
  <2> QED BY <2>3, <2>4, <2>5, <2>6 DEF Moved, Working, Reconciling
<1> QED BY <1>1, <1>2, <1>3 DEF Resolve, Answers

LEMMA ReconciledMoves ==
  ASSUME IInv, NEW q \in Requests, req[q].pc \in Reconciling,
         NEW json \in Doc \cup {None}, NEW text,
         json = None => text \in Requests \cup {None}, Reconciled(q, json, text)
  PROVE  Moved(q)
<1>1. Active(q) /\ req[q].pc \in Working \ {"resolve"}
  BY DEF Active, Working, Reconciling
<1>2. CASE \E o \in Answers : Leave(q, o)
  BY <1>1, <1>2, LeaveMoves
<1>3. CASE /\ json = None
           /\ req' = [[req EXCEPT ![q].json = json, ![q].text = text] EXCEPT ![q].pc = "open"]
  <2> DEFINE s == [req[q] EXCEPT !.json = json, !.text = text, !.pc = "open"]
  <2>1. req[q] \in Request /\ req[q].of \in Recordings /\ req[q].version \in Versions
    BY <1>1 DEF IInv, TypeOK, Sound
  <2>2. text \in Requests \cup {None}
    BY <1>3
  <2>3. s \in Request
    BY <2>1, <2>2 DEF Request, Working
  <2>4. /\ s.pc = "open" /\ s.of = req[q].of /\ s.kind = req[q].kind
        /\ s.version = req[q].version /\ s.text = text
    BY <2>1 DEF Request
  <2>5. Sound(s)
    BY <2>1, <2>2, <2>4 DEF Sound, Working
  <2>6. req' = [req EXCEPT ![q] = s]
    BY <1>3 DEF IInv, TypeOK
  <2> QED BY <2>3, <2>4, <2>5, <2>6 DEF Moved, Working
<1>4. json # None => Leave(q, "completed")
  BY DEF Reconciled
<1>5. json = None /\ req[q].saved => Leave(q, "error")
  BY DEF Reconciled
<1>6. json = None /\ ~req[q].saved /\ req[q].kind = "status"
        => Leave(q, IF text = None THEN "not_started" ELSE "retry_required")
  BY DEF Reconciled
<1>7. json = None /\ ~req[q].saved /\ req[q].kind # "status"
        => req' = [[req EXCEPT ![q].json = json, ![q].text = text] EXCEPT ![q].pc = "open"]
  BY DEF Reconciled
<1>8. req[q].saved \in BOOLEAN
  BY DEF IInv, TypeOK, Request
<1> QED BY <1>2, <1>3, <1>4, <1>5, <1>6, <1>7, <1>8 DEF Answers

LEMMA LookMoves ==
  ASSUME IInv, NEW q \in Requests, Look(q)
  PROVE  Moved(q)
<1>1. /\ req[q].pc \in {"json", "text"} /\ Active(q) /\ req[q].pc \in Reconciling
      /\ req[q].pc \in Working \ {"resolve"}
  BY DEF Look, LookJson, LookText, At, Active, Working, Reconciling
<1>2. req[q] \in Request /\ req[q].of \in Recordings /\ req[q].version \in Versions
  BY <1>1 DEF IInv, TypeOK, Sound
<1>3. /\ Beside(q).text \in Requests \cup {None, User}
      /\ Beside(q).json \in Doc \cup {None, User}
  BY <1>1, BesideTypes
<1>4. CASE req' = [req EXCEPT ![q].pc = "text", ![q].json = Beside(q).json]
  <2> DEFINE s == [req[q] EXCEPT !.pc = "text", !.json = Beside(q).json]
  <2>1. s \in Request
    BY <1>2, <1>3 DEF Request, Working, Reconciling
  <2>2. s.pc = "text" /\ s.of = req[q].of /\ s.kind = req[q].kind /\ s.version = req[q].version
    BY <1>2 DEF Request
  <2>3. Sound(s)
    BY <1>2, <2>2 DEF Sound, Working, Reconciling
  <2>4. req' = [req EXCEPT ![q] = s]
    BY <1>4 DEF IInv, TypeOK
  <2> QED BY <2>1, <2>2, <2>3, <2>4 DEF Moved, Working, Reconciling
<1>5. CASE /\ Beside(q).text # None
           /\ req' = [req EXCEPT ![q].pc = "readtext", ![q].text = Beside(q).text]
  <2> DEFINE s == [req[q] EXCEPT !.pc = "readtext", !.text = Beside(q).text]
  <2>1. s \in Request
    BY <1>2, <1>3 DEF Request, Working, Reconciling
  <2>2. /\ s.pc = "readtext" /\ s.of = req[q].of /\ s.kind = req[q].kind
        /\ s.version = req[q].version /\ s.text = Beside(q).text
    BY <1>2 DEF Request
  <2>3. Sound(s)
    BY <1>2, <1>5, <2>2 DEF Sound, Working, Reconciling
  <2>4. req' = [req EXCEPT ![q] = s]
    BY <1>5 DEF IInv, TypeOK
  <2> QED BY <2>1, <2>2, <2>3, <2>4 DEF Moved, Working, Reconciling
<1>6. CASE Reconciled(q, None, None)
  BY <1>1, <1>6, ReconciledMoves
<1>7. CASE /\ req[q].json # None
           /\ req' = [req EXCEPT ![q].pc = "readjson", ![q].text = None]
  <2> DEFINE s == [req[q] EXCEPT !.pc = "readjson", !.text = None]
  <2>1. s \in Request
    BY <1>2 DEF Request, Working, Reconciling
  <2>2. /\ s.pc = "readjson" /\ s.of = req[q].of /\ s.kind = req[q].kind
        /\ s.version = req[q].version /\ s.json = req[q].json
    BY <1>2 DEF Request
  <2>3. Sound(s)
    BY <1>2, <1>7, <2>2 DEF Sound, Working, Reconciling
  <2>4. req' = [req EXCEPT ![q] = s]
    BY <1>7 DEF IInv, TypeOK
  <2> QED BY <2>1, <2>2, <2>3, <2>4 DEF Moved, Working, Reconciling
<1> QED BY <1>4, <1>5, <1>6, <1>7 DEF Look, LookJson, LookText

LEMMA ReadTextMoves ==
  ASSUME IInv, NEW q \in Requests, ReadText(q)
  PROVE  Moved(q)
<1>1. req[q].pc = "readtext" /\ Active(q) /\ req[q].pc \in Reconciling /\ req[q].text # None
  BY DEF ReadText, At, Active, Working, Reconciling, IInv, Sound
<1>2. Beside(q).text \in Requests \cup {None, User}
  BY <1>1, BesideTypes
<1>3. CASE \E o \in Answers : Leave(q, o)
  BY <1>1, <1>3, LeaveMoves
<1>4. CASE Beside(q).text # User /\ Beside(q).text = req[q].text
  <2>1. req[q].text \in Requests
    BY <1>1, <1>2, <1>4
  <2>2. CASE req[q].json = None /\ Reconciled(q, None, req[q].text)
    BY <1>1, <2>1, <2>2, ReconciledMoves
  <2>3. CASE req[q].json # None /\ To(q, "readjson")
    <3> DEFINE s == [req[q] EXCEPT !.pc = "readjson"]
    <3>1. req[q] \in Request /\ Sound(req[q])
      BY DEF IInv, TypeOK
    <3>2. /\ s.pc = "readjson" /\ s.of = req[q].of /\ s.version = req[q].version
          /\ s.json = req[q].json
      BY <3>1 DEF Request
    <3>3. Sound(s)
      BY <1>1, <2>3, <3>1, <3>2 DEF Sound, Working, Reconciling
    <3> QED BY <1>1, <2>3, <3>3, ToMoves DEF Working, Reconciling
  <2> QED BY <1>4, <2>2, <2>3 DEF ReadText
<1>5. Beside(q).text = User => Leave(q, "conflict")
  BY DEF ReadText
<1>6. Beside(q).text # User /\ Beside(q).text # req[q].text => Leave(q, "not_found")
  BY DEF ReadText
<1> QED BY <1>3, <1>4, <1>5, <1>6 DEF Answers

LEMMA ReadJsonMoves ==
  ASSUME IInv, NEW q \in Requests, ReadJson(q)
  PROVE  Moved(q)
<1>1. req[q].pc = "readjson" /\ Active(q) /\ req[q].pc \in Reconciling /\ req[q].json # None
  BY DEF ReadJson, At, Active, Working, Reconciling, IInv, Sound
<1>2. Beside(q).json \in Doc \cup {None, User}
  BY <1>1, BesideTypes
<1>3. CASE \E o \in Answers : Leave(q, o)
  BY <1>1, <1>3, LeaveMoves
<1>4. User \notin Doc /\ None \notin Doc
  BY ProcessorAssumption
<1>5. Beside(q).json = User => Leave(q, "conflict")
  BY <1>4 DEF ReadJson
<1>6. Beside(q).json # User /\ Beside(q).json # req[q].json => Leave(q, "not_found")
  BY <1>4 DEF ReadJson
<1>7. ASSUME Beside(q).json # User, Beside(q).json = req[q].json
      PROVE  /\ Beside(q).json \in Doc
             /\ \/ Leave(q, "source_changed") \/ Leave(q, "conflict")
                \/ Reconciled(q, Beside(q).json, req[q].text)
  <2>1. Beside(q).json \in Doc
    BY <1>1, <1>2, <1>7
  <2> QED BY <1>7, <2>1 DEF ReadJson
<1>8. CASE Beside(q).json \in Doc /\ Reconciled(q, Beside(q).json, req[q].text)
  BY <1>1, <1>4, <1>8, ReconciledMoves
<1> QED BY <1>3, <1>5, <1>6, <1>7, <1>8 DEF Answers

LEMMA CheckMoves ==
  ASSUME IInv, NEW q \in Requests, Unchanged(q)
  PROVE  Moved(q)
<1>1. req[q].pc \in Checks /\ Active(q) /\ req[q].pc \in Working
  BY DEF Unchanged, Active, Working
<1>2. CASE \E o \in Answers : Leave(q, o)
  BY <1>1, <1>2, LeaveMoves
<1>3. CASE To(q, AfterCheck(q))
  <2> DEFINE p == AfterCheck(q)
             s == [req[q] EXCEPT !.pc = p]
  <2>1. req[q] \in Request /\ Sound(req[q])
    BY DEF IInv, TypeOK
  <2>2. /\ p \in {"transcribe", "check2", "puttext", "check3", "putjson", "json"}
        /\ p = "puttext" => req[q].pc = "check2"
        /\ p \in {"transcribe", "check2"} => req[q].pc = "check1"
        /\ p = "check3" => req[q].pc = "check2" /\ req[q].text # None
        /\ p = "putjson" => req[q].pc = "check3"
    BY <1>1 DEF AfterCheck, At, Checks
  <2>3. p \in Working
    BY <2>2 DEF Working, Reconciling, Checks, Puts
  <2>4. /\ s.pc = p /\ s.of = req[q].of /\ s.version = req[q].version /\ s.text = req[q].text
    BY <2>1 DEF Request
  <2>5. req[q].of \in Recordings /\ req[q].version \in Versions
    BY <1>1, <2>1 DEF Sound, Working, Checks
  <2>6. p \in {"transcribe", "check2", "puttext"} => req[q].text \in Requests \cup {None}
    BY <2>1, <2>2 DEF Sound
  <2>7. p \in {"check3", "putjson"} => req[q].text \in Requests
    BY <2>1, <2>2 DEF Sound
  <2>8. Sound(s)
    BY <2>2, <2>3, <2>4, <2>5, <2>6, <2>7 DEF Sound
  <2> HIDE DEF p
  <2> QED BY <1>1, <1>3, <2>3, <2>8, ToMoves DEF p
<1> QED BY <1>2, <1>3 DEF Unchanged, Answers

LEMMA WorkMoves ==
  ASSUME IInv, NEW q \in Requests, OpenSpool(q) \/ Download(q) \/ Transcribe(q)
  PROVE  Moved(q)
<1>1. req[q].pc \in {"open", "download", "transcribe"} /\ Active(q) /\ req[q].pc \in Working
  BY DEF OpenSpool, Download, Transcribe, At, Active, Working
<1>2. req[q] \in Request /\ Sound(req[q])
  BY DEF IInv, TypeOK
<1>3. /\ req[q].of \in Recordings /\ req[q].version \in Versions
      /\ req[q].text \in Requests \cup {None}
  BY <1>1, <1>2 DEF Sound, Working
<1>4. CASE OpenSpool(q)
  <2> DEFINE s == [req[q] EXCEPT !.pc = "download", !.spool = TRUE]
  <2>1. s \in Request
    BY <1>2 DEF Request, Working
  <2>2. /\ s.pc = "download" /\ s.of = req[q].of /\ s.kind = req[q].kind
        /\ s.version = req[q].version /\ s.text = req[q].text
    BY <1>2 DEF Request
  <2>3. Sound(s)
    BY <1>3, <2>2 DEF Sound, Working
  <2>4. req' = [req EXCEPT ![q] = s]
    BY <1>4 DEF OpenSpool, IInv, TypeOK
  <2> QED BY <2>1, <2>2, <2>3, <2>4 DEF Moved, Working
<1>5. CASE Download(q)
  <2>1. CASE \E o \in Answers : Leave(q, o)
    BY <1>1, <2>1, LeaveMoves
  <2>2. CASE req' = [req EXCEPT ![q].pc = "check1", ![q].right = TRUE]
    <3> DEFINE s == [req[q] EXCEPT !.pc = "check1", !.right = TRUE]
    <3>1. s \in Request
      BY <1>2 DEF Request, Working, Checks
    <3>2. /\ s.pc = "check1" /\ s.of = req[q].of /\ s.kind = req[q].kind
          /\ s.version = req[q].version /\ s.text = req[q].text
      BY <1>2 DEF Request
    <3>3. Sound(s)
      BY <1>3, <3>2 DEF Sound, Working, Checks
    <3>4. req' = [req EXCEPT ![q] = s]
      BY <2>2 DEF IInv, TypeOK
    <3> QED BY <3>1, <3>2, <3>3, <3>4 DEF Moved, Working, Checks
  <2> QED BY <1>5, <2>1, <2>2 DEF Download, Answers
<1>6. CASE Transcribe(q)
  <2>1. /\ [req[q] EXCEPT !.pc = "check2"].pc = "check2"
        /\ [req[q] EXCEPT !.pc = "check2"].of = req[q].of
        /\ [req[q] EXCEPT !.pc = "check2"].version = req[q].version
        /\ [req[q] EXCEPT !.pc = "check2"].text = req[q].text
    BY <1>2 DEF Request
  <2>2. Sound([req[q] EXCEPT !.pc = "check2"])
    BY <1>3, <2>1 DEF Sound, Working, Checks
  <2> QED BY <1>1, <1>6, <2>2, ToMoves DEF Transcribe, Working, Checks
<1> QED BY <1>4, <1>5, <1>6

\* A write under way is one of the drive's.
LEMMA WriteTypes ==
  ASSUME IInv, NEW q \in Requests, req[q].pc \in Puts
  PROVE  WriteOf(q) \in Write
<1>1. /\ req[q].of \in Recordings /\ req[q].version \in Versions
      /\ req[q].pc = "putjson" => req[q].text \in Requests
  BY DEF IInv, Sound, Puts, Working
<1>2. CASE req[q].pc = "puttext"
  BY <1>1, <1>2 DEF WriteOf, Write, At
<1>3. CASE req[q].pc = "putjson"
  <2>1. [text |-> req[q].text, version |-> req[q].version] \in Doc
    BY <1>1, <1>3 DEF Doc
  <2> QED BY <1>1, <1>3, <2>1 DEF WriteOf, Write, At
<1> QED BY <1>2, <1>3 DEF Puts

Sidecars == [Recordings -> [text : Requests \cup {None, User}, json : Doc \cup {None, User}]]

LEMMA StoreTypes ==
  ASSUME sidecar \in Sidecars, NEW p \in Write, Store(p)
  PROVE  /\ sidecar' \in Sidecars
         /\ \A r \in Recordings : \A name \in {"text", "json"} :
              sidecar'[r][name] # sidecar[r][name] => r = p.of /\ name = p.name
<1>1. CASE p \in [of : Recordings, name : {"text"}, value : Requests]
  <2>1. p.of \in Recordings /\ p.name = "text" /\ p.value \in Requests
    BY <1>1
  <2>2. sidecar' = [sidecar EXCEPT ![p.of].text = p.value]
    BY <2>1 DEF Store
  <2> QED BY <2>1, <2>2 DEF Sidecars
<1>2. CASE p \in [of : Recordings, name : {"json"}, value : Doc]
  <2>1. p.of \in Recordings /\ p.name = "json" /\ p.value \in Doc
    BY <1>2
  <2>2. sidecar' = [sidecar EXCEPT ![p.of].json = p.value]
    BY <2>1 DEF Store
  <2> QED BY <2>1, <2>2 DEF Sidecars
<1> QED BY <1>1, <1>2 DEF Write

LEMMA PutMoves ==
  ASSUME IInv, NEW q \in Requests, Put(q)
  PROVE  /\ Moved(q)
         /\ \/ UNCHANGED sidecar
            \/ /\ Free(WriteOf(q))
               /\ Store(WriteOf(q))
<1>1. req[q].pc \in Puts /\ Active(q) /\ req[q].pc \in Working
  BY DEF Put, Active, Working
<1>2. req[q] \in Request /\ Sound(req[q])
  BY DEF IInv, TypeOK
<1>3. req[q].of \in Recordings /\ req[q].version \in Versions
  BY <1>1, <1>2 DEF Sound, Working, Puts
<1>4. ASSUME \E o \in Answers : Leave(q, o) PROVE Moved(q)
  BY <1>1, <1>4, LeaveMoves
<1>5. ASSUME req' = [req EXCEPT ![q].pc = "check3", ![q].text = q] PROVE Moved(q)
  <2> DEFINE s == [req[q] EXCEPT !.pc = "check3", !.text = q]
  <2>1. s \in Request
    BY <1>2 DEF Request, Working, Checks
  <2>2. /\ s.pc = "check3" /\ s.of = req[q].of /\ s.kind = req[q].kind
        /\ s.version = req[q].version /\ s.text = q
    BY <1>2 DEF Request
  <2>3. Sound(s)
    BY <1>3, <2>2 DEF Sound, Working, Checks
  <2>4. req' = [req EXCEPT ![q] = s]
    BY <1>5 DEF IInv, TypeOK
  <2> QED BY <2>1, <2>2, <2>3, <2>4 DEF Moved, Working, Checks
<1>6. ASSUME req' = [req EXCEPT ![q].pc = "check4", ![q].saved = TRUE] PROVE Moved(q)
  <2> DEFINE s == [req[q] EXCEPT !.pc = "check4", !.saved = TRUE]
  <2>1. s \in Request
    BY <1>2 DEF Request, Working, Checks
  <2>2. /\ s.pc = "check4" /\ s.of = req[q].of /\ s.kind = req[q].kind
        /\ s.version = req[q].version
    BY <1>2 DEF Request
  <2>3. Sound(s)
    BY <1>3, <2>2 DEF Sound, Working, Checks
  <2>4. req' = [req EXCEPT ![q] = s]
    BY <1>6 DEF IInv, TypeOK
  <2> QED BY <2>1, <2>2, <2>3, <2>4 DEF Moved, Working, Checks
<1>7. Moved(q)
  BY <1>4, <1>5, <1>6 DEF Put, Written, Answers
<1> QED BY <1>7 DEF Put

LEMMA CleanUpMoves ==
  ASSUME IInv, NEW q \in Requests, StopAgain(q) \/ RemoveSpool(q)
  PROVE  Moved(q)
<1>1. req[q] \in Request /\ Sound(req[q]) /\ req[q].pc \in Leaving
  BY DEF IInv, TypeOK, StopAgain, RemoveSpool, At, Leaving
<1>2. req[q].of \in Recordings
  BY <1>1 DEF Sound
<1>3. CASE StopAgain(q)
  <2> DEFINE s == [req[q] EXCEPT !.out = "error"]
  <2>1. s \in Request
    BY <1>1 DEF Request
  <2>2. s.pc = req[q].pc /\ s.of = req[q].of /\ s.kind = req[q].kind /\ s.spool = req[q].spool
    BY <1>1 DEF Request
  <2>3. Sound(s)
    BY <1>1, <2>2 DEF Sound, Working, Leaving, Reconciling, Checks, Puts
  <2>4. req' = [req EXCEPT ![q] = s]
    BY <1>3 DEF StopAgain, IInv, TypeOK
  <2> QED BY <1>1, <2>1, <2>2, <2>3, <2>4 DEF Moved
<1>4. CASE RemoveSpool(q)
  <2> DEFINE s == [req[q] EXCEPT !.pc = "closing", !.spool = FALSE]
  <2>1. s \in Request
    BY <1>1 DEF Request, Leaving
  <2>2. s.pc = "closing" /\ s.of = req[q].of /\ s.kind = req[q].kind /\ ~s.spool
    BY <1>1 DEF Request
  <2>3. Sound(s)
    BY <1>2, <2>2 DEF Sound, Working, Reconciling, Checks, Puts
  <2>4. req' = [req EXCEPT ![q] = s]
    BY <1>4 DEF RemoveSpool, IInv, TypeOK
  <2> QED BY <2>1, <2>2, <2>3, <2>4 DEF Moved, Leaving
<1> QED BY <1>3, <1>4

\* A request that is over keeps nothing.
LEMMA OverTypes ==
  ASSUME NEW s \in Request, ~s.spool
  PROVE  Over(s) \in Request /\ Sound(Over(s)) /\ Over(s).pc = "ended"
<1>1. Over(s) \in Request
  <2>1. s.right \in BOOLEAN /\ s.spool \in BOOLEAN
    BY DEF Request
  <2>2. Fresh \in Request
    BY ProcessorAssumption DEF Fresh, Request
  <2> QED BY <2>1, <2>2, ZenonT(60) DEF Over, Request
<1>2. Over(s).pc = "ended" /\ ~Over(s).spool
  BY DEF Over, Fresh
<1> QED BY <1>1, <1>2 DEF Sound, Working, Leaving, Reconciling, Checks, Puts

\* The last step of a request gives the slot back if it was its own.
LEMMA CloseServes ==
  ASSUME IInv, NEW q \in Requests, Close(q)
  PROVE  Served' /\ running' \in Recordings \cup {None}
<1>1. req[q] \in Request /\ Sound(req[q]) /\ req[q].pc = "closing" /\ ~req[q].spool
  BY DEF IInv, TypeOK, Close, At, Sound, Working, Reconciling, Checks, Puts
<1>2. Over(req[q]) \in Request /\ Sound(Over(req[q])) /\ Over(req[q]).pc = "ended"
  BY <1>1, OverTypes
<1>3. /\ req' \in [Requests -> Request] /\ req'[q] = Over(req[q])
      /\ \A p \in Requests : p # q => req'[p] = req[p]
  BY <1>2 DEF Close, IInv, TypeOK
<1>4. "ended" \notin Working \cup Leaving \cup {"new"}
  BY DEF Working, Leaving, Reconciling, Checks, Puts
<1>5. Workers' = Workers \ {q}
  BY <1>2, <1>3, <1>4 DEF Workers, Active
<1>6. q \in Workers <=> req[q].kind = "process"
  BY <1>1 DEF Workers, Active, Leaving
<1>7. SlotHeld'
  <2>1. CASE q \in Workers
    <3>1. Workers' = {} /\ running' = None
      BY <1>5, <1>6, <2>1 DEF IInv, SlotHeld, Close
    <3> QED BY <3>1 DEF SlotHeld
  <2>2. CASE q \notin Workers
    <3>1. Workers' = Workers /\ running' = running
      BY <1>5, <1>6, <2>2 DEF Close
    <3>2. \A p \in Workers : req'[p] = req[p]
      BY <1>3, <2>2 DEF Workers
    <3> QED BY <3>1, <3>2 DEF SlotHeld, IInv
  <2> QED BY <2>1, <2>2
<1>8. Unbegun'
  <2>1. begun' = begun /\ req[q].pc # "new"
    BY <1>1 DEF Close
  <2>2. \A p \in Requests : p > begun => p # q
    BY <2>1 DEF IInv, Unbegun
  <2> QED BY <1>3, <2>1, <2>2 DEF Unbegun, IInv
<1>9. \A p \in Requests : Sound(req'[p])
  BY <1>2, <1>3 DEF IInv
<1> QED BY <1>3, <1>7, <1>8, <1>9 DEF Served, Close, IInv, TypeOK

\* A new request takes the slot only when it is free.
LEMMA BeginServes ==
  ASSUME IInv, NEW r \in Recordings, NEW kind \in {"process", "status"}, Begin(r, kind)
  PROVE  Served' /\ running' \in Recordings \cup {None} /\ begun' \in 0..MaxRequests
<1> DEFINE q == begun + 1
<1>1. /\ q \in Requests /\ begun' = q /\ begun' \in 0..MaxRequests
      /\ \A p \in Requests : p > begun' => p > begun /\ p # q
  BY ProcessorAssumption DEF Begin, IInv, TypeOK, Requests
<1>2. req[q] \in Request /\ req[q].pc = "new" /\ Sound(req[q])
  BY <1>1, ProcessorAssumption DEF IInv, TypeOK, Unbegun, Requests
<1>3. "new" \notin Working \cup Leaving /\ "ended" \notin Working \cup Leaving
  BY DEF Working, Leaving, Reconciling, Checks, Puts
<1>4. ~Active(q) /\ q \notin Workers /\ ~req[q].spool
  BY <1>2, <1>3 DEF Active, Workers, Sound, Leaving
<1>5. None \notin Recordings
  BY ProcessorAssumption
<1> HIDE DEF q
<1>6. CASE req' = [req EXCEPT ![q] = Over(req[q])] /\ running' = running
  <2>1. Over(req[q]) \in Request /\ Sound(Over(req[q])) /\ Over(req[q]).pc = "ended"
    BY <1>2, <1>4, OverTypes
  <2>2. /\ req' \in [Requests -> Request] /\ req'[q] = Over(req[q])
        /\ \A p \in Requests : p # q => req'[p] = req[p]
    BY <1>1, <1>6, <2>1 DEF IInv, TypeOK
  <2>3. Workers' = Workers /\ \A p \in Workers : req'[p] = req[p]
    BY <1>3, <1>4, <2>1, <2>2 DEF Workers, Active
  <2>4. SlotHeld'
    BY <1>6, <2>3 DEF SlotHeld, IInv
  <2>5. Unbegun'
    BY <1>1, <2>2 DEF Unbegun, IInv
  <2> QED BY <1>1, <1>6, <2>1, <2>2, <2>4, <2>5 DEF Served, IInv, TypeOK
<1>7. CASE /\ running # r /\ (kind = "process" => running = None)
           /\ req' = [req EXCEPT ![q] = [req[q] EXCEPT !.pc = "resolve", !.kind = kind, !.of = r]]
           /\ running' = IF kind = "process" THEN r ELSE running
  <2> DEFINE s == [req[q] EXCEPT !.pc = "resolve", !.kind = kind, !.of = r]
  <2>1. s \in Request
    BY <1>2 DEF Request, Working
  <2>2. s.pc = "resolve" /\ s.kind = kind /\ s.of = r /\ s.spool = req[q].spool
    BY <1>2 DEF Request
  <2>3. Sound(s)
    BY <1>4, <2>2 DEF Sound, Working
  <2>4. /\ req' \in [Requests -> Request] /\ req'[q] = s
        /\ \A p \in Requests : p # q => req'[p] = req[p]
    BY <1>1, <1>7, <2>1 DEF IInv, TypeOK
  <2>5. Workers' = IF kind = "process" THEN Workers \cup {q} ELSE Workers
    BY <1>1, <1>4, <2>2, <2>4 DEF Workers, Active, Working
  <2>6. \A p \in Workers : req'[p] = req[p]
    BY <1>4, <2>4 DEF Workers
  <2>7. SlotHeld'
    <3>1. CASE kind = "process"
      <4>1. Workers = {} /\ Workers' = {q} /\ running' = r /\ req'[q].of = r
        BY <1>7, <2>2, <2>4, <2>5, <3>1 DEF SlotHeld, IInv
      <4> QED BY <1>5, <4>1 DEF SlotHeld
    <3>2. CASE kind = "status"
      BY <1>7, <2>5, <2>6, <3>2 DEF SlotHeld, IInv
    <3> QED BY <3>1, <3>2
  <2>8. Unbegun'
    BY <1>1, <2>4 DEF Unbegun, IInv
  <2> QED BY <1>1, <1>7, <2>3, <2>4, <2>7, <2>8 DEF Served, IInv, TypeOK
<1> QED BY <1>1, <1>6, <1>7 DEF Begin, q

\* A step of a request that is under way, the one that ends it apart.
LEMMA StepMoves ==
  ASSUME IInv, NEW q \in Requests, Step(q), ~Close(q)
  PROVE  /\ Moved(q) /\ Active(q)
         /\ UNCHANGED <<running, drive, late, strayed, begun, restarts>>
         /\ \/ UNCHANGED sidecar
            \/ /\ req[q].pc \in Puts
               /\ Free(WriteOf(q))
               /\ Store(WriteOf(q))
<1>1. CASE Resolve(q)
  BY <1>1, ResolveMoves DEF Resolve, At, Active, Working
<1>2. CASE Look(q)
  BY <1>2, LookMoves DEF Look, LookJson, LookText, At, Active, Working, Reconciling
<1>3. CASE ReadText(q)
  BY <1>3, ReadTextMoves DEF ReadText, At, Active, Working, Reconciling
<1>4. CASE ReadJson(q)
  BY <1>4, ReadJsonMoves DEF ReadJson, At, Active, Working, Reconciling
<1>5. CASE OpenSpool(q) \/ Download(q) \/ Transcribe(q)
  BY <1>5, WorkMoves DEF OpenSpool, Download, Transcribe, At, Active, Working
<1>6. CASE Unchanged(q)
  BY <1>6, CheckMoves DEF Unchanged, Active, Working
<1>7. CASE Put(q)
  BY <1>7, PutMoves DEF Put, Active, Working
<1>8. CASE RemoveSpool(q)
  BY <1>8, CleanUpMoves DEF RemoveSpool, At, Active, Leaving
<1> QED BY <1>1, <1>2, <1>3, <1>4, <1>5, <1>6, <1>7, <1>8 DEF Step

\* The types of what is not the requests'.
World == /\ running \in Recordings \cup {None}
         /\ source \in [Recordings -> [version : Versions, same : BOOLEAN] \cup {None}]
         /\ sidecar \in Sidecars
         /\ late \subseteq Write /\ touched \cup strayed \subseteq Recordings
         /\ begun \in 0..MaxRequests /\ edits \in 0..MaxEdits /\ restarts \in 0..MaxRestarts
         /\ Edited

LEMMA IInvParts == IInv => Served /\ World
BY DEF IInv, Served, World, TypeOK, Sidecars

LEMMA IInvNext == Served' /\ World' => IInv'
BY DEF IInv, Served, World, TypeOK, Sidecars

LEMMA EditedKept == Edited /\ UNCHANGED drive => Edited'
BY DEF Edited, drive

LEMMA InvRequest ==
  ASSUME IInv, NEW q \in Requests, Step(q) \/ Stop(q) \/ StopAgain(q)
  PROVE  IInv'
<1>1. World
  BY IInvParts
<1>2. CASE Close(q)
  <2>1. Served' /\ running' \in Recordings \cup {None}
    BY <1>2, CloseServes
  <2>2. UNCHANGED <<drive, sidecar, late, strayed, begun, restarts>>
    BY <1>2 DEF Close
  <2>3. World'
    BY <1>1, <2>1, <2>2, EditedKept DEF World, drive
  <2> QED BY <2>1, <2>3, IInvNext
<1>3. CASE Step(q) /\ ~Close(q)
  <2>1. /\ Moved(q) /\ Active(q)
        /\ UNCHANGED <<running, drive, late, strayed, begun, restarts>>
        /\ \/ UNCHANGED sidecar
           \/ req[q].pc \in Puts /\ Store(WriteOf(q))
    BY <1>3, StepMoves
  <2>2. Served'
    BY <2>1, MovedServes
  <2>3. sidecar' \in Sidecars
    <3>1. CASE UNCHANGED sidecar
      BY <1>1, <3>1 DEF World
    <3>2. CASE req[q].pc \in Puts /\ Store(WriteOf(q))
      BY <1>1, <3>2, WriteTypes, StoreTypes DEF World
    <3> QED BY <2>1, <3>1, <3>2
  <2>4. World'
    BY <1>1, <2>1, <2>3, EditedKept DEF World, drive
  <2> QED BY <2>2, <2>4, IInvNext
<1>4. CASE Stop(q)
  <2>1. Active(q) /\ Leave(q, "error")
    BY <1>4 DEF Stop, Active
  <2>2. Moved(q)
    BY <2>1, LeaveMoves DEF Answers
  <2>3. Served'
    BY <1>4, <2>1, <2>2, MovedServes DEF Stop
  <2>4. late' \subseteq Write
    BY <1>1, <1>4, WriteTypes DEF Stop, World
  <2>5. World'
    BY <1>1, <1>4, <2>4, EditedKept DEF Stop, World, drive
  <2> QED BY <2>3, <2>5, IInvNext
<1>5. CASE StopAgain(q)
  <2>1. Active(q) /\ Moved(q)
    BY <1>5, CleanUpMoves DEF StopAgain, Active
  <2>2. Served'
    BY <1>5, <2>1, MovedServes DEF StopAgain
  <2>3. World'
    BY <1>1, <1>5, EditedKept DEF StopAgain, World, drive
  <2> QED BY <2>2, <2>3, IInvNext
<1> QED BY <1>2, <1>3, <1>4, <1>5

LEMMA InvBegin ==
  ASSUME IInv, NEW r \in Recordings, NEW kind \in {"process", "status"}, Begin(r, kind)
  PROVE  IInv'
<1>1. Served' /\ running' \in Recordings \cup {None} /\ begun' \in 0..MaxRequests
  BY BeginServes
<1>2. World
  BY IInvParts
<1>3. World'
  BY <1>1, <1>2, EditedKept DEF Begin, World, drive
<1> QED BY <1>1, <1>3, IInvNext

\* What happens to the drive leaves the requests alone.
LEMMA ServedKept ==
  ASSUME IInv, UNCHANGED <<req, running, begun>>
  PROVE  Served'
BY DEF IInv, TypeOK, Served, SlotHeld, Unbegun, Workers, Active, Sound

LEMMA InvDrive ==
  ASSUME IInv, LandLate \/ \E r \in Recordings : EditSource(r) \/ EditSidecar(r)
  PROVE  IInv'
<1>1. World
  BY IInvParts
<1>2. Served'
  BY ServedKept DEF LandLate, EditSource, EditSidecar, drive
<1>3. CASE LandLate
  <2>1. PICK p \in late : /\ late' = late \ {p}
                          /\ IF Free(p) THEN Store(p) /\ strayed' = strayed \cup {p.of}
                             ELSE UNCHANGED <<sidecar, strayed>>
                          /\ UNCHANGED <<req, running, drive, begun, restarts>>
    BY <1>3 DEF LandLate
  <2>2. p \in Write /\ p.of \in Recordings
    BY <1>1, <2>1 DEF World, Write
  <2>3. sidecar' \in Sidecars
    <3>1. CASE Free(p)
      BY <1>1, <2>1, <2>2, <3>1, StoreTypes DEF World
    <3>2. CASE ~Free(p)
      BY <1>1, <2>1, <3>2 DEF World
    <3> QED BY <3>1, <3>2
  <2>4. strayed' \subseteq Recordings
    BY <1>1, <2>1, <2>2 DEF World
  <2>5. UNCHANGED <<running, drive, begun, restarts>>
    BY <2>1
  <2>6. late' \subseteq Write
    <3>1. late' = late \ {p}
      BY <2>1
    <3> QED BY <1>1, <3>1 DEF World
  <2>7. World'
    BY <1>1, <2>3, <2>4, <2>5, <2>6, EditedKept DEF World, drive
  <2> QED BY <1>2, <2>7, IInvNext
<1>4. ASSUME NEW r \in Recordings, EditSource(r) PROVE IInv'
  <2>1. edits' \in 0..MaxEdits
    BY <1>1, <1>4, ProcessorAssumption DEF World, EditSource
  <2>2. source' \in [Recordings -> [version : Versions, same : BOOLEAN] \cup {None}]
    <3>1. CASE source' = [source EXCEPT ![r] = None]
      BY <1>1, <3>1 DEF World
    <3>2. CASE \E same \in {source[r].same, FALSE} :
                 source' = [source EXCEPT ![r] = [version |-> source[r].version + 1, same |-> same]]
      <4>1. source[r] \in [version : Versions, same : BOOLEAN]
        BY <1>1, <1>4 DEF World, EditSource
      <4>2. source[r].version + 1 \in Versions
        BY <1>1, <1>4, <4>1, ProcessorAssumption DEF World, Edited, EditSource, Versions
      <4>3. PICK same \in {source[r].same, FALSE} :
              source' = [source EXCEPT ![r] = [version |-> source[r].version + 1, same |-> same]]
        BY <3>2
      <4>4. same \in BOOLEAN
        BY <4>1, <4>3
      <4> QED BY <1>1, <4>2, <4>3, <4>4 DEF World
    <3> QED BY <1>4, <3>1, <3>2 DEF EditSource
  <2>3. Edited'
    <3>1. \A s \in Recordings : s # r => source'[s] = source[s]
      BY <1>1, <1>4 DEF World, EditSource
    <3>2. source'[r] # None => source'[r].version = source[r].version + 1
      BY <1>1, <1>4 DEF World, EditSource
    <3>3. \A s \in Recordings : source[s] # None => source[s].version \in Nat
      BY <1>1, ProcessorAssumption DEF World, Versions
    <3> QED BY <1>1, <1>4, <3>1, <3>2, <3>3 DEF World, Edited, EditSource
  <2>4. World'
    BY <1>1, <1>4, <2>1, <2>2, <2>3 DEF World, EditSource
  <2> QED BY <1>2, <2>4, IInvNext
<1>5. ASSUME NEW r \in Recordings, EditSidecar(r) PROVE IInv'
  <2>1. edits' \in 0..MaxEdits
    BY <1>1, <1>5, ProcessorAssumption DEF World, EditSidecar
  <2>2. sidecar' \in Sidecars
    BY <1>1, <1>5 DEF World, EditSidecar, Sidecars
  <2>3. Edited'
    <3>1. \A s \in Recordings : source[s] # None => source[s].version \in Nat
      BY <1>1, ProcessorAssumption DEF World, Versions
    <3> QED BY <1>1, <1>5, <3>1 DEF World, Edited, EditSidecar
  <2>4. World'
    BY <1>1, <1>5, <2>1, <2>2, <2>3 DEF World, EditSidecar
  <2> QED BY <1>2, <2>4, IInvNext
<1> QED BY <1>3, <1>4, <1>5

\* A restart ends every request; only writes under way are left behind.
LEMMA InvRestart == IInv /\ Restart => IInv'
<1> SUFFICES ASSUME IInv, Restart PROVE IInv'
  OBVIOUS
<1>1. World
  BY IInvParts
<1> DEFINE dropped(q) == [req[q] EXCEPT !.spool = FALSE]
<1>2. ASSUME NEW q \in Requests
      PROVE  /\ req[q] \in Request /\ Sound(req[q])
             /\ Over(dropped(q)) \in Request /\ Sound(Over(dropped(q)))
             /\ Over(dropped(q)).pc = "ended"
  <2>1. req[q] \in Request /\ Sound(req[q])
    BY DEF IInv, TypeOK
  <2>2. dropped(q) \in Request /\ ~dropped(q).spool
    BY <2>1 DEF Request
  <2> HIDE DEF dropped
  <2> QED BY <2>1, <2>2, OverTypes
<1>3. ASSUME NEW q \in Requests
      PROVE  req'[q] = IF Active(q) THEN Over(dropped(q)) ELSE req[q]
  BY DEF Restart
<1> HIDE DEF dropped
<1>4. "ended" \notin Working \cup Leaving \cup {"new"}
  BY DEF Working, Leaving, Reconciling, Checks, Puts
<1>5. \A q \in Requests : /\ req'[q] \in Request /\ Sound(req'[q])
                          /\ req'[q].pc \notin Working \cup Leaving
  BY <1>2, <1>3, <1>4 DEF Active
<1>6. req' \in [Requests -> Request]
  <2>1. req' = [q \in Requests |-> req'[q]]
    BY DEF Restart
  <2> QED BY <1>5, <2>1
<1>7. SlotHeld'
  <2>1. Workers' = {} /\ running' = None
    BY <1>5 DEF Workers, Active, Restart
  <2> QED BY <2>1 DEF SlotHeld
<1>8. Unbegun'
  <2>1. ASSUME NEW q \in Requests, q > begun PROVE req'[q].pc = "new"
    <3>1. req[q].pc = "new"
      BY <2>1 DEF IInv, Unbegun
    <3>2. ~Active(q)
      BY <3>1 DEF Active, Working, Leaving, Reconciling, Checks, Puts
    <3> QED BY <1>3, <3>1, <3>2
  <2> QED BY <2>1 DEF Unbegun, Restart
<1>9. late' \subseteq Write
  <2>1. PICK P \in SUBSET {WriteOf(q) : q \in {x \in Requests : req[x].pc \in Puts}} :
          late' = late \cup P
    BY DEF Restart
  <2>2. P \subseteq Write
    BY WriteTypes
  <2> QED BY <1>1, <2>1, <2>2 DEF World
<1>10. restarts' \in 0..MaxRestarts
  BY <1>1, ProcessorAssumption DEF World, Restart
<1>11. running' = None /\ UNCHANGED <<drive, sidecar, strayed, begun>>
  BY DEF Restart
<1>12. World'
  BY <1>1, <1>9, <1>10, <1>11, EditedKept DEF World, drive
<1> QED BY <1>5, <1>6, <1>7, <1>8, <1>12, IInvNext DEF Served

LEMMA InvStutter == IInv /\ UNCHANGED vars => IInv'
<1> SUFFICES ASSUME IInv, UNCHANGED vars PROVE IInv'
  OBVIOUS
<1>1. Served'
  BY ServedKept DEF vars
<1>2. World'
  BY IInvParts DEF vars, World, Edited
<1> QED BY <1>1, <1>2, IInvNext

LEMMA InvStep == IInv /\ [Next]_vars => IInv'
<1> SUFFICES ASSUME IInv, [Next]_vars PROVE IInv'
  OBVIOUS
<1>1. CASE \E r \in Recordings, kind \in {"process", "status"} : Begin(r, kind)
  BY <1>1, InvBegin
<1>2. CASE \E q \in Requests : Step(q) \/ Stop(q) \/ StopAgain(q)
  BY <1>2, InvRequest
<1>3. CASE LandLate \/ \E r \in Recordings : EditSource(r) \/ EditSidecar(r)
  BY <1>3, InvDrive
<1>4. CASE Restart
  BY <1>4, InvRestart
<1>5. CASE UNCHANGED vars
  BY <1>5, InvStutter
<1> QED BY <1>1, <1>2, <1>3, <1>4, <1>5 DEF Next

\* In every reachable state the records of the requests, the drive and the writes on
\* their way are of their types, however processing.py was interrupted.
THEOREM TypeCorrect == Spec => []TypeOK
<1>1. IInv => TypeOK
  BY DEF IInv
<1> QED BY InvInit, InvStep, <1>1, PTL DEF Spec

\* The slot of processing.py is held exactly as long as a request processes, and no
\* recording stays in the spool, through every cancellation, failure and restart.
THEOREM ResourcesSafe == Spec => []ResourcesHeld
<1>1. IInv => ResourcesHeld
  <2> SUFFICES ASSUME IInv PROVE SlotHeld /\ SpoolHeld
    BY DEF ResourcesHeld
  <2>1. SlotHeld
    BY DEF IInv
  <2>2. SpoolHeld
    BY DEF IInv, Sound, SpoolHeld, Active, Leaving
  <2> QED BY <2>1, <2>2
<1> QED BY InvInit, InvStep, <1>1, PTL DEF Spec

\* A file that a step stores was not there before.
LEMMA StoreKeeps ==
  ASSUME IInv, NEW p \in Write, Free(p), Store(p),
         NEW r \in Recordings, NEW name \in {"text", "json"}, sidecar[r][name] # None
  PROVE  sidecar'[r][name] = sidecar[r][name]
<1>1. sidecar \in Sidecars
  BY IInvParts DEF World
<1>2. ~(r = p.of /\ name = p.name)
  BY DEF Free
<1> QED BY <1>1, <1>2, StoreTypes

\* Whatever interferes, processing.py and its abandoned writes never replace or
\* remove a sidecar: only the user does.
THEOREM SidecarsSafe == Spec => SidecarsKept
<1> DEFINE Kept == \A r \in Recordings : \A name \in {"text", "json"} :
                     sidecar[r][name] # None /\ sidecar'[r][name] # sidecar[r][name]
                       => edits' # edits
<1>1. ASSUME IInv, [Next]_vars PROVE [Kept]_vars
  <2> SUFFICES ASSUME Next, NEW r \in Recordings, NEW name \in {"text", "json"},
                      sidecar[r][name] # None, edits' = edits
               PROVE  sidecar'[r][name] = sidecar[r][name]
    BY <1>1
  <2>1. CASE UNCHANGED sidecar
    BY <2>1
  <2>2. CASE \E p \in Write : Free(p) /\ Store(p)
    BY <1>1, <2>2, StoreKeeps
  <2>3. ASSUME NEW s \in Recordings, NEW kind \in {"process", "status"}, Begin(s, kind)
        PROVE  UNCHANGED sidecar
    BY <2>3 DEF Begin
  <2>4. ASSUME NEW q \in Requests, Step(q)
        PROVE  UNCHANGED sidecar \/ \E p \in Write : Free(p) /\ Store(p)
    <3>1. CASE Close(q)
      BY <3>1 DEF Close
    <3>2. CASE ~Close(q)
      BY <1>1, <2>4, <3>2, StepMoves, WriteTypes
    <3> QED BY <3>1, <3>2
  <2>5. ASSUME NEW q \in Requests, Stop(q) \/ StopAgain(q) PROVE UNCHANGED sidecar
    BY <2>5 DEF Stop, StopAgain
  <2>6. ASSUME LandLate PROVE UNCHANGED sidecar \/ \E p \in Write : Free(p) /\ Store(p)
    <3>1. late \subseteq Write
      BY <1>1, IInvParts DEF World
    <3> QED BY <2>6, <3>1 DEF LandLate
  <2>7. ASSUME Restart PROVE UNCHANGED sidecar
    BY <2>7 DEF Restart
  <2>8. ASSUME NEW s \in Recordings, EditSource(s) PROVE UNCHANGED sidecar
    BY <2>8 DEF EditSource
  <2>9. ASSUME NEW s \in Recordings PROVE ~EditSidecar(s)
    BY <1>1, ProcessorAssumption DEF EditSidecar, IInv, TypeOK
  <2> QED BY <2>1, <2>2, <2>3, <2>4, <2>5, <2>6, <2>7, <2>8, <2>9 DEF Next
<1> QED BY InvInit, InvStep, <1>1, PTL DEF Spec, SidecarsKept

-------------------------------------------------------------------------------
(***************************************************************************)
(* Truth: what requests know of the drive, and what the sidecars, the late *)
(* writes and the answers say.                                             *)
(***************************************************************************)

\* The awaits of a request that processes, until its JSON is stored.
Making == {"open", "download", "check1", "transcribe", "check2", "puttext",
           "check3", "putjson"}

\* What a request knows of the drive: what it found beside its recording lies there
\* still, and what it did not find nobody but the user or a late write has put there.
Knows(s) ==
  LET changed == s.of \in touched
      disturbed == s.of \in touched \cup strayed
  IN
  /\ s.pc \in {"check1", "transcribe", "check2", "puttext"} => s.right
  /\ s.pc \in {"transcribe", "puttext"} => s.text = None
  /\ s.pc \in Making => s.kind = "process" /\ s.json = None
  /\ s.pc \in {"readtext", "readjson"} \cup Making /\ s.text # None =>
       sidecar[s.of].text = s.text \/ changed
  /\ s.pc \in {"text", "readtext", "readjson"} /\ s.json # None =>
       sidecar[s.of].json = s.json \/ changed
  /\ s.pc = "readjson" /\ s.text = None => changed
  /\ s.pc \in Making /\ s.text = None => sidecar[s.of].text = None \/ disturbed
  /\ s.kind = "process" /\ s.pc \in {"text", "readtext"} \cup Making /\ s.json = None =>
       sidecar[s.of].json = None \/ disturbed
  /\ s.out = "conflict" => s.pc \in Leaving /\ disturbed

\* The sidecars, and the writes that may still reach the drive.
Beheld ==
  /\ \A r \in Recordings :
       /\ sidecar[r].text = User \/ sidecar[r].json = User => r \in touched
       /\ sidecar[r].text \in Requests => req[sidecar[r].text].right
       /\ sidecar[r].json \in Doc /\ r \notin touched => sidecar[r].text = sidecar[r].json.text
  /\ \A p \in late :
       /\ p.name = "text" => req[p.value].right
       /\ p.name = "json" => sidecar[p.of].text = p.value.text \/ p.of \in touched

Truth == Beheld /\ \A q \in Requests : Knows(req[q])

LEMMA TruthInit == Init => Truth
<1> SUFFICES ASSUME Init PROVE Truth
  OBVIOUS
<1>1. \A q \in Requests : Knows(req[q])
  BY DEF Init, Fresh, Knows, Making
<1>2. Beheld
  BY ProcessorAssumption DEF Init, Beheld
<1> QED BY <1>1, <1>2 DEF Truth

\* The other requests are where they were.
Others(q) == \A p \in Requests : p # q => req'[p] = req[p]

\* What a request keeps of what it knows when it goes on, or leaves.
LEMMA ToIs ==
  ASSUME IInv, NEW q \in Requests, NEW p, To(q, p)
  PROVE  /\ Others(q) /\ req'[q].pc = p /\ req'[q].of = req[q].of
         /\ req'[q].kind = req[q].kind /\ req'[q].json = req[q].json
         /\ req'[q].text = req[q].text /\ req'[q].right = req[q].right
         /\ req'[q].out = req[q].out
<1>1. req[q] \in Request
  BY DEF IInv, TypeOK
<1>2. req' = [req EXCEPT ![q] = [req[q] EXCEPT !.pc = p]]
  BY DEF To, IInv, TypeOK
<1>3. req'[q] = [req[q] EXCEPT !.pc = p] /\ Others(q)
  BY <1>2 DEF Others, IInv, TypeOK
<1> QED BY <1>1, <1>3 DEF Request

LEMMA LeaveIs ==
  ASSUME IInv, NEW q \in Requests, NEW o, Leave(q, o)
  PROVE  /\ Others(q) /\ req'[q].pc \in Leaving /\ req'[q].of = req[q].of
         /\ req'[q].kind = req[q].kind /\ req'[q].right = req[q].right /\ req'[q].out = o
<1>1. req[q] \in Request
  BY DEF IInv, TypeOK
<1> DEFINE s == [req[q] EXCEPT !.pc = IF req[q].spool THEN "cleanup" ELSE "closing", !.out = o]
<1>2. req' = [req EXCEPT ![q] = s]
  BY DEF Leave, IInv, TypeOK
<1>3. req'[q] = s /\ Others(q)
  BY <1>2 DEF Others, IInv, TypeOK
<1> QED BY <1>1, <1>3 DEF Request, Leaving

\* A step that concerns what one request knows.
LEMMA LocalTrue ==
  ASSUME IInv, Truth, NEW q \in Requests, Others(q),
         UNCHANGED <<sidecar, late, touched, strayed>>,
         req[q].right => req'[q].right, Knows(req[q])'
  PROVE  Truth'
<1>1. \A p \in Requests : Knows(req[p])'
  <2> SUFFICES ASSUME NEW p \in Requests, p # q PROVE Knows(req[p])'
    OBVIOUS
  <2>1. Knows(req[p]) /\ req'[p] = req[p]
    BY DEF Truth, Others
  <2> QED BY <2>1 DEF Knows
<1>2. \A p \in Requests : req[p].right => req'[p].right
  BY DEF Others
<1>3. Beheld'
  <2>1. \A p \in late : p.name = "text" => req'[p.value].right
    <3>1. \A p \in late : p.name = "text" => p.value \in Requests
      BY DEF IInv, TypeOK, Write
    <3> QED BY <1>2, <3>1 DEF Truth, Beheld
  <2>2. \A r \in Recordings : sidecar[r].text \in Requests => req'[sidecar[r].text].right
    BY <1>2 DEF Truth, Beheld
  <2> QED BY <2>1, <2>2 DEF Truth, Beheld
<1> QED BY <1>1, <1>3 DEF Truth

\* A request that leaves, and says conflict only with a reason.
LEMMA LeaveTrue ==
  ASSUME IInv, Truth, NEW q \in Requests, NEW o, Leave(q, o),
         UNCHANGED <<sidecar, late, touched, strayed>>,
         o = "conflict" => req[q].of \in touched \cup strayed
  PROVE  Truth'
<1>1. /\ Others(q) /\ req'[q].pc \in Leaving /\ req'[q].of = req[q].of
      /\ req'[q].right = req[q].right /\ req'[q].out = o
  BY LeaveIs
<1>2. Knows(req[q])'
  BY <1>1 DEF Knows, Making, Leaving
<1> QED BY <1>1, <1>2, LocalTrue

LEMMA ResolveTrue == ASSUME IInv, Truth, NEW q \in Requests, Resolve(q) PROVE Truth'
<1>1. UNCHANGED <<sidecar, late, touched, strayed>>
  BY DEF Resolve, drive
<1>2. CASE Leave(q, "not_found") \/ Leave(q, "source_changed")
  BY <1>1, <1>2, LeaveTrue
<1>3. CASE req' = [req EXCEPT ![q].pc = "json", ![q].version = Source(q).version]
  <2> DEFINE s == [req[q] EXCEPT !.pc = "json", !.version = Source(q).version]
  <2>1. req[q] \in Request
    BY DEF IInv, TypeOK
  <2>2. req'[q] = s /\ Others(q)
    BY <1>3 DEF Others, IInv, TypeOK
  <2>3. /\ req'[q].pc = "json" /\ req'[q].of = req[q].of /\ req'[q].right = req[q].right
        /\ req'[q].out = req[q].out
    BY <2>1, <2>2 DEF Request
  <2>4. Knows(req[q])'
    BY <1>1, <2>3 DEF Knows, Making, Leaving, Truth, Resolve, At
  <2> QED BY <1>1, <2>2, <2>3, <2>4, LocalTrue
<1> QED BY <1>2, <1>3 DEF Resolve

\* The sidecars were found in order or absent: a request that opens the spool
\* knows that no JSON lies beside its recording, and which text does.
LEMMA ReconciledTrue ==
  ASSUME IInv, Truth, NEW q \in Requests, req[q].pc \in Working,
         NEW json \in Doc \cup {None}, NEW text,
         UNCHANGED <<sidecar, late, touched, strayed>>, Reconciled(q, json, text),
         json = None =>
           LET r == req[q].of IN
           /\ req[q].kind = "process" => sidecar[r].json = None \/ r \in touched \cup strayed
           /\ text # None => sidecar[r].text = text \/ r \in touched
           /\ text = None => sidecar[r].text = None \/ r \in touched \cup strayed
  PROVE  Truth'
<1>1. req[q] \in Request
  BY DEF IInv, TypeOK
<1>2. CASE \E o \in {"completed", "error", "not_started", "retry_required"} : Leave(q, o)
  BY <1>2, LeaveTrue
<1>3. CASE /\ json = None /\ req[q].kind = "process"
           /\ req' = [[req EXCEPT ![q].json = json, ![q].text = text] EXCEPT ![q].pc = "open"]
  <2> DEFINE s == [req[q] EXCEPT !.json = json, !.text = text, !.pc = "open"]
  <2>1. req' = [req EXCEPT ![q] = s]
    BY <1>3 DEF IInv, TypeOK
  <2>2. req'[q] = s /\ Others(q)
    BY <2>1 DEF Others, IInv, TypeOK
  <2>3. /\ req'[q].pc = "open" /\ req'[q].of = req[q].of /\ req'[q].right = req[q].right
        /\ req'[q].out = req[q].out /\ req'[q].kind = "process" /\ req'[q].json = None
        /\ req'[q].text = text
    <3>1. req[q].kind = "process" /\ s.json = None
      BY <1>1, <1>3 DEF Request
    <3> QED BY <1>1, <2>2, <3>1 DEF Request
  <2>4. req[q].out # "conflict"
    BY DEF Truth, Knows, Working, Leaving, Reconciling, Checks, Puts
  <2>5. Knows(req[q])'
    BY <1>3, <2>3, <2>4 DEF Knows, Making, Leaving
  <2> QED BY <2>2, <2>3, <2>5, LocalTrue
<1>4. json # None => Leave(q, "completed")
  BY DEF Reconciled
<1>5. json = None /\ req[q].saved => Leave(q, "error")
  BY DEF Reconciled
<1>6. json = None /\ ~req[q].saved /\ req[q].kind = "status"
        => Leave(q, IF text = None THEN "not_started" ELSE "retry_required")
  BY DEF Reconciled
<1>7. json = None /\ ~req[q].saved /\ req[q].kind # "status"
        => req' = [[req EXCEPT ![q].json = json, ![q].text = text] EXCEPT ![q].pc = "open"]
  BY DEF Reconciled
<1>8. req[q].saved \in BOOLEAN /\ req[q].kind \in {"process", "status"}
  BY <1>1 DEF Request
<1> QED BY <1>2, <1>3, <1>4, <1>5, <1>6, <1>7, <1>8

LEMMA LookJsonTrue == ASSUME IInv, Truth, NEW q \in Requests, LookJson(q) PROVE Truth'
<1>1. UNCHANGED <<sidecar, late, touched, strayed>>
  BY DEF LookJson, drive
<1> DEFINE s == [req[q] EXCEPT !.pc = "text", !.json = Beside(q).json]
<1>2. req[q] \in Request
  BY DEF IInv, TypeOK
<1>3. req'[q] = s /\ Others(q)
  BY DEF LookJson, Others, IInv, TypeOK
<1>4. /\ req'[q].pc = "text" /\ req'[q].of = req[q].of /\ req'[q].right = req[q].right
      /\ req'[q].out = req[q].out /\ req'[q].json = sidecar[req[q].of].json
  BY <1>2, <1>3 DEF Request, Beside
<1>5. Knows(req[q])'
  BY <1>1, <1>4 DEF Knows, Making, Leaving, Truth, LookJson, At
<1> QED BY <1>1, <1>3, <1>4, <1>5, LocalTrue

LEMMA LookTextTrue == ASSUME IInv, Truth, NEW q \in Requests, LookText(q) PROVE Truth'
<1>1. /\ UNCHANGED <<sidecar, late, touched, strayed>> /\ req[q].pc = "text"
      /\ Active(q) /\ req[q].pc \in Working
  BY DEF LookText, drive, At, Active, Working, Reconciling
<1>2. req[q] \in Request /\ Knows(req[q])
  BY DEF IInv, TypeOK, Truth
<1>3. CASE /\ Beside(q).text # None
           /\ req' = [req EXCEPT ![q].pc = "readtext", ![q].text = Beside(q).text]
  <2> DEFINE s == [req[q] EXCEPT !.pc = "readtext", !.text = Beside(q).text]
  <2>1. req' = [req EXCEPT ![q] = s]
    BY <1>3 DEF IInv, TypeOK
  <2>2. req'[q] = s /\ Others(q)
    BY <2>1 DEF Others, IInv, TypeOK
  <2>3. /\ req'[q].pc = "readtext" /\ req'[q].of = req[q].of /\ req'[q].kind = req[q].kind
        /\ req'[q].right = req[q].right /\ req'[q].out = req[q].out
        /\ req'[q].json = req[q].json /\ req'[q].text = sidecar[req[q].of].text
    BY <1>2, <2>2 DEF Request, Beside
  <2>4. Knows(req[q])'
    BY <1>1, <1>2, <2>3 DEF Knows, Making, Leaving
  <2> QED BY <1>1, <2>2, <2>3, <2>4, LocalTrue
<1>4. CASE /\ Beside(q).text = None /\ req[q].json = None /\ Reconciled(q, None, None)
  BY <1>1, <1>2, <1>4, ReconciledTrue DEF Beside, Knows
<1>5. CASE /\ Beside(q).text = None /\ req[q].json # None
           /\ req' = [req EXCEPT ![q].pc = "readjson", ![q].text = None]
  <2> DEFINE s == [req[q] EXCEPT !.pc = "readjson", !.text = None]
  <2>1. req' = [req EXCEPT ![q] = s]
    BY <1>5 DEF IInv, TypeOK
  <2>2. req'[q] = s /\ Others(q)
    BY <2>1 DEF Others, IInv, TypeOK
  <2>3. /\ req'[q].pc = "readjson" /\ req'[q].of = req[q].of
        /\ req'[q].right = req[q].right /\ req'[q].out = req[q].out
        /\ req'[q].json = req[q].json /\ req'[q].text = None
    BY <1>2, <2>2 DEF Request
  <2>4. req[q].of \in touched
    <3>1. sidecar[req[q].of].json = req[q].json \/ req[q].of \in touched
      BY <1>1, <1>2, <1>5 DEF Knows
    <3>2. req[q].of \in Recordings /\ req[q].json \in Doc \cup {User}
      BY <1>1, <1>2, <1>5, BesideTypes DEF Request
    <3>3. \A d \in Doc : d.text # None
      BY ProcessorAssumption DEF Doc
    <3> QED BY <1>5, <3>1, <3>2, <3>3 DEF Truth, Beheld, Beside
  <2>5. Knows(req[q])'
    BY <1>1, <1>2, <2>3, <2>4 DEF Knows, Making, Leaving
  <2> QED BY <1>1, <2>2, <2>3, <2>5, LocalTrue
<1> QED BY <1>3, <1>4, <1>5 DEF LookText

LEMMA ReadTextTrue == ASSUME IInv, Truth, NEW q \in Requests, ReadText(q) PROVE Truth'
<1>1. /\ UNCHANGED <<sidecar, late, touched, strayed>> /\ req[q].pc = "readtext"
      /\ Active(q) /\ req[q].pc \in Working
  BY DEF ReadText, drive, At, Active, Working, Reconciling
<1>2. req[q] \in Request /\ Knows(req[q]) /\ req[q].of \in Recordings
  BY <1>1, BesideTypes DEF IInv, TypeOK, Truth
<1>3. CASE Beside(q).text = User
  <2>1. Leave(q, "conflict")
    BY <1>3 DEF ReadText
  <2>2. req[q].of \in touched
    BY <1>2, <1>3 DEF Truth, Beheld, Beside
  <2> QED BY <1>1, <2>1, <2>2, LeaveTrue
<1>4. CASE Beside(q).text # User /\ Beside(q).text # req[q].text
  <2>1. Leave(q, "not_found")
    BY <1>4 DEF ReadText
  <2> QED BY <1>1, <2>1, LeaveTrue
<1>5. CASE Beside(q).text # User /\ Beside(q).text = req[q].text
  <2>1. req[q].text # None
    BY <1>1 DEF IInv, Sound
  <2>2. CASE req[q].json = None /\ Reconciled(q, None, req[q].text)
    BY <1>1, <1>2, <1>5, <2>1, <2>2, ReconciledTrue DEF Beside, Knows
  <2>3. CASE req[q].json # None /\ To(q, "readjson")
    <3>1. /\ Others(q) /\ req'[q].pc = "readjson" /\ req'[q].of = req[q].of
          /\ req'[q].json = req[q].json /\ req'[q].text = req[q].text
          /\ req'[q].right = req[q].right /\ req'[q].out = req[q].out
      BY <2>3, ToIs
    <3>2. Knows(req[q])'
      BY <1>1, <1>2, <1>5, <2>1, <3>1 DEF Knows, Making, Leaving, Beside
    <3> QED BY <1>1, <3>1, <3>2, LocalTrue
  <2> QED BY <1>5, <2>2, <2>3 DEF ReadText
<1> QED BY <1>3, <1>4, <1>5

LEMMA ReadJsonTrue == ASSUME IInv, Truth, NEW q \in Requests, ReadJson(q) PROVE Truth'
<1>1. /\ UNCHANGED <<sidecar, late, touched, strayed>> /\ req[q].pc = "readjson"
      /\ Active(q) /\ req[q].pc \in Working
  BY DEF ReadJson, drive, At, Active, Working, Reconciling
<1>2. /\ req[q] \in Request /\ Knows(req[q]) /\ req[q].of \in Recordings /\ req[q].json # None
      /\ Beside(q).json \in Doc \cup {None, User}
  BY <1>1, BesideTypes DEF IInv, TypeOK, Truth, Sound
<1>3. User \notin Doc /\ None \notin Doc
  BY ProcessorAssumption
<1>4. CASE Beside(q).json = User
  <2>1. Leave(q, "conflict")
    BY <1>3, <1>4 DEF ReadJson
  <2>2. req[q].of \in touched
    BY <1>2, <1>4 DEF Truth, Beheld, Beside
  <2> QED BY <1>1, <2>1, <2>2, LeaveTrue
<1>5. CASE Beside(q).json # User /\ Beside(q).json # req[q].json
  <2>1. Leave(q, "not_found")
    BY <1>3, <1>5 DEF ReadJson
  <2> QED BY <1>1, <2>1, LeaveTrue
<1>6. CASE Beside(q).json # User /\ Beside(q).json = req[q].json
  <2>1. Beside(q).json \in Doc
    BY <1>2, <1>6
  <2>2. CASE Beside(q).json.version # req[q].version
    <3>1. Leave(q, "source_changed")
      BY <1>3, <1>6, <2>1, <2>2 DEF ReadJson
    <3> QED BY <1>1, <3>1, LeaveTrue
  <2>3. CASE Beside(q).json.version = req[q].version /\ Beside(q).json.text # req[q].text
    <3>1. Leave(q, "conflict")
      BY <1>3, <1>6, <2>1, <2>3 DEF ReadJson
    <3>2. req[q].of \in touched
      <4>1. req[q].of \notin touched => sidecar[req[q].of].text = Beside(q).json.text
        BY <1>2, <2>1 DEF Truth, Beheld, Beside
      <4> QED BY <1>1, <1>2, <2>3, <4>1 DEF Knows
    <3> QED BY <1>1, <3>1, <3>2, LeaveTrue
  <2>4. CASE Beside(q).json.version = req[q].version /\ Beside(q).json.text = req[q].text
    <3>1. Reconciled(q, Beside(q).json, req[q].text)
      BY <1>3, <1>6, <2>1, <2>4 DEF ReadJson
    <3> QED BY <1>1, <1>3, <2>1, <3>1, ReconciledTrue
  <2> QED BY <2>2, <2>3, <2>4
<1> QED BY <1>4, <1>5, <1>6

\* The steps of _process that store nothing.
LEMMA WorkTrue ==
  ASSUME IInv, Truth, NEW q \in Requests,
         OpenSpool(q) \/ Download(q) \/ Unchanged(q) \/ Transcribe(q)
  PROVE  Truth'
<1>1. UNCHANGED <<sidecar, late, touched, strayed>>
  BY DEF OpenSpool, Download, Unchanged, Transcribe, drive
<1>2. req[q] \in Request /\ Knows(req[q]) /\ Sound(req[q])
  BY DEF IInv, TypeOK, Truth
<1>3. CASE Leave(q, "not_found") \/ Leave(q, "source_changed")
  BY <1>1, <1>3, LeaveTrue
<1>4. CASE OpenSpool(q)
  <2> DEFINE s == [req[q] EXCEPT !.pc = "download", !.spool = TRUE]
  <2>1. req'[q] = s /\ Others(q)
    BY <1>4 DEF OpenSpool, Others, IInv, TypeOK
  <2>2. /\ req'[q].pc = "download" /\ req'[q].of = req[q].of /\ req'[q].kind = req[q].kind
        /\ req'[q].right = req[q].right /\ req'[q].out = req[q].out
        /\ req'[q].json = req[q].json /\ req'[q].text = req[q].text
    BY <1>2, <2>1 DEF Request
  <2>3. Knows(req[q])'
    BY <1>1, <1>2, <1>4, <2>2 DEF Knows, Making, Leaving, OpenSpool, At
  <2> QED BY <1>1, <2>1, <2>2, <2>3, LocalTrue
<1>5. CASE req[q].pc = "download" /\ req' = [req EXCEPT ![q].pc = "check1", ![q].right = TRUE]
  <2> DEFINE s == [req[q] EXCEPT !.pc = "check1", !.right = TRUE]
  <2>1. req'[q] = s /\ Others(q)
    BY <1>5 DEF Others, IInv, TypeOK
  <2>2. /\ req'[q].pc = "check1" /\ req'[q].of = req[q].of /\ req'[q].kind = req[q].kind
        /\ req'[q].right = TRUE /\ req'[q].out = req[q].out
        /\ req'[q].json = req[q].json /\ req'[q].text = req[q].text
    BY <1>2, <2>1 DEF Request
  <2>3. Knows(req[q])'
    BY <1>1, <1>2, <1>5, <2>2 DEF Knows, Making, Leaving
  <2> QED BY <1>1, <2>1, <2>2, <2>3, LocalTrue
<1>6. CASE req[q].pc \in Checks /\ To(q, AfterCheck(q))
  <2>1. /\ Others(q) /\ req'[q].pc = AfterCheck(q) /\ req'[q].of = req[q].of
        /\ req'[q].kind = req[q].kind /\ req'[q].json = req[q].json
        /\ req'[q].text = req[q].text /\ req'[q].right = req[q].right
        /\ req'[q].out = req[q].out
    BY <1>6, ToIs
  <2>2. /\ req[q].pc = "check1" => AfterCheck(q) = IF req[q].text = None THEN "transcribe"
                                                   ELSE "check2"
        /\ req[q].pc = "check2" => AfterCheck(q) = IF req[q].text = None THEN "puttext"
                                                   ELSE "check3"
        /\ req[q].pc = "check3" => AfterCheck(q) = "putjson"
        /\ req[q].pc = "check4" => AfterCheck(q) = "json"
    BY DEF AfterCheck, At
  <2>3. Knows(req[q])'
    <3>1. CASE req[q].pc = "check1"
      BY <1>1, <1>2, <2>1, <2>2, <3>1 DEF Knows, Making, Leaving
    <3>2. CASE req[q].pc = "check2"
      BY <1>1, <1>2, <2>1, <2>2, <3>2 DEF Knows, Making, Leaving
    <3>3. CASE req[q].pc = "check3"
      BY <1>1, <1>2, <2>1, <2>2, <3>3 DEF Knows, Making, Leaving
    <3>4. CASE req[q].pc = "check4"
      BY <1>1, <1>2, <2>1, <2>2, <3>4 DEF Knows, Making, Leaving
    <3> QED BY <1>6, <3>1, <3>2, <3>3, <3>4 DEF Checks
  <2> QED BY <1>1, <2>1, <2>3, LocalTrue
<1>7. CASE Transcribe(q)
  <2>1. /\ Others(q) /\ req'[q].pc = "check2" /\ req'[q].of = req[q].of
        /\ req'[q].kind = req[q].kind /\ req'[q].json = req[q].json
        /\ req'[q].text = req[q].text /\ req'[q].right = req[q].right
        /\ req'[q].out = req[q].out
    BY <1>7, ToIs DEF Transcribe
  <2>2. Knows(req[q])'
    BY <1>1, <1>2, <1>7, <2>1 DEF Knows, Making, Leaving, Transcribe, At
  <2> QED BY <1>1, <2>1, <2>2, LocalTrue
<1> QED BY <1>3, <1>4, <1>5, <1>6, <1>7 DEF Download, Unchanged, At

\* A request that cleans up or is over tells nothing new.
LEMMA CleanUpTrue ==
  ASSUME IInv, Truth, NEW q \in Requests, StopAgain(q) \/ RemoveSpool(q) \/ Close(q)
  PROVE  Truth'
<1>1. UNCHANGED <<sidecar, late, touched, strayed>>
  BY DEF StopAgain, RemoveSpool, Close, drive
<1>2. req[q] \in Request /\ Knows(req[q]) /\ req[q].pc \in Leaving
  BY DEF IInv, TypeOK, Truth, StopAgain, RemoveSpool, Close, At, Leaving
<1>3. CASE StopAgain(q)
  <2> DEFINE s == [req[q] EXCEPT !.out = "error"]
  <2>1. req'[q] = s /\ Others(q)
    BY <1>3 DEF StopAgain, Others, IInv, TypeOK
  <2>2. req'[q].pc \in Leaving /\ req'[q].right = req[q].right /\ req'[q].out = "error"
    BY <1>2, <2>1 DEF Request
  <2>3. Knows(req[q])'
    BY <2>2 DEF Knows, Making, Leaving
  <2> QED BY <1>1, <2>1, <2>2, <2>3, LocalTrue
<1>4. CASE RemoveSpool(q)
  <2> DEFINE s == [req[q] EXCEPT !.pc = "closing", !.spool = FALSE]
  <2>1. req'[q] = s /\ Others(q)
    BY <1>4 DEF RemoveSpool, Others, IInv, TypeOK
  <2>2. /\ req'[q].pc = "closing" /\ req'[q].right = req[q].right
        /\ req'[q].out = req[q].out /\ req'[q].of = req[q].of
    BY <1>2, <2>1 DEF Request
  <2>3. Knows(req[q])'
    BY <1>1, <1>2, <2>2 DEF Knows, Making, Leaving
  <2> QED BY <1>1, <2>1, <2>2, <2>3, LocalTrue
<1>5. CASE Close(q)
  <2>1. req'[q] = Over(req[q]) /\ Others(q)
    BY <1>5 DEF Close, Others, IInv, TypeOK
  <2>2. req'[q].pc = "ended" /\ req'[q].right = req[q].right /\ req'[q].out = "none"
    BY <2>1 DEF Over, Fresh
  <2>3. Knows(req[q])'
    BY <2>2 DEF Knows, Making, Leaving
  <2> QED BY <1>1, <2>1, <2>2, <2>3, LocalTrue
<1> QED BY <1>3, <1>4, <1>5

LEMMA BeginTrue ==
  ASSUME IInv, Truth, NEW r \in Recordings, NEW kind \in {"process", "status"}, Begin(r, kind)
  PROVE  Truth'
<1>1. PICK q \in Requests : q = begun + 1
  BY ProcessorAssumption DEF Begin, IInv, TypeOK, Requests
<1>2. UNCHANGED <<sidecar, late, touched, strayed>>
  BY DEF Begin, drive
<1> DEFINE s == [req[q] EXCEPT !.pc = "resolve", !.kind = kind, !.of = r]
<1>3. \/ req' = [req EXCEPT ![q] = Over(req[q])]
      \/ req' = [req EXCEPT ![q] = s]
  BY <1>1 DEF Begin
<1>4. req[q] \in Request /\ Knows(req[q])
  BY <1>1 DEF IInv, TypeOK, Truth
<1>5. CASE req' = [req EXCEPT ![q] = Over(req[q])]
  <2>1. req'[q] = Over(req[q]) /\ Others(q)
    BY <1>1, <1>5 DEF Others, IInv, TypeOK
  <2>2. req'[q].pc = "ended" /\ req'[q].right = req[q].right /\ req'[q].out = "none"
    BY <2>1 DEF Over, Fresh
  <2>3. Knows(req[q])'
    BY <2>2 DEF Knows, Making, Leaving
  <2> QED BY <1>1, <1>2, <2>1, <2>2, <2>3, LocalTrue
<1>6. CASE req' = [req EXCEPT ![q] = s]
  <2>1. req'[q] = s /\ Others(q)
    BY <1>1, <1>6 DEF Others, IInv, TypeOK
  <2>2. req'[q].pc = "resolve" /\ req'[q].right = req[q].right /\ req'[q].out = req[q].out
    BY <1>4, <2>1 DEF Request
  <2>3. req[q].pc = "new"
    BY <1>1 DEF IInv, Unbegun, TypeOK
  <2>4. Knows(req[q])'
    BY <1>4, <2>2, <2>3 DEF Knows, Making, Leaving
  <2> QED BY <1>1, <1>2, <2>1, <2>2, <2>4, LocalTrue
<1> QED BY <1>3, <1>5, <1>6

\* A write that is stored where nothing was: what others know stays true, but for
\* those who could rely on nobody writing there.
LEMMA StoredTrue ==
  ASSUME IInv, Truth, NEW p \in Write, Free(p), Store(p), UNCHANGED touched,
         strayed \subseteq strayed', \A q \in Requests : req[q].right => req'[q].right,
         p.name = "text" => req[p.value].right,
         p.name = "json" => sidecar[p.of].text = p.value.text \/ p.of \in touched,
         late' \subseteq late
  PROVE  /\ Beheld'
         /\ \A q \in Requests :
              /\ Knows(req[q]) /\ req'[q] = req[q]
              /\ req[q].kind = "status" \/ req[q].of # p.of \/ p.of \in strayed'
              => Knows(req[q])'
<1>1. sidecar \in Sidecars /\ sidecar' \in Sidecars /\ late \subseteq Write
  BY IInvParts, StoreTypes DEF World
<1>2. /\ p.of \in Recordings
      /\ p.name = "text" => p.value \in Requests
      /\ p.name = "json" => p.value \in Doc
      /\ p.name \in {"text", "json"}
  BY DEF Write
<1>3. sidecar[p.of][p.name] = None /\ sidecar'[p.of][p.name] = p.value
  BY <1>1, <1>2 DEF Free, Store, Sidecars
<1>4. \A r \in Recordings : \A name \in {"text", "json"} :
        r # p.of \/ name # p.name => sidecar'[r][name] = sidecar[r][name]
  BY <1>1, StoreTypes
<1>5. \A r \in Recordings : /\ r # p.of \/ p.name # "text" => sidecar'[r].text = sidecar[r].text
                            /\ r # p.of \/ p.name # "json" => sidecar'[r].json = sidecar[r].json
  BY <1>4
<1>6. /\ p.name = "text" => sidecar[p.of].text = None /\ sidecar'[p.of].text = p.value
      /\ p.name = "json" => sidecar[p.of].json = None /\ sidecar'[p.of].json = p.value
  BY <1>3
<1>7. /\ None # User /\ None \notin Requests /\ User \notin Requests
      /\ None \notin Doc /\ User \notin Doc /\ \A d \in Doc : d.text \in Requests
  BY ProcessorAssumption DEF Doc
<1>8. Beheld'
  <2>1. ASSUME NEW r \in Recordings
        PROVE  /\ sidecar'[r].text = User \/ sidecar'[r].json = User => r \in touched'
               /\ sidecar'[r].text \in Requests => req'[sidecar'[r].text].right
               /\ sidecar'[r].json \in Doc /\ r \notin touched'
                    => sidecar'[r].text = sidecar'[r].json.text
    BY <1>2, <1>5, <1>6, <1>7 DEF Truth, Beheld
  <2>2. ASSUME NEW w \in late'
        PROVE  /\ w.name = "text" => req'[w.value].right
               /\ w.name = "json" => sidecar'[w.of].text = w.value.text \/ w.of \in touched'
    <3>1. w \in late /\ w.of \in Recordings /\ (w.name = "text" => w.value \in Requests)
          /\ (w.name = "json" => w.value.text \in Requests)
      BY <1>1, <1>7 DEF Write
    <3> QED BY <1>5, <1>6, <1>7, <3>1 DEF Truth, Beheld
  <2> QED BY <2>1, <2>2 DEF Beheld
<1>9. ASSUME NEW q \in Requests, Knows(req[q]), req'[q] = req[q],
             req[q].kind = "status" \/ req[q].of # p.of \/ p.of \in strayed'
      PROVE  Knows(req[q])'
  <2>1. req[q] \in Request /\ (req[q].pc \in Working => req[q].of \in Recordings)
    BY DEF IInv, TypeOK, Sound
  <2>2. req[q].pc \in Working \/ req[q].pc \notin Working
    OBVIOUS
  <2>3. CASE req[q].pc \in Working
    BY <1>5, <1>6, <1>9, <2>1, <2>3 DEF Knows, Making, Leaving
  <2>4. CASE req[q].pc \notin Working
    BY <1>9, <2>4 DEF Knows, Making, Leaving, Working, Reconciling, Checks, Puts
  <2> QED BY <2>3, <2>4
<1> QED BY <1>8, <1>9

\* What is put is true of what was downloaded and of the text beside it.
LEMMA WriteTrue ==
  ASSUME IInv, Truth, NEW q \in Requests, req[q].pc \in Puts
  PROVE  LET p == WriteOf(q) IN
         /\ p \in Write /\ p.of = req[q].of /\ p.of \in Recordings
         /\ req[q].pc = "puttext" => p.name = "text" /\ p.value = q
         /\ req[q].pc = "putjson" => p.name = "json" /\ p.value.text = req[q].text
         /\ p.name = "text" => req[p.value].right
         /\ p.name = "json" => sidecar[p.of].text = p.value.text \/ p.of \in touched
<1>1. WriteOf(q) \in Write /\ WriteOf(q).of = req[q].of /\ WriteOf(q).of \in Recordings
  BY WriteTypes DEF WriteOf, IInv, Sound, Puts, Working
<1>2. Knows(req[q]) /\ Sound(req[q]) /\ None \notin Requests
  BY ProcessorAssumption DEF Truth, IInv
<1>3. CASE req[q].pc = "puttext"
  BY <1>1, <1>2, <1>3 DEF WriteOf, At, Knows
<1>4. CASE req[q].pc = "putjson"
  BY <1>1, <1>2, <1>4 DEF WriteOf, At, Knows, Making, Sound
<1> QED BY <1>1, <1>3, <1>4 DEF Puts

LEMMA PutTrue == ASSUME IInv, Truth, NEW q \in Requests, Put(q) PROVE Truth'
<1> DEFINE p == WriteOf(q)
<1>1. UNCHANGED <<running, touched, strayed, late>> /\ req[q].pc \in Puts
  BY DEF Put, drive
<1>2. /\ req[q] \in Request /\ Knows(req[q]) /\ req[q].pc \in Making /\ req[q].pc \in Working
      /\ req[q].kind = "process" /\ req[q].json = None /\ req[q].of \in Recordings
  <2>1. req[q].pc \in Making /\ req[q].pc \in Working /\ Knows(req[q])
    BY <1>1 DEF Puts, Making, Working, Truth
  <2> QED BY <2>1 DEF IInv, TypeOK, Sound, Knows
<1>3. /\ p \in Write /\ p.of = req[q].of
      /\ req[q].pc = "puttext" => p.name = "text" /\ p.value = q
      /\ req[q].pc = "putjson" => p.name = "json" /\ p.value.text = req[q].text
      /\ p.name = "text" => req[p.value].right
      /\ p.name = "json" => sidecar[p.of].text = p.value.text \/ p.of \in touched
  BY <1>1, WriteTrue
<1>4. CASE ~Free(p)
  <2>1. Leave(q, "conflict") /\ UNCHANGED sidecar
    BY <1>4 DEF Put
  <2>2. req[q].of \in touched \cup strayed
    <3>1. CASE req[q].pc = "puttext"
      <4>1. sidecar[req[q].of].text # None
        BY <1>3, <1>4, <3>1 DEF Free
      <4> QED BY <1>2, <3>1, <4>1 DEF Knows
    <3>2. CASE req[q].pc = "putjson"
      <4>1. sidecar[req[q].of].json # None
        BY <1>3, <1>4, <3>2 DEF Free
      <4> QED BY <1>2, <3>2, <4>1 DEF Knows
    <3> QED BY <1>1, <3>1, <3>2 DEF Puts
  <2> QED BY <1>1, <2>1, <2>2, LeaveTrue
<1>5. CASE Free(p)
  <2>1. Store(p) /\ (Written(q) \/ Leave(q, "error"))
    BY <1>5 DEF Put
  <2>2. /\ Others(q) /\ req'[q].right = req[q].right /\ req'[q].out # "conflict"
        /\ \/ req'[q].pc \in Leaving \cup {"check4"}
           \/ /\ req[q].pc = "puttext" /\ req'[q].pc = "check3" /\ req'[q].text = q
              /\ req'[q].kind = req[q].kind /\ req'[q].json = req[q].json
              /\ req'[q].of = req[q].of
    <3>1. req[q].out # "conflict"
      BY <1>2 DEF Knows, Making, Leaving
    <3>2. CASE Leave(q, "error")
      BY <3>2, LeaveIs
    <3>3. CASE req[q].pc = "puttext" /\ req' = [req EXCEPT ![q].pc = "check3", ![q].text = q]
      <4> DEFINE s == [req[q] EXCEPT !.pc = "check3", !.text = q]
      <4>1. req'[q] = s /\ Others(q)
        BY <3>3 DEF Others, IInv, TypeOK
      <4>2. /\ s.right = req[q].right /\ s.out = req[q].out /\ s.pc = "check3" /\ s.text = q
            /\ s.kind = req[q].kind /\ s.json = req[q].json /\ s.of = req[q].of
        BY <1>2 DEF Request
      <4> QED BY <3>1, <3>3, <4>1, <4>2
    <3>4. CASE req' = [req EXCEPT ![q].pc = "check4", ![q].saved = TRUE]
      <4> DEFINE s == [req[q] EXCEPT !.pc = "check4", !.saved = TRUE]
      <4>1. req'[q] = s /\ Others(q)
        BY <3>4 DEF Others, IInv, TypeOK
      <4>2. s.right = req[q].right /\ s.out = req[q].out /\ s.pc = "check4"
        BY <1>2 DEF Request
      <4> QED BY <3>1, <4>1, <4>2
    <3> QED BY <2>1, <3>2, <3>3, <3>4 DEF Written, At
  <2>3. \A x \in Requests : req[x].right => req'[x].right
    BY <2>2 DEF Others
  <2>4. /\ Beheld'
        /\ \A x \in Requests :
             /\ Knows(req[x]) /\ req'[x] = req[x]
             /\ req[x].kind = "status" \/ req[x].of # p.of \/ p.of \in strayed'
             => Knows(req[x])'
    <3> HIDE DEF p
    <3> QED BY <1>1, <1>3, <1>5, <2>1, <2>3, StoredTrue
  <2>5. ASSUME NEW x \in Requests, x # q PROVE Knows(req[x])'
    <3>1. req'[x] = req[x] /\ Knows(req[x]) /\ req[x] \in Request
      BY <2>2, <2>5 DEF Others, Truth, IInv, TypeOK
    <3>2. CASE req[x].kind = "status"
      BY <2>4, <3>1, <3>2
    <3>3. CASE req[x].kind = "process"
      <4>1. req[x].pc \notin Working \cup Leaving
        <5>1. q \in Workers
          BY <1>2 DEF Workers, Active
        <5> QED BY <2>5, <3>3, <5>1 DEF IInv, SlotHeld, Workers, Active
      <4> QED BY <3>1, <4>1 DEF Knows, Making, Working, Leaving, Reconciling, Checks, Puts
    <3> QED BY <3>1, <3>2, <3>3 DEF Request
  <2>6. Knows(req[q])'
    <3>1. CASE req'[q].pc \in Leaving \cup {"check4"}
      BY <2>2, <3>1 DEF Knows, Making, Leaving
    <3>2. CASE /\ req[q].pc = "puttext" /\ req'[q].pc = "check3" /\ req'[q].text = q
               /\ req'[q].kind = req[q].kind /\ req'[q].json = req[q].json
               /\ req'[q].of = req[q].of
      <4>1. sidecar \in Sidecars /\ None \notin Requests
        BY ProcessorAssumption, IInvParts DEF World
      <4>2. /\ sidecar'[req[q].of].text = q
            /\ sidecar'[req[q].of].json = sidecar[req[q].of].json
        BY <1>2, <1>3, <2>1, <3>2, <4>1 DEF Store, Sidecars
      <4> QED BY <1>1, <1>2, <2>2, <3>2, <4>1, <4>2 DEF Knows, Making, Leaving
    <3> QED BY <2>2, <3>1, <3>2
  <2> QED BY <2>4, <2>5, <2>6 DEF Truth
<1> QED BY <1>4, <1>5

\* A request is given up: its write, if it has one under way, may come late.
LEMMA StopTrue == ASSUME IInv, Truth, NEW q \in Requests, Stop(q) PROVE Truth'
<1>1. UNCHANGED <<sidecar, touched, strayed>> /\ Leave(q, "error") /\ req[q].pc \in Working
  BY DEF Stop, drive
<1>2. CASE UNCHANGED late
  BY <1>1, <1>2, LeaveTrue
<1>3. CASE req[q].pc \in Puts /\ late' = late \cup {WriteOf(q)}
  <2>1. /\ Others(q) /\ req'[q].pc \in Leaving /\ req'[q].of = req[q].of
        /\ req'[q].right = req[q].right /\ req'[q].out = "error"
    BY <1>1, LeaveIs
  <2>2. \A p \in Requests : Knows(req[p])'
    <3>1. Knows(req[q])'
      BY <2>1 DEF Knows, Making, Leaving
    <3>2. ASSUME NEW p \in Requests, p # q PROVE Knows(req[p])'
      <4>1. req'[p] = req[p] /\ Knows(req[p])
        BY <2>1, <3>2 DEF Others, Truth
      <4> QED BY <1>1, <4>1 DEF Knows
    <3> QED BY <3>1, <3>2
  <2>3. \A p \in Requests : req[p].right => req'[p].right
    BY <2>1 DEF Others
  <2>4. LET p == WriteOf(q) IN
        /\ p \in Write
        /\ p.name = "text" => req[p.value].right
        /\ p.name = "json" => sidecar[p.of].text = p.value.text \/ p.of \in touched
    BY <1>3, WriteTrue
  <2>5. \A w \in late' : w \in Write /\ (w.name = "text" => w.value \in Requests)
    BY <1>3, <2>4 DEF IInv, TypeOK, Write
  <2>6. \A w \in late' : /\ w.name = "text" => req[w.value].right
                         /\ w.name = "json" => sidecar[w.of].text = w.value.text
                                               \/ w.of \in touched
    BY <1>3, <2>4 DEF Truth, Beheld
  <2>7. Beheld'
    <3>1. \A r \in Recordings : sidecar[r].text \in Requests => req'[sidecar[r].text].right
      BY <2>3 DEF Truth, Beheld
    <3>2. \A w \in late' : w.name = "text" => req'[w.value].right
      BY <2>3, <2>5, <2>6
    <3> QED BY <1>1, <2>6, <3>1, <3>2 DEF Truth, Beheld
  <2> QED BY <2>2, <2>7 DEF Truth
<1> QED BY <1>2, <1>3 DEF Stop

\* A late write strays beside a recording, or finds its name taken.
LEMMA LandLateTrue == ASSUME IInv, Truth, LandLate PROVE Truth'
<1>1. PICK p \in late : /\ late' = late \ {p}
                        /\ IF Free(p) THEN Store(p) /\ strayed' = strayed \cup {p.of}
                           ELSE UNCHANGED <<sidecar, strayed>>
                        /\ UNCHANGED <<req, running, drive, begun, restarts>>
  BY DEF LandLate
<1>2. p \in Write /\ UNCHANGED <<req, touched>> /\ late' \subseteq late
  BY <1>1 DEF IInv, TypeOK, drive
<1>3. CASE Free(p)
  <2>1. /\ p.name = "text" => req[p.value].right
        /\ p.name = "json" => sidecar[p.of].text = p.value.text \/ p.of \in touched
    BY <1>1 DEF Truth, Beheld
  <2>2. strayed \subseteq strayed' /\ p.of \in strayed' /\ Store(p)
    BY <1>1, <1>3
  <2>3. \A q \in Requests : Knows(req[q]) /\ req'[q] = req[q]
    BY <1>2 DEF Truth
  <2>4. /\ Beheld'
        /\ \A q \in Requests :
             /\ Knows(req[q]) /\ req'[q] = req[q]
             /\ req[q].kind = "status" \/ req[q].of # p.of \/ p.of \in strayed'
             => Knows(req[q])'
    <3>1. \A q \in Requests : req[q].right => req'[q].right
      BY <1>2
    <3> QED BY <1>2, <1>3, <2>1, <2>2, <3>1, StoredTrue
  <2> QED BY <2>2, <2>3, <2>4 DEF Truth
<1>4. CASE ~Free(p)
  <2>1. UNCHANGED <<req, sidecar, touched, strayed>>
    BY <1>1, <1>2, <1>4
  <2> QED BY <1>2, <2>1 DEF Truth, Beheld, Knows
<1> QED BY <1>3, <1>4

\* What the user does to the sidecars excuses what is found there from then on.
LEMMA EditSidecarTrue ==
  ASSUME IInv, Truth, NEW r \in Recordings, EditSidecar(r)
  PROVE  Truth'
<1>1. /\ UNCHANGED <<req, late, strayed>> /\ touched' = touched \cup {r}
      /\ \A x \in Recordings : x # r => sidecar'[x] = sidecar[x]
  BY DEF EditSidecar, IInv, TypeOK
<1>2. \A w \in late : w.of \in Recordings
  BY DEF IInv, TypeOK, Write
<1>3. sidecar'[r].text = sidecar[r].text \/ sidecar'[r].text \in {None, User}
  BY DEF EditSidecar, IInv, TypeOK
<1>4. Beheld'
  BY <1>1, <1>2, <1>3, ProcessorAssumption DEF Truth, Beheld
<1>5. ASSUME NEW q \in Requests PROVE Knows(req[q])'
  <2>1. Knows(req[q]) /\ (req[q].pc \in Working => req[q].of \in Recordings) /\ req'[q] = req[q]
    BY <1>1 DEF Truth, IInv, Sound
  <2>2. CASE req[q].pc \in Working
    BY <1>1, <2>1, <2>2 DEF Knows, Making, Leaving
  <2>3. CASE req[q].pc \notin Working
    BY <1>1, <2>1, <2>3 DEF Knows, Making, Leaving, Working, Reconciling, Checks, Puts
  <2> QED BY <2>2, <2>3
<1> QED BY <1>4, <1>5 DEF Truth

\* A restart leaves no request, and the writes that were under way.
LEMMA RestartTrue == ASSUME IInv, Truth, Restart PROVE Truth'
<1>1. UNCHANGED <<sidecar, touched, strayed>>
  BY DEF Restart, drive
<1>2. ASSUME NEW q \in Requests
      PROVE  /\ req'[q] = IF Active(q) THEN Over([req[q] EXCEPT !.spool = FALSE]) ELSE req[q]
             /\ req'[q].right = req[q].right
             /\ Knows(req[q])'
  <2>1. req[q] \in Request /\ Knows(req[q])
    BY DEF IInv, TypeOK, Truth
  <2>2. req'[q] = IF Active(q) THEN Over([req[q] EXCEPT !.spool = FALSE]) ELSE req[q]
    BY DEF Restart
  <2>3. CASE Active(q)
    <3>1. /\ req'[q].pc = "ended" /\ req'[q].out = "none"
          /\ req'[q].right = [req[q] EXCEPT !.spool = FALSE].right
      BY <2>2, <2>3 DEF Over, Fresh
    <3>2. [req[q] EXCEPT !.spool = FALSE].right = req[q].right
      BY <2>1 DEF Request
    <3> QED BY <2>2, <3>1, <3>2 DEF Knows, Making
  <2>4. CASE ~Active(q)
    <3>1. req'[q] = req[q]
      BY <2>2, <2>4
    <3> QED BY <1>1, <2>1, <2>2, <3>1 DEF Knows
  <2> QED BY <2>3, <2>4
<1>3. ASSUME NEW w \in late'
      PROVE  /\ w.name = "text" => req'[w.value].right
             /\ w.name = "json" => sidecar'[w.of].text = w.value.text \/ w.of \in touched'
  <2>1. PICK P \in SUBSET {WriteOf(q) : q \in {x \in Requests : req[x].pc \in Puts}} :
          late' = late \cup P
    BY DEF Restart
  <2>2. /\ w \in Write
        /\ w.name = "text" => req[w.value].right
        /\ w.name = "json" => sidecar[w.of].text = w.value.text \/ w.of \in touched
    <3>1. CASE w \in late
      BY <3>1 DEF Truth, Beheld, IInv, TypeOK
    <3>2. CASE w \notin late
      <4>1. PICK q \in Requests : req[q].pc \in Puts /\ w = WriteOf(q)
        BY <2>1, <3>2
      <4> QED BY <4>1, WriteTrue
    <3> QED BY <3>1, <3>2
  <2>3. w.name = "text" => w.value \in Requests
    BY <2>2 DEF Write
  <2> QED BY <1>1, <1>2, <2>2, <2>3
<1>4. \A r \in Recordings : sidecar[r].text \in Requests => req'[sidecar[r].text].right
  BY <1>2 DEF Truth, Beheld
<1>5. Beheld'
  BY <1>1, <1>3, <1>4 DEF Truth, Beheld
<1> QED BY <1>2, <1>5 DEF Truth

LEMMA TruthStep == IInv /\ Truth /\ [Next]_vars => Truth'
<1> SUFFICES ASSUME IInv, Truth, [Next]_vars PROVE Truth'
  OBVIOUS
<1>1. ASSUME NEW r \in Recordings, NEW kind \in {"process", "status"}, Begin(r, kind)
      PROVE  Truth'
  BY <1>1, BeginTrue
<1>2. ASSUME NEW q \in Requests, Step(q) PROVE Truth'
  BY <1>2, ResolveTrue, LookJsonTrue, LookTextTrue, ReadTextTrue, ReadJsonTrue, WorkTrue,
     PutTrue, CleanUpTrue
  DEF Step, Look
<1>3. ASSUME NEW q \in Requests, Stop(q) \/ StopAgain(q) PROVE Truth'
  BY <1>3, StopTrue, CleanUpTrue
<1>4. ASSUME NEW r \in Recordings, EditSource(r) PROVE Truth'
  BY <1>4 DEF EditSource, Truth, Beheld, Knows
<1>5. ASSUME NEW r \in Recordings, EditSidecar(r) PROVE Truth'
  BY <1>5, EditSidecarTrue
<1>6. CASE UNCHANGED vars
  BY <1>6 DEF vars, Truth, Beheld, Knows
<1> QED BY <1>1, <1>2, <1>3, <1>4, <1>5, <1>6, LandLateTrue, RestartTrue DEF Next

\* What the sidecars and the answers of processing.py say of a recording is true: a
\* JSON document lies beside the text it names, a text is of the bytes the device
\* uploaded, and a conflict has a user or a late write behind it, however requests,
\* failures, late writes, edits and restarts interleave (AnswersTrue).
THEOREM AnswersSafe == Spec => []AnswersTrue
<1>1. IInv /\ Truth => AnswersTrue
  BY DEF Truth, Beheld, Knows, AnswersTrue, CompletionTrue, NoFalseConflict
<1> QED BY InvInit, InvStep, TruthInit, TruthStep, <1>1, PTL DEF Spec
===============================================================================

--------------------------- MODULE DeviceModesProofs ---------------------------
(***************************************************************************)
(* For both builds, any accounts and every scene: setup is confined and    *)
(* its stops are not lost, the modes exclude each other, the card has one  *)
(* user, and the accounts of the device are those of Identity.             *)
(***************************************************************************)
EXTENDS DeviceModes, TLAPS

-------------------------------------------------------------------------------
(***************************************************************************)
(* Identity: for any accounts and any number of unlinks, what unlinking    *)
(* severs stays severed, and what setup shows of an account is true of it. *)
(*                                                                         *)
(* UnlinkForgets is not inductive.  A poll is answered by a task that was  *)
(* started for one link and may end under another: the argument is that    *)
(* it was then cancelled, that an unlink cancels before it waits for the   *)
(* lock, and that no new sign-in, which alone clears the cancellation, can *)
(* begin while the old task is there.                                      *)
(***************************************************************************)
\* The sign-in task belongs to the current link, or it was told to stop; only
\* it may end what is pending.
GrantOwned ==
  grant.pc # "none" =>
    /\ grant.on \in Resources /\ grant.link \in Link
    /\ running[grant.on]
    /\ grant.link = link \/ cancel[grant.on]
    /\ grant.pc = "end" => cancel[grant.on] \/ state[grant.on] # "pending"

\* While the Bluetooth task starts a sign-in there is no other; while it
\* unlinks, whatever signs in was told to stop.
ControlOwned ==
  /\ control.pc = "start" =>
       control.on \in Resources /\ running[control.on] /\ grant.pc = "none"
  /\ control.pc = "unlink" => link < MaxLinks /\ \A r \in Resources : cancel[r]

\* The lock is held from the question to its answer.
LockOwned ==
  /\ grant.pc = "poll" => lock = "grant"
  /\ reader.pc # "idle" => reader.on \in Resources
  /\ reader.pc = "ask" => lock = "reader" /\ refresh[reader.on] # 0

IdentityInv ==
  /\ IdentityTypeOK
  /\ UnlinkForgets /\ AuthorizedUsable /\ PendingDecided
  /\ GrantOwned /\ ControlOwned /\ LockOwned

-------------------------------------------------------------------------------
StateType == {"idle", "pending", "authorized", "denied", "expired", "error"}
GrantType == [pc : {"none", "begin", "ask", "wait", "lock", "poll", "end"},
              on : Resources \cup {NoOne}, link : Token, late : BOOLEAN]

LEMMA InvInit == IdentityInit => IdentityInv
BY IdentityAssumption
   DEF IdentityInit, IdentityInv, IdentityTypeOK, UnlinkForgets, AuthorizedUsable,
       PendingDecided, GrantOwned, ControlOwned, LockOwned, NoGrant, Quiet, Link, Token

LEMMA GrantBeginKeeps ==
  ASSUME IdentityInv, GrantBegin
  PROVE  IdentityInv'
<1>1. IdentityTypeOK'
  <2>1. state' \in [Resources -> StateType] /\ running' \in [Resources -> BOOLEAN]
    BY DEF GrantBegin, SetState, IdentityInv, IdentityTypeOK, StateType
  <2>2. NoGrant \in GrantType
    BY DEF NoGrant, Token, GrantType
  <2>3. [grant EXCEPT !.pc = "ask"] \in GrantType
    BY DEF IdentityInv, IdentityTypeOK, GrantType
  <2>4. grant' \in GrantType
    BY <2>2, <2>3 DEF GrantBegin, GrantAt, GrantType
  <2> QED BY <2>1, <2>4 DEF GrantBegin, IdentityInv, IdentityTypeOK, tokens, Token,
                            Link, StateType, GrantType
<1>2. AuthorizedUsable'
  BY DEF GrantBegin, SetState, tokens, IdentityTypeOK, AuthorizedUsable,
        IdentityInv
<1>3. PendingDecided'
  BY DEF GrantBegin, SetState, IdentityTypeOK, PendingDecided, IdentityInv
<1>4. GrantOwned'
  BY DEF GrantBegin, GrantAt, NoGrant, IdentityTypeOK, GrantOwned, IdentityInv
<1>5. ControlOwned'
  BY DEF GrantBegin, ControlOwned, IdentityInv
<1>6. LockOwned'
  BY DEF GrantBegin, GrantAt, tokens, NoGrant, IdentityTypeOK, LockOwned,
        IdentityInv
<1>7. UnlinkForgets'
  BY DEF GrantBegin, tokens, UnlinkForgets, IdentityInv
<1> QED BY <1>1, <1>2, <1>3, <1>4, <1>5, <1>6, <1>7 DEF IdentityInv

LEMMA GrantCodeKeeps ==
  ASSUME IdentityInv, GrantCode
  PROVE  IdentityInv'
<1>1. IdentityTypeOK'
  BY DEF GrantCode, SetState, GrantAt, tokens, IdentityTypeOK, IdentityInv
<1>2. AuthorizedUsable'
  BY DEF GrantCode, SetState, tokens, IdentityTypeOK, AuthorizedUsable,
        IdentityInv
<1>3. PendingDecided'
  BY DEF GrantCode, SetState, IdentityTypeOK, PendingDecided, IdentityInv
<1>4. GrantOwned'
  BY DEF GrantCode, SetState, GrantAt, IdentityTypeOK, GrantOwned, IdentityInv
<1>5. ControlOwned'
  BY DEF GrantCode, ControlOwned, IdentityInv
<1>6. LockOwned'
  BY DEF GrantCode, GrantAt, tokens, IdentityTypeOK, LockOwned, IdentityInv
<1>7. UnlinkForgets'
  BY DEF GrantCode, tokens, UnlinkForgets, IdentityInv
<1> QED BY <1>1, <1>2, <1>3, <1>4, <1>5, <1>6, <1>7 DEF IdentityInv

LEMMA GrantDelayKeeps ==
  ASSUME IdentityInv, GrantDelay
  PROVE  IdentityInv'
<1>1. IdentityTypeOK'
  BY DEF GrantDelay, SetState, GrantAt, tokens, IdentityTypeOK, IdentityInv
<1>2. AuthorizedUsable'
  BY DEF GrantDelay, SetState, tokens, IdentityTypeOK, AuthorizedUsable,
        IdentityInv
<1>3. PendingDecided'
  BY DEF GrantDelay, SetState, IdentityTypeOK, PendingDecided, IdentityInv
<1>4. GrantOwned'
  BY DEF GrantDelay, SetState, GrantAt, IdentityTypeOK, GrantOwned, IdentityInv
<1>5. ControlOwned'
  BY DEF GrantDelay, ControlOwned, IdentityInv
<1>6. LockOwned'
  BY DEF GrantDelay, GrantAt, tokens, IdentityTypeOK, LockOwned, IdentityInv
<1>7. UnlinkForgets'
  BY DEF GrantDelay, tokens, UnlinkForgets, IdentityInv
<1> QED BY <1>1, <1>2, <1>3, <1>4, <1>5, <1>6, <1>7 DEF IdentityInv

LEMMA GrantLockKeeps ==
  ASSUME IdentityInv, GrantLock
  PROVE  IdentityInv'
<1>1. IdentityTypeOK'
  BY DEF GrantLock, GrantAt, tokens, IdentityTypeOK, IdentityInv
<1>2. GrantOwned'
  BY DEF GrantLock, GrantAt, GrantOwned, IdentityInv
<1>3. ControlOwned'
  BY DEF GrantLock, ControlOwned, IdentityInv
<1>4. LockOwned'
  BY DEF GrantLock, LockOwned, IdentityInv
<1>5. (UnlinkForgets /\ AuthorizedUsable /\ PendingDecided)'
  BY DEF GrantLock, tokens, UnlinkForgets, AuthorizedUsable, PendingDecided,
        IdentityInv
<1> QED BY <1>1, <1>2, <1>3, <1>4, <1>5 DEF IdentityInv

LEMMA GrantAnswerKeeps ==
  ASSUME IdentityInv, GrantAnswer
  PROVE  IdentityInv'
<1>1. IdentityTypeOK'
  BY DEF GrantAnswer, GrantTokens, GrantRefused, GrantAgain, SetState, GrantAt,
        Save, Unsaved, tokens, IdentityTypeOK, IdentityInv
<1>2. UnlinkForgets'
  BY DEF GrantAnswer, GrantTokens, GrantRefused, GrantAgain, Save, Unsaved,
        tokens, IdentityTypeOK, UnlinkForgets, GrantOwned, IdentityInv
<1>3. AuthorizedUsable'
  BY DEF GrantAnswer, GrantTokens, GrantRefused, GrantAgain, SetState, Save,
        tokens, Link, IdentityTypeOK, UnlinkForgets, AuthorizedUsable,
        GrantOwned, IdentityInv
<1>4. PendingDecided'
  BY DEF GrantAnswer, GrantTokens, GrantRefused, GrantAgain, SetState, Save,
        IdentityTypeOK, PendingDecided, IdentityInv
<1>5. GrantOwned'
  BY DEF GrantAnswer, GrantTokens, GrantRefused, GrantAgain, SetState, GrantAt,
        Save, IdentityTypeOK, GrantOwned, IdentityInv
<1>6. ControlOwned'
  BY DEF GrantAnswer, ControlOwned, IdentityInv
<1>7. LockOwned'
  BY DEF GrantAnswer, GrantTokens, GrantRefused, GrantAgain, GrantAt,
        IdentityTypeOK, LockOwned, IdentityInv
<1> QED BY <1>1, <1>2, <1>3, <1>4, <1>5, <1>6, <1>7 DEF IdentityInv

LEMMA GrantEndKeeps ==
  ASSUME IdentityInv, GrantEnd
  PROVE  IdentityInv'
<1>1. IdentityTypeOK'
  BY DEF GrantEnd, SetState, tokens, NoGrant, Token, IdentityTypeOK,
        IdentityInv
<1>2. AuthorizedUsable'
  BY DEF GrantEnd, SetState, tokens, IdentityTypeOK, AuthorizedUsable,
        IdentityInv
<1>3. PendingDecided'
  BY DEF GrantEnd, SetState, IdentityTypeOK, PendingDecided, GrantOwned,
        IdentityInv
<1>4. GrantOwned'
  BY DEF GrantEnd, NoGrant, GrantOwned, IdentityInv
<1>5. ControlOwned'
  BY DEF GrantEnd, ControlOwned, IdentityInv
<1>6. LockOwned'
  BY DEF GrantEnd, tokens, NoGrant, LockOwned, IdentityInv
<1>7. UnlinkForgets'
  BY DEF GrantEnd, tokens, UnlinkForgets, IdentityInv
<1> QED BY <1>1, <1>2, <1>3, <1>4, <1>5, <1>6, <1>7 DEF IdentityInv

LEMMA CodeExpiresKeeps ==
  ASSUME IdentityInv, CodeExpires
  PROVE  IdentityInv'
<1>1. IdentityTypeOK'
  BY DEF CodeExpires, tokens, IdentityTypeOK, IdentityInv
<1>2. GrantOwned'
  BY DEF CodeExpires, GrantOwned, IdentityInv
<1>3. ControlOwned'
  BY DEF CodeExpires, ControlOwned, IdentityInv
<1>4. LockOwned'
  BY DEF CodeExpires, tokens, LockOwned, IdentityInv
<1>5. (UnlinkForgets /\ AuthorizedUsable /\ PendingDecided)'
  BY DEF CodeExpires, tokens, UnlinkForgets, AuthorizedUsable, PendingDecided,
        IdentityInv
<1> QED BY <1>1, <1>2, <1>3, <1>4, <1>5 DEF IdentityInv

LEMMA StartGrantKeeps ==
  ASSUME IdentityInv, NEW r \in Resources, StartGrant(r)
  PROVE  IdentityInv'
<1>1. IdentityTypeOK'
  BY DEF StartGrant, SetState, tokens, IdentityTypeOK, IdentityInv
<1>2. AuthorizedUsable'
  BY DEF StartGrant, SetState, tokens, AuthorizedUsable, IdentityInv
<1>3. PendingDecided'
  BY DEF StartGrant, SetState, IdentityTypeOK, PendingDecided, IdentityInv
<1>4. GrantOwned'
  BY DEF StartGrant, GrantOwned, IdentityInv
<1>5. ControlOwned'
  BY DEF StartGrant, IdentityTypeOK, GrantOwned, ControlOwned, IdentityInv
<1>6. (UnlinkForgets /\ LockOwned)'
  BY DEF StartGrant, tokens, UnlinkForgets, LockOwned, IdentityInv
<1> QED BY <1>1, <1>2, <1>3, <1>4, <1>5, <1>6 DEF IdentityInv

LEMMA SpawnGrantKeeps ==
  ASSUME IdentityInv, SpawnGrant
  PROVE  IdentityInv'
<1>1. IdentityTypeOK'
  <2>1. cancel' \in [Resources -> BOOLEAN] /\ running' \in [Resources -> BOOLEAN]
    BY DEF SpawnGrant, IdentityInv, IdentityTypeOK
  <2>2. state' \in [Resources -> StateType]
    BY DEF SpawnGrant, SetState, IdentityInv, IdentityTypeOK, StateType
  <2>3. control.on \in Resources /\ link \in Token
    BY DEF SpawnGrant, IdentityInv, IdentityTypeOK, ControlOwned, Token
  <2>4. [pc |-> "begin", on |-> control.on, link |-> link, late |-> FALSE] \in GrantType
    BY <2>3 DEF GrantType
  <2>5. grant' \in GrantType
    BY <2>4 DEF SpawnGrant, IdentityInv, IdentityTypeOK, GrantType
  <2> QED BY <2>1, <2>2, <2>5 DEF SpawnGrant, Quiet, IdentityInv, IdentityTypeOK,
                                  tokens, Token, Link, StateType, GrantType
<1>2. AuthorizedUsable'
  BY DEF SpawnGrant, SetState, tokens, IdentityTypeOK, AuthorizedUsable,
        IdentityInv
<1>3. PendingDecided'
  BY DEF SpawnGrant, SetState, IdentityTypeOK, PendingDecided, IdentityInv
<1>4. GrantOwned'
  BY DEF SpawnGrant, IdentityTypeOK, GrantOwned, ControlOwned, IdentityInv
<1>5. ControlOwned'
  BY DEF SpawnGrant, Quiet, ControlOwned, IdentityInv
<1>6. LockOwned'
  BY DEF SpawnGrant, tokens, LockOwned, IdentityInv
<1>7. UnlinkForgets'
  BY DEF SpawnGrant, tokens, UnlinkForgets, IdentityInv
<1> QED BY <1>1, <1>2, <1>3, <1>4, <1>5, <1>6, <1>7 DEF IdentityInv

LEMMA CancelGrantKeeps ==
  ASSUME IdentityInv, NEW R \in SUBSET Resources, CancelGrant(R), UNCHANGED control
  PROVE  IdentityInv'
<1>1. IdentityTypeOK'
  BY DEF CancelGrant, tokens, IdentityTypeOK, IdentityInv
<1>2. GrantOwned'
  BY DEF CancelGrant, GrantOwned, IdentityInv
<1>3. ControlOwned'
  BY DEF CancelGrant, ControlOwned, IdentityInv
<1>4. (UnlinkForgets /\ AuthorizedUsable /\ PendingDecided /\ LockOwned)'
  BY DEF CancelGrant, tokens, UnlinkForgets, AuthorizedUsable, PendingDecided,
        LockOwned, IdentityInv
<1> QED BY <1>1, <1>2, <1>3, <1>4 DEF IdentityInv

LEMMA BeginUnlinkKeeps ==
  ASSUME IdentityInv, BeginUnlink
  PROVE  IdentityInv'
<1>1. IdentityTypeOK'
  BY DEF BeginUnlink, CancelGrant, tokens, Quiet, IdentityTypeOK, IdentityInv
<1>2. GrantOwned'
  BY DEF BeginUnlink, CancelGrant, GrantOwned, IdentityInv
<1>3. ControlOwned'
  BY DEF BeginUnlink, CancelGrant, Quiet, ControlOwned, IdentityInv
<1>4. (UnlinkForgets /\ AuthorizedUsable /\ PendingDecided /\ LockOwned)'
  BY DEF BeginUnlink, CancelGrant, tokens, UnlinkForgets, AuthorizedUsable,
        PendingDecided, LockOwned, IdentityInv
<1> QED BY <1>1, <1>2, <1>3, <1>4 DEF IdentityInv

LEMMA UnlinkKeeps ==
  ASSUME IdentityInv, Unlink
  PROVE  IdentityInv'
<1>1. IdentityTypeOK'
  <2>1. nvs' \in [Resources -> Token] /\ access' \in [Resources -> Token]
          /\ refresh' \in [Resources -> Token]
    BY DEF Unlink, IdentityInv, IdentityTypeOK, Token
  <2>2. state' \in [Resources -> StateType]
    BY DEF Unlink, IdentityInv, IdentityTypeOK, StateType
  <2>3. link' \in Link
    BY IdentityAssumption DEF Unlink, IdentityInv, IdentityTypeOK, ControlOwned, Link
  <2> QED BY <2>1, <2>2, <2>3 DEF Unlink, Quiet, IdentityInv, IdentityTypeOK, Token,
                                  Link, StateType
<1>2. UnlinkForgets'
  BY DEF Unlink, UnlinkForgets, IdentityInv
<1>3. AuthorizedUsable'
  BY DEF Unlink, AuthorizedUsable, IdentityInv
<1>4. PendingDecided'
  BY DEF Unlink, PendingDecided, IdentityInv
<1>5. GrantOwned'
  BY DEF Unlink, GrantOwned, ControlOwned, IdentityInv
<1>6. ControlOwned'
  BY DEF Unlink, Quiet, ControlOwned, IdentityInv
<1>7. LockOwned'
  BY DEF Unlink, LockOwned, IdentityInv
<1> QED BY <1>1, <1>2, <1>3, <1>4, <1>5, <1>6, <1>7 DEF IdentityInv

LEMMA AccessBeginKeeps ==
  ASSUME IdentityInv, NEW r \in Resources, AccessBegin(r)
  PROVE  IdentityInv'
<1>1. IdentityTypeOK'
  BY DEF AccessBegin, tokens, IdentityTypeOK, IdentityInv
<1>2. LockOwned'
  BY DEF AccessBegin, LockOwned, IdentityInv
<1>3. (UnlinkForgets /\ AuthorizedUsable /\ PendingDecided /\ GrantOwned /\ ControlOwned)'
  BY DEF AccessBegin, tokens, UnlinkForgets, AuthorizedUsable, PendingDecided,
        GrantOwned, ControlOwned, IdentityInv
<1> QED BY <1>1, <1>2, <1>3 DEF IdentityInv

LEMMA AccessGivenKeeps ==
  ASSUME IdentityInv, AccessGiven
  PROVE  IdentityInv'
<1>1. IdentityTypeOK'
  BY DEF AccessGiven, tokens, Quiet, IdentityTypeOK, IdentityInv
<1>2. LockOwned'
  BY DEF AccessGiven, Quiet, LockOwned, IdentityInv
<1>3. (UnlinkForgets /\ AuthorizedUsable /\ PendingDecided /\ GrantOwned /\ ControlOwned)'
  BY DEF AccessGiven, tokens, UnlinkForgets, AuthorizedUsable, PendingDecided,
        GrantOwned, ControlOwned, IdentityInv
<1> QED BY <1>1, <1>2, <1>3 DEF IdentityInv

LEMMA AccessRefreshKeeps ==
  ASSUME IdentityInv, AccessRefresh
  PROVE  IdentityInv'
<1>1. IdentityTypeOK'
  BY DEF AccessRefresh, tokens, IdentityTypeOK, IdentityInv
<1>2. LockOwned'
  BY DEF AccessRefresh, tokens, LockOwned, IdentityInv
<1>3. (UnlinkForgets /\ AuthorizedUsable /\ PendingDecided /\ GrantOwned /\ ControlOwned)'
  BY DEF AccessRefresh, tokens, UnlinkForgets, AuthorizedUsable,
        PendingDecided, GrantOwned, ControlOwned, IdentityInv
<1> QED BY <1>1, <1>2, <1>3 DEF IdentityInv

LEMMA AccessAnswerKeeps ==
  ASSUME IdentityInv, AccessAnswer
  PROVE  IdentityInv'
<1>1. IdentityTypeOK'
  BY DEF AccessAnswer, Revoked, SetState, Save, Unsaved, tokens, Quiet, Token,
        IdentityTypeOK, IdentityInv
<1>2. UnlinkForgets'
  BY DEF AccessAnswer, Revoked, Save, Unsaved, tokens, IdentityTypeOK,
        UnlinkForgets, IdentityInv
<1>3. AuthorizedUsable'
  BY DEF AccessAnswer, Revoked, SetState, Save, tokens, IdentityTypeOK,
        AuthorizedUsable, LockOwned, IdentityInv
<1>4. PendingDecided'
  BY DEF AccessAnswer, Revoked, SetState, Save, IdentityTypeOK, PendingDecided,
        IdentityInv
<1>5. GrantOwned'
  BY DEF AccessAnswer, Revoked, SetState, Save, IdentityTypeOK, GrantOwned,
        IdentityInv
<1>6. LockOwned'
  BY DEF AccessAnswer, Revoked, Quiet, LockOwned, IdentityInv
<1>7. ControlOwned'
  BY DEF AccessAnswer, Revoked, ControlOwned, IdentityInv
<1> QED BY <1>1, <1>2, <1>3, <1>4, <1>5, <1>6, <1>7 DEF IdentityInv

LEMMA RebootIdentityKeeps ==
  ASSUME IdentityInv, RebootIdentity
  PROVE  IdentityInv'
<1>1. IdentityTypeOK'
  BY DEF RebootIdentity, NoGrant, Quiet, Token, IdentityTypeOK, IdentityInv
<1>2. UnlinkForgets'
  BY DEF RebootIdentity, UnlinkForgets, IdentityInv
<1>3. AuthorizedUsable'
  BY DEF RebootIdentity, AuthorizedUsable, IdentityInv
<1>4. PendingDecided'
  BY DEF RebootIdentity, PendingDecided, IdentityInv
<1>5. GrantOwned'
  BY DEF RebootIdentity, NoGrant, GrantOwned, IdentityInv
<1>6. ControlOwned'
  BY DEF RebootIdentity, Quiet, ControlOwned, IdentityInv
<1>7. LockOwned'
  BY DEF RebootIdentity, NoGrant, Quiet, LockOwned, IdentityInv
<1> QED BY <1>1, <1>2, <1>3, <1>4, <1>5, <1>6, <1>7 DEF IdentityInv

-------------------------------------------------------------------------------
LEMMA NextKeeps == ASSUME IdentityInv, [IdentityNext]_identity PROVE IdentityInv'
<1>1. CASE Grant
  BY <1>1, GrantBeginKeeps, GrantCodeKeeps, GrantDelayKeeps, GrantLockKeeps,
     GrantAnswerKeeps, GrantEndKeeps
     DEF Grant
<1>2. CASE \E r \in Resources : StartGrant(r) \/ AccessBegin(r)
  BY <1>2, StartGrantKeeps, AccessBeginKeeps
<1>3. CASE \E R \in SUBSET Resources : CancelGrant(R) /\ UNCHANGED control
  BY <1>3, CancelGrantKeeps
<1>4. CASE Access
  BY <1>4, AccessGivenKeeps, AccessRefreshKeeps, AccessAnswerKeeps DEF Access
<1>5. CASE UNCHANGED identity
  BY <1>5
     DEF identity, tokens, IdentityInv, IdentityTypeOK, UnlinkForgets, AuthorizedUsable,
         PendingDecided, GrantOwned, ControlOwned, LockOwned
<1> QED
  BY <1>1, <1>2, <1>3, <1>4, <1>5, CodeExpiresKeeps, SpawnGrantKeeps, BeginUnlinkKeeps,
     UnlinkKeeps, RebootIdentityKeeps
     DEF IdentityNext

LEMMA IdentityHolds == IdentitySpec => []IdentityInv
BY InvInit, NextKeeps, PTL DEF IdentitySpec

LEMMA IdentityInvSafe == IdentityInv => UnlinkForgets /\ StatesHonest
BY DEF IdentityInv, StatesHonest

\* For any accounts and any number of links: what an unlink severed is in no
\* memory and no flash, and comes back by no answer and no restart; and an
\* account shown as signed in has its tokens, one shown as pending a task that
\* will decide it (identity.c; UnlinkForgets and StatesHonest of Identity).
THEOREM IdentitySafe == IdentitySpec => [](UnlinkForgets /\ StatesHonest)
BY IdentityHolds, IdentityInvSafe, PTL

-------------------------------------------------------------------------------
(***************************************************************************)
(* Setup.  The Bluetooth task can only stop what is active, a setup is     *)
(* only torn down when its radio has closed, and the radio only closes     *)
(* while nobody is in recorder_setup_stop.                                 *)
(***************************************************************************)
Looping == {"tick", "ended", "look", "key", "pause", "dispatch", "list"}

SetupTypes ==
  /\ task \in [main : Starting \cup Stopping \cup Looping, ble : {"free"} \cup Stopping]
  /\ radio \in {"off", "on", "closing"}
  /\ \A b \in {active, ended, stop_requested, manager, shown, due} : b \in BOOLEAN

\* A setup that is being started is whole up to where it is.
StartingWhole ==
  /\ task.main \in Starting =>
       manager /\ ~active /\ ~ended /\ ~stop_requested /\ radio # "closing"
  /\ task.main \in {"advertise", "register", "activate"} => shown
  /\ task.main \in {"register", "activate"} => radio = "on"

\* Who stops it finds it active, and says so before it hides anything.
StoppingWhole ==
  /\ task.main \in Stopping \/ task.ble \in Stopping => active
  /\ {task.main, task.ble} \cap {"hide", "close"} # {} => stop_requested

\* StopUnderWay, without its quantifier.
Stops ==
  active /\ stop_requested =>
    task.main \in Stopping \/ task.ble \in Stopping \/ radio = "closing" \/ ended

ActiveWhole ==
  /\ manager => active \/ task.main \in Starting
  /\ active => radio # "off" \/ ended
  /\ ended => radio = "off" /\ task.ble = "free"

SetupInv ==
  /\ SetupTypes /\ StartingWhole /\ StoppingWhole /\ ActiveWhole
  /\ SetupConfined /\ Stops

-------------------------------------------------------------------------------
(***************************************************************************)
(* The modes and the card.                                                 *)
(***************************************************************************)
\* A status that was read as off still is when the key is acted upon; what was
\* read as on was on alone, and nothing can have come on beside it.
SeenTrue ==
  task.main \in {"key", "pause", "dispatch"} =>
    /\ ~seen.local => local = "off"
    /\ ~seen.sync => sync = "off"
    /\ ~seen.voice => voice = "off"
    /\ seen.local => ~Busy(sync) /\ ~Busy(voice) /\ ~manager
    /\ seen.sync => ~Busy(local) /\ ~Busy(voice) /\ ~manager
    /\ seen.voice => ~Busy(local) /\ ~Busy(sync) /\ ~manager

\* The server is shut out: no request is let in, and none past its check.
ShutOut == ~available /\ lan.pc \in {"idle", "lease", "check"}

LeaseTrue ==
  /\ lan \in [pc : {"idle", "lease", "check", "read", "send", "next"},
              kind : {"list", "file"}]
  /\ leased <=> lan.pc \notin {"idle", "lease"}

\* It is while a mode is on, from when it is seen until the catalog has been
\* read after it, and from when a key has been heard.
UseKept ==
  Busy(local) \/ Busy(sync) \/ Busy(voice) \/ manager \/ Main("list") => ShutOut
SeenKept ==
  task.main \in {"key", "pause", "dispatch"} /\ seen.local => ShutOut
CatalogKept == ~gui /\ previous /\ screen = "catalog" => ShutOut
KeyKept ==
  /\ key # "none" => task.main \in {"pause", "dispatch"} /\ ~available
  /\ key # "none" /\ Main("dispatch") => ShutOut

\* ModesExclusive, without its quantifiers.
OneMode ==
  /\ Busy(local) => ~Busy(sync) /\ ~Busy(voice) /\ ~manager
  /\ Busy(sync) => ~Busy(voice) /\ ~manager
  /\ Busy(voice) => ~manager

ModesInv ==
  /\ SeenTrue /\ LeaseTrue /\ OneMode
  /\ UseKept /\ SeenKept /\ CatalogKept /\ KeyKept

-------------------------------------------------------------------------------
LEMMA SetupInvInit == Init => SetupInv
<1> SUFFICES ASSUME Init PROVE SetupInv
  OBVIOUS
<1>1. task = [main |-> "tick", ble |-> "free"] /\ radio = "off"
      /\ ~active /\ ~ended /\ ~stop_requested /\ ~manager /\ ~shown
      /\ \A b \in {active, ended, stop_requested, manager, shown, due} : b \in BOOLEAN
  BY DEF Init, SetupInit
<1>2. SetupTypes
  BY <1>1 DEF SetupTypes, Looping
<1>3. StartingWhole /\ StoppingWhole /\ ActiveWhole /\ SetupConfined /\ Stops
  BY <1>1 DEF StartingWhole, StoppingWhole, ActiveWhole, SetupConfined, Stops,
              Starting, Stopping
<1> QED BY <1>2, <1>3 DEF SetupInv

\* Where a task is after it went on.
LEMMA Goes ==
  ASSUME SetupTypes, NEW pc
  PROVE  /\ Goto("main", pc) => task' = [main |-> pc, ble |-> task.ble]
         /\ Goto("ble", pc) => task' = [main |-> task.main, ble |-> pc]
BY DEF SetupTypes, Goto

\* The main task goes on in its loop.
LEMMA LoopKeepsSetup ==
  ASSUME SetupInv, task.main \in Looping, UNCHANGED setup,
         NEW pc \in Looping, Goto("main", pc)
  PROVE  SetupInv'
<1>1. task'.main = pc /\ task'.ble = task.ble /\ task' = [main |-> pc, ble |-> task.ble]
  BY Goes DEF SetupInv
<1>2. pc \notin Starting \cup Stopping /\ task.main \notin Starting \cup Stopping
      /\ pc \notin {"hide", "close", "advertise", "register", "activate"}
  BY DEF Starting, Stopping, Looping
<1>3. SetupTypes'
  BY <1>1, <1>2 DEF SetupInv, SetupTypes, setup
<1>4. StartingWhole'
  BY <1>1, <1>2 DEF SetupInv, StartingWhole, setup
<1>5. StoppingWhole'
  BY <1>1, <1>2 DEF SetupInv, StoppingWhole, setup
<1>6. ActiveWhole'
  BY <1>1, <1>2 DEF SetupInv, ActiveWhole, setup
<1>7. SetupConfined' /\ Stops'
  BY <1>1, <1>2 DEF SetupInv, SetupConfined, Stops, setup
<1> QED BY <1>3, <1>4, <1>5, <1>6, <1>7 DEF SetupInv

\* A task goes on to stop what it found active.
LEMMA ClaimKeepsSetup ==
  ASSUME SetupInv, UNCHANGED setup, Stoppable,
         \/ task.main \in Looping /\ Goto("main", "claim")
         \/ task.ble = "free" /\ radio # "off" /\ Goto("ble", "claim")
  PROVE  SetupInv'
<1>1. \/ task.main \in Looping /\ task' = [main |-> "claim", ble |-> task.ble]
      \/ /\ task.ble = "free" /\ radio # "off"
         /\ task' = [main |-> task.main, ble |-> "claim"]
  BY Goes DEF SetupInv
<1>2. active /\ ~stop_requested /\ task.main \notin Starting
  BY DEF Stoppable, SetupInv, StartingWhole
<1>3. SetupTypes'
  BY <1>1 DEF SetupInv, SetupTypes, setup, Stopping, Looping
<1>4. StartingWhole'
  BY <1>1, <1>2 DEF SetupInv, StartingWhole, setup, Starting
<1>5. StoppingWhole'
  BY <1>1, <1>2 DEF SetupInv, StoppingWhole, setup
<1>6. ActiveWhole'
  BY <1>1, <1>2 DEF SetupInv, ActiveWhole, setup
<1>7. SetupConfined' /\ Stops'
  BY <1>1, <1>2 DEF SetupInv, SetupConfined, Stops, setup
<1> QED BY <1>3, <1>4, <1>5, <1>6, <1>7 DEF SetupInv

LEMMA StartSetupKeeps ==
  ASSUME SetupInv, task.main \in Looping, StartSetup
  PROVE  SetupInv'
<1>1. task' = [main |-> "show", ble |-> task.ble]
  BY Goes DEF SetupInv, StartSetup
<1>2. SetupTypes'
  BY <1>1 DEF StartSetup, SetupInv, SetupTypes, Starting
<1>3. StartingWhole'
  BY <1>1 DEF StartSetup, SetupInv, StartingWhole, SetupConfined
<1>4. StoppingWhole'
  BY <1>1 DEF StartSetup, SetupInv, StoppingWhole, Stopping
<1>5. ActiveWhole'
  BY <1>1 DEF StartSetup, SetupInv, ActiveWhole, Starting
<1>6. SetupConfined'
  BY <1>1 DEF StartSetup, SetupInv, SetupConfined
<1>7. Stops'
  BY <1>1 DEF StartSetup, SetupInv, Stops
<1> QED BY <1>2, <1>3, <1>4, <1>5, <1>6, <1>7 DEF SetupInv

LEMMA ShowSetupKeeps ==
  ASSUME SetupInv, ShowSetup
  PROVE  SetupInv'
<1>1. task' = [main |-> "advertise", ble |-> task.ble] /\ task.main = "show"
  BY Goes DEF SetupInv, ShowSetup, Main
<1>2. SetupTypes'
  BY <1>1 DEF ShowSetup, SetupInv, SetupTypes, Starting
<1>3. StartingWhole'
  BY <1>1 DEF ShowSetup, SetupInv, StartingWhole, Starting
<1>4. StoppingWhole'
  BY <1>1 DEF ShowSetup, SetupInv, StoppingWhole, Stopping
<1>5. ActiveWhole'
  BY <1>1 DEF ShowSetup, SetupInv, ActiveWhole, Starting
<1>6. SetupConfined'
  BY <1>1 DEF ShowSetup, SetupInv, StartingWhole, SetupConfined, Starting
<1>7. Stops'
  BY <1>1 DEF ShowSetup, SetupInv, Stops, Stopping
<1> QED BY <1>2, <1>3, <1>4, <1>5, <1>6, <1>7 DEF SetupInv

LEMMA AdvertiseSetupKeeps ==
  ASSUME SetupInv, AdvertiseSetup
  PROVE  SetupInv'
<1>1. task' = [main |-> "register", ble |-> task.ble] /\ task.main = "advertise"
  BY Goes DEF SetupInv, AdvertiseSetup, Main
<1>2. SetupTypes'
  BY <1>1 DEF AdvertiseSetup, SetupInv, SetupTypes, Starting
<1>3. StartingWhole'
  BY <1>1 DEF AdvertiseSetup, SetupInv, StartingWhole, Starting
<1>4. StoppingWhole'
  BY <1>1 DEF AdvertiseSetup, SetupInv, StoppingWhole, Stopping
<1>5. ActiveWhole'
  BY <1>1 DEF AdvertiseSetup, SetupInv, StartingWhole, ActiveWhole, Starting
<1>6. SetupConfined'
  BY <1>1 DEF AdvertiseSetup, SetupInv, StartingWhole, SetupConfined
<1>7. Stops'
  BY <1>1 DEF AdvertiseSetup, SetupInv, StartingWhole, Stops, Starting
<1> QED BY <1>2, <1>3, <1>4, <1>5, <1>6, <1>7 DEF SetupInv

LEMMA RegisterControlKeeps ==
  ASSUME SetupInv, RegisterControl
  PROVE  SetupInv'
<1>1. task' = [main |-> "activate", ble |-> task.ble] /\ task.main = "register"
  BY Goes DEF SetupInv, RegisterControl, Main
<1>2. SetupTypes'
  BY <1>1 DEF RegisterControl, SetupInv, SetupTypes, setup, Starting
<1>3. StartingWhole'
  BY <1>1 DEF RegisterControl, SetupInv, StartingWhole, setup, Starting
<1>4. StoppingWhole'
  BY <1>1 DEF RegisterControl, SetupInv, StoppingWhole, setup, Stopping
<1>5. ActiveWhole'
  BY <1>1 DEF RegisterControl, SetupInv, ActiveWhole, setup, Starting
<1>6. SetupConfined'
  BY <1>1 DEF RegisterControl, SetupInv, SetupConfined, setup
<1>7. Stops'
  BY <1>1 DEF RegisterControl, SetupInv, Stops, setup, Stopping
<1> QED BY <1>2, <1>3, <1>4, <1>5, <1>6, <1>7 DEF SetupInv

LEMMA ActivateSetupKeeps ==
  ASSUME SetupInv, ActivateSetup
  PROVE  SetupInv'
<1>1. task' = [main |-> "tick", ble |-> task.ble] /\ task.main = "activate"
  BY Goes DEF SetupInv, ActivateSetup, Main
<1>2. SetupTypes'
  BY <1>1 DEF ActivateSetup, SetupInv, SetupTypes, Looping
<1>3. StartingWhole'
  BY <1>1 DEF ActivateSetup, SetupInv, StartingWhole, Starting
<1>4. StoppingWhole'
  BY <1>1 DEF ActivateSetup, SetupInv, StoppingWhole
<1>5. ActiveWhole'
  BY <1>1 DEF ActivateSetup, SetupInv, StartingWhole, ActiveWhole
<1>6. SetupConfined'
  BY <1>1 DEF ActivateSetup, SetupInv, StartingWhole, SetupConfined
<1>7. Stops'
  BY <1>1 DEF ActivateSetup, SetupInv, StartingWhole, Stops, Starting
<1> QED BY <1>2, <1>3, <1>4, <1>5, <1>6, <1>7 DEF SetupInv

LEMMA FailSetupKeeps ==
  ASSUME SetupInv, FailSetup
  PROVE  SetupInv'
<1>1. task' = [main |-> "tick", ble |-> task.ble]
  BY Goes DEF SetupInv, FailSetup
<1>2. SetupTypes'
  BY <1>1 DEF FailSetup, SetupInv, SetupTypes, Looping
<1>3. StartingWhole'
  BY <1>1 DEF FailSetup, SetupInv, StartingWhole, Starting
<1>4. StoppingWhole'
  BY <1>1 DEF FailSetup, SetupInv, StoppingWhole, Stopping
<1>5. ActiveWhole'
  BY <1>1 DEF FailSetup, SetupInv, StartingWhole, ActiveWhole, Starting
<1>6. SetupConfined'
  BY <1>1 DEF FailSetup, SetupInv, StartingWhole, SetupConfined, Starting
<1>7. Stops'
  BY <1>1 DEF FailSetup, SetupInv, StartingWhole, Stops, Starting
<1> QED BY <1>2, <1>3, <1>4, <1>5, <1>6, <1>7 DEF SetupInv

LEMMA TickEndedKeeps ==
  ASSUME SetupInv, TickEnded
  PROVE  SetupInv'
<1>1. task' = [main |-> "look", ble |-> task.ble] /\ task.main = "ended"
  BY Goes DEF SetupInv, TickEnded, Main
<1>2. SetupTypes'
  BY <1>1 DEF TickEnded, SetupInv, SetupTypes, Looping
<1>3. StartingWhole'
  BY <1>1 DEF TickEnded, SetupInv, StartingWhole, Starting
<1>4. StoppingWhole'
  BY <1>1 DEF TickEnded, SetupInv, StoppingWhole, ActiveWhole, Stopping
<1>5. ActiveWhole'
  BY <1>1 DEF TickEnded, SetupInv, ActiveWhole, SetupConfined, Starting
<1>6. SetupConfined'
  BY <1>1 DEF TickEnded, SetupInv, ActiveWhole, SetupConfined
<1>7. Stops'
  BY <1>1 DEF TickEnded, SetupInv, SetupConfined, Stops, Stopping
<1> QED BY <1>2, <1>3, <1>4, <1>5, <1>6, <1>7 DEF SetupInv

LEMMA RadioClosesKeeps ==
  ASSUME SetupInv, RadioCloses
  PROVE  SetupInv'
<1>1. SetupTypes'
  BY DEF RadioCloses, SetupInv, SetupTypes
<1>2. StartingWhole'
  BY DEF RadioCloses, SetupInv, StartingWhole
<1>3. StoppingWhole'
  BY DEF RadioCloses, SetupInv, StoppingWhole
<1>4. ActiveWhole'
  BY DEF RadioCloses, SetupInv, ActiveWhole
<1>5. SetupConfined'
  BY DEF RadioCloses, SetupInv, SetupConfined
<1>6. Stops'
  BY DEF RadioCloses, SetupInv, Stops
<1> QED BY <1>1, <1>2, <1>3, <1>4, <1>5, <1>6 DEF SetupInv

LEMMA SetupExpiresKeeps ==
  ASSUME SetupInv, SetupExpires
  PROVE  SetupInv'
<1>1. SetupTypes'
  BY DEF SetupExpires, SetupInv, SetupTypes
<1>2. StartingWhole'
  BY DEF SetupExpires, SetupInv, StartingWhole
<1>3. StoppingWhole'
  BY DEF SetupExpires, SetupInv, StoppingWhole
<1>4. ActiveWhole'
  BY DEF SetupExpires, SetupInv, ActiveWhole
<1>5. SetupConfined'
  BY DEF SetupExpires, SetupInv, SetupConfined
<1>6. Stops'
  BY DEF SetupExpires, SetupInv, Stops
<1> QED BY <1>1, <1>2, <1>3, <1>4, <1>5, <1>6 DEF SetupInv

LEMMA RebootSetupKeeps ==
  ASSUME SetupInv, RebootSetup
  PROVE  SetupInv'
<1>1. SetupTypes'
  BY DEF RebootSetup, SetupInv, SetupTypes, Looping
<1>2. StartingWhole'
  BY DEF RebootSetup, SetupInv, StartingWhole, Starting
<1>3. StoppingWhole'
  BY DEF RebootSetup, SetupInv, StoppingWhole, Stopping
<1>4. ActiveWhole'
  BY DEF RebootSetup, SetupInv, ActiveWhole
<1>5. SetupConfined'
  BY DEF RebootSetup, SetupInv, SetupConfined
<1>6. Stops'
  BY DEF RebootSetup, SetupInv, Stops
<1> QED BY <1>1, <1>2, <1>3, <1>4, <1>5, <1>6 DEF SetupInv

LEMMA ClaimStopMainKeeps ==
  ASSUME SetupInv, ClaimStop("main")
  PROVE  SetupInv'
<1>1. task' = [main |-> "hide", ble |-> task.ble] /\ task.main = "claim"
  BY Goes DEF SetupInv, ClaimStop
<1>2. SetupTypes'
  BY <1>1 DEF ClaimStop, SetupInv, SetupTypes, Stopping
<1>3. StartingWhole'
  BY <1>1 DEF ClaimStop, SetupInv, StartingWhole, Starting
<1>4. StoppingWhole'
  BY <1>1 DEF ClaimStop, SetupInv, StoppingWhole, Stopping
<1>5. ActiveWhole'
  BY <1>1 DEF ClaimStop, SetupInv, ActiveWhole, Starting
<1>6. SetupConfined'
  BY <1>1 DEF ClaimStop, SetupInv, SetupConfined
<1>7. Stops'
  BY <1>1 DEF ClaimStop, SetupInv, Stops, Stopping
<1> QED BY <1>2, <1>3, <1>4, <1>5, <1>6, <1>7 DEF SetupInv

LEMMA HideSetupMainKeeps ==
  ASSUME SetupInv, HideSetup("main")
  PROVE  SetupInv'
<1>1. task' = [main |-> "close", ble |-> task.ble] /\ task.main = "hide"
  BY Goes DEF SetupInv, HideSetup
<1>2. SetupTypes'
  BY <1>1 DEF HideSetup, SetupInv, SetupTypes, Stopping
<1>3. StartingWhole'
  BY <1>1 DEF HideSetup, SetupInv, StartingWhole, Starting
<1>4. StoppingWhole'
  BY <1>1 DEF HideSetup, SetupInv, StoppingWhole, Stopping
<1>5. ActiveWhole'
  BY <1>1 DEF HideSetup, SetupInv, ActiveWhole, Starting
<1>6. SetupConfined'
  BY <1>1 DEF HideSetup, SetupInv, StoppingWhole, SetupConfined
<1>7. Stops'
  BY <1>1 DEF HideSetup, SetupInv, Stops, Stopping
<1> QED BY <1>2, <1>3, <1>4, <1>5, <1>6, <1>7 DEF SetupInv

LEMMA CloseSetupMainKeeps ==
  ASSUME SetupInv, CloseSetup("main")
  PROVE  SetupInv'
<1>1. task' = [main |-> "tick", ble |-> task.ble] /\ task.main = "close"
  BY Goes DEF SetupInv, CloseSetup, Returned
<1>2. SetupTypes'
  BY <1>1 DEF CloseSetup, Returned, SetupInv, SetupTypes, Looping
<1>3. StartingWhole'
  BY <1>1 DEF CloseSetup, Returned, SetupInv, StartingWhole, Starting
<1>4. StoppingWhole'
  BY <1>1 DEF CloseSetup, Returned, SetupInv, StoppingWhole, Stopping
<1>5. ActiveWhole'
  BY <1>1 DEF CloseSetup, Returned, SetupInv, ActiveWhole, Starting
<1>6. SetupConfined'
  BY <1>1 DEF CloseSetup, Returned, SetupInv, SetupConfined
<1>7. Stops'
  BY <1>1 DEF CloseSetup, Returned, SetupInv, SetupTypes, ActiveWhole, Stops
<1> QED BY <1>2, <1>3, <1>4, <1>5, <1>6, <1>7 DEF SetupInv

LEMMA ClaimStopBleKeeps ==
  ASSUME SetupInv, ClaimStop("ble")
  PROVE  SetupInv'
<1>1. task' = [main |-> task.main, ble |-> "hide"] /\ task.ble = "claim"
  BY Goes DEF SetupInv, ClaimStop
<1>2. SetupTypes'
  BY <1>1 DEF ClaimStop, SetupInv, SetupTypes, Stopping
<1>3. StartingWhole'
  BY <1>1 DEF ClaimStop, SetupInv, StartingWhole, StoppingWhole, Stopping
<1>4. StoppingWhole'
  BY <1>1 DEF ClaimStop, SetupInv, StoppingWhole, Stopping
<1>5. ActiveWhole'
  BY <1>1 DEF ClaimStop, SetupInv, ActiveWhole
<1>6. SetupConfined'
  BY <1>1 DEF ClaimStop, SetupInv, SetupConfined
<1>7. Stops'
  BY <1>1 DEF ClaimStop, SetupInv, Stops, Stopping
<1> QED BY <1>2, <1>3, <1>4, <1>5, <1>6, <1>7 DEF SetupInv

LEMMA HideSetupBleKeeps ==
  ASSUME SetupInv, HideSetup("ble")
  PROVE  SetupInv'
<1>1. task' = [main |-> task.main, ble |-> "close"] /\ task.ble = "hide"
  BY Goes DEF SetupInv, HideSetup
<1>2. SetupTypes'
  BY <1>1 DEF HideSetup, SetupInv, SetupTypes, Stopping
<1>3. StartingWhole'
  BY <1>1 DEF HideSetup, SetupInv, StartingWhole, StoppingWhole, Starting
<1>4. StoppingWhole'
  BY <1>1 DEF HideSetup, SetupInv, StoppingWhole, Stopping
<1>5. ActiveWhole'
  BY <1>1 DEF HideSetup, SetupInv, ActiveWhole
<1>6. SetupConfined'
  BY <1>1 DEF HideSetup, SetupInv, StoppingWhole, SetupConfined
<1>7. Stops'
  BY <1>1 DEF HideSetup, SetupInv, Stops, Stopping
<1> QED BY <1>2, <1>3, <1>4, <1>5, <1>6, <1>7 DEF SetupInv

LEMMA CloseSetupBleKeeps ==
  ASSUME SetupInv, CloseSetup("ble")
  PROVE  SetupInv'
<1>1. task' = [main |-> task.main, ble |-> "free"] /\ task.ble = "close"
  BY Goes DEF SetupInv, CloseSetup, Returned
<1>2. SetupTypes'
  BY <1>1 DEF CloseSetup, Returned, SetupInv, SetupTypes
<1>3. StartingWhole'
  BY <1>1 DEF CloseSetup, Returned, SetupInv, StartingWhole, StoppingWhole, Starting
<1>4. StoppingWhole'
  BY <1>1 DEF CloseSetup, Returned, SetupInv, StoppingWhole, Stopping
<1>5. ActiveWhole'
  BY <1>1 DEF CloseSetup, Returned, SetupInv, ActiveWhole
<1>6. SetupConfined'
  BY <1>1 DEF CloseSetup, Returned, SetupInv, SetupConfined
<1>7. Stops'
  BY <1>1 DEF CloseSetup, Returned, SetupInv, SetupTypes, ActiveWhole, Stops
<1> QED BY <1>2, <1>3, <1>4, <1>5, <1>6, <1>7 DEF SetupInv

\* What leaves the main task in its loop.
LEMMA DoneKeepsSetup ==
  ASSUME SetupInv, Main("dispatch"), UNCHANGED setup, NEW pc \in Looping, Done(pc)
  PROVE  SetupInv'
BY LoopKeepsSetup DEF Done, Main, Looping

LEMMA RestKeepsSetup ==
  ASSUME SetupInv, Main("dispatch"), UNCHANGED setup, NEW reads \in BOOLEAN, Rest(reads)
  PROVE  SetupInv'
BY DoneKeepsSetup DEF Rest, Looping

LEMMA DispatchKeepsSetup == ASSUME SetupInv, Dispatch PROVE SetupInv'
<1>1. Main("dispatch") /\ task.main \in Looping
  BY DEF Dispatch, Main, Looping
<1>2. CASE VoiceKey \/ SyncKey \/ LocalKey \/ HomeKey \/ RecordKey \/ SyncStartKey
           \/ VoiceStartKey \/ LeaveKey
  <2>1. Done("tick") /\ UNCHANGED setup
    BY <1>2 DEF VoiceKey, SyncKey, LocalKey, HomeKey, RecordKey, SyncStartKey,
                VoiceStartKey, LeaveKey
  <2> QED BY <1>1, <2>1, DoneKeepsSetup DEF Looping
<1>3. CASE SetupKey
  <2>1. CASE key = "back" /\ Stoppable
    BY <1>1, <1>3, <2>1, ClaimKeepsSetup DEF SetupKey, Done
  <2>2. CASE ~(key = "back" /\ Stoppable)
    BY <1>1, <1>3, <2>2, DoneKeepsSetup DEF SetupKey, Looping
  <2> QED BY <2>1, <2>2
<1>4. CASE NoKey \/ PlayKey
  BY <1>1, <1>4, RestKeepsSetup DEF NoKey, PlayKey
<1>5. CASE MoveKey
  <2>1. UNCHANGED setup /\ \E reads \in BOOLEAN : Rest(reads)
    BY <1>5 DEF MoveKey
  <2> QED BY <1>1, <2>1, RestKeepsSetup
<1>6. CASE CatalogKey
  BY <1>1, <1>6, DoneKeepsSetup DEF CatalogKey, Looping
<1>7. CASE SetupStartKey
  <2>1. CASE StartSetup
    BY <1>1, <2>1, StartSetupKeeps
  <2>2. CASE Goto("main", "tick") /\ UNCHANGED setup
    BY <1>1, <2>2, LoopKeepsSetup DEF Looping
  <2> QED BY <1>7, <2>1, <2>2 DEF SetupStartKey
<1> QED BY <1>2, <1>3, <1>4, <1>5, <1>6, <1>7 DEF Dispatch

LEMMA StopsKeepSetup ==
  ASSUME SetupInv, SetupStops("main") \/ SetupStops("ble") PROVE SetupInv'
BY ClaimStopMainKeeps, HideSetupMainKeeps, CloseSetupMainKeeps,
   ClaimStopBleKeeps, HideSetupBleKeeps, CloseSetupBleKeeps
   DEF SetupStops

LEMMA StartsKeepSetup == ASSUME SetupInv, SetupStarts PROVE SetupInv'
BY ShowSetupKeeps, AdvertiseSetupKeeps, RegisterControlKeeps, ActivateSetupKeeps,
   FailSetupKeeps
   DEF SetupStarts

LEMMA MainKeepsSetup == ASSUME SetupInv, MainTask PROVE SetupInv'
<1>1. CASE Tick
  <2>1. task.main \in Looping /\ UNCHANGED setup
    BY <1>1 DEF Tick, Main, Looping
  <2>2. CASE due /\ Stoppable
    BY <1>1, <2>1, <2>2, ClaimKeepsSetup DEF Tick
  <2>3. CASE ~(due /\ Stoppable)
    BY <1>1, <2>1, <2>3, LoopKeepsSetup DEF Tick, Looping
  <2> QED BY <2>2, <2>3
<1>2. CASE Ended
  BY <1>2, TickEndedKeeps DEF Ended
<1>3. CASE Look \/ Key \/ Paused \/ PauseTimeout \/ List
  <2>1. UNCHANGED setup /\ task.main \in Looping /\ \E pc \in Looping : Goto("main", pc)
    BY <1>3 DEF Look, Key, Paused, PauseTimeout, List, Main, Looping
  <2> QED BY <2>1, LoopKeepsSetup
<1> QED
  BY <1>1, <1>2, <1>3, DispatchKeepsSetup, StartsKeepSetup, StopsKeepSetup DEF MainTask

\* What leaves the main task, the Bluetooth task and the setup as they are.
LEMMA OthersKeepSetup ==
  ASSUME SetupInv, UNCHANGED <<setup, task>> PROVE SetupInv'
BY DEF SetupInv, SetupTypes, StartingWhole, StoppingWhole, ActiveWhole, SetupConfined,
       Stops, setup

LEMMA NextKeepsSetup == ASSUME SetupInv, [Next]_device PROVE SetupInv'
<1>1. CASE Requests
  <2>1. CASE FinishRequest
    <3>1. task.ble = "free" /\ radio # "off" /\ Stoppable /\ UNCHANGED setup
          /\ Goto("ble", "claim")
      BY <2>1 DEF FinishRequest, Asked
    <3> QED BY <3>1, ClaimKeepsSetup
  <2>2. CASE AuthRequest
    BY <2>2, OthersKeepSetup DEF AuthRequest
  <2> QED BY <1>1, <2>1, <2>2 DEF Requests
<1>2. CASE Timers
  BY <1>2, RadioClosesKeeps, SetupExpiresKeeps DEF Timers
<1>3. CASE Work(Grant \/ CodeExpires \/ SpawnGrant \/ Unlink \/ Access)
           \/ ModeAsksToken \/ ModeEnds \/ Network \/ LanRequest \/ Lan
  <2>1. UNCHANGED <<setup, task>>
    BY <1>3 DEF Work, ModeAsksToken, ModeEnds, Network, LanRequest, Lan
  <2> QED BY <2>1, OthersKeepSetup
<1>4. CASE Restart
  BY <1>4, RebootSetupKeeps DEF Restart
<1>5. CASE UNCHANGED device
  BY <1>5, OthersKeepSetup DEF device
<1> QED
  BY <1>1, <1>2, <1>3, <1>4, <1>5, MainKeepsSetup, StopsKeepSetup DEF Next, BleTask

LEMMA SetupHolds == Spec => []SetupInv
BY SetupInvInit, NextKeepsSetup, PTL DEF Spec

LEMMA SetupInvSafe == SetupInv => SetupConfined /\ StopUnderWay
BY DEF SetupInv, Stops, StopUnderWay

\* At every moment of every scene the radio is open only behind credentials or a
\* stop, and nothing is left of a setup that is over (recorder_setup_start,
\* recorder_setup_tick, SetupConfined of DeviceSetup).
THEOREM SetupSafe == Spec => []SetupConfined
BY SetupHolds, SetupInvSafe, PTL

\* No stop of a setup is lost, whichever task asked for it and wherever the other
\* one was (recorder_setup_stop, stop_requested, StopUnderWay of DeviceSetup).
THEOREM StopSafe == Spec => []StopUnderWay
BY SetupHolds, SetupInvSafe, PTL

-------------------------------------------------------------------------------
(***************************************************************************)
(* The modes and the card.  A mode only starts for a key; for a key the    *)
(* main task has waited until no request has the card; and what the status *)
(* read before the key says is off cannot have come on since.              *)
(***************************************************************************)
LEMMA ModesInvInit == Init => ModesInv
<1> SUFFICES ASSUME Init PROVE ModesInv
  OBVIOUS
<1>1. /\ task.main = "tick" /\ ~manager /\ ~available /\ ~leased
      /\ lan = [pc |-> "idle", kind |-> "list"]
      /\ local = "off" /\ sync = "off" /\ voice = "off"
      /\ screen = "home" /\ key = "none"
  BY DEF Init, SetupInit, ServerInit, NoRequest
<1>2. LeaseTrue
  BY <1>1 DEF LeaseTrue
<1> QED
  BY <1>1, <1>2
     DEF ModesInv, SeenTrue, OneMode, UseKept, SeenKept, CatalogKept, KeyKept, Busy, Main

LEMMA OneModeSafe == OneMode => ModesExclusive
BY DEF OneMode, ModesExclusive

LEMMA CardSafe == ModesInv => CardExclusive
BY DEF ModesInv, UseKept, ShutOut, CardExclusive, At

\* How a request goes on, and how it ends.
LEMMA RequestGoes ==
  ASSUME LeaseTrue
  PROVE  /\ \A pc : LanGoto(pc) => lan' = [pc |-> pc, kind |-> lan.kind]
         /\ Release => LeaseTrue' /\ lan'.pc = "idle"
BY DEF LeaseTrue, LanGoto, Release, NoRequest

\* The server moves: it never gets past its check when it is shut out.
LEMMA ServerKeepsModes ==
  ASSUME ModesInv, Lan \/ LanRequest
  PROVE  ModesInv'
<1>1. /\ UNCHANGED <<available, task, manager, scene, screenvars, loopvars, modes>>
      /\ \/ Refuse \/ Lease \/ Check \/ Read \/ Send \/ Continue
         \/ \E kind \in {"list", "file"} : Request(kind)
  BY DEF Lan, LanRequest, Serve, Refuse, Lease, Check, Read, Send, Continue, Request, setup
<1>2. LeaseTrue' /\ (ShutOut => ShutOut')
  <2>1. CASE Refuse
    BY <2>1 DEF ModesInv, LeaseTrue, ShutOut, Refuse, NoRequest, At
  <2>2. CASE Lease
    BY <2>2 DEF ModesInv, LeaseTrue, ShutOut, Lease, LanGoto, At
  <2>3. CASE Check
    <3>1. CASE Release
      BY <1>1, <3>1, RequestGoes DEF ModesInv, ShutOut
    <3>2. CASE ~Release
      <4>1. /\ lan.pc = "check" /\ leased' = leased /\ available
            /\ lan' = [pc |-> "read", kind |-> lan.kind]
        BY <2>3, <3>2, RequestGoes DEF ModesInv, Check, At
      <4> QED BY <4>1 DEF ModesInv, LeaseTrue, ShutOut
    <3> QED BY <3>1, <3>2
  <2>4. CASE Read
    <3>1. CASE Release
      BY <1>1, <3>1, RequestGoes DEF ModesInv, ShutOut
    <3>2. CASE ~Release
      <4>1. lan.pc = "read" /\ leased' = leased /\ lan' = [pc |-> "send", kind |-> lan.kind]
        BY <2>4, <3>2, RequestGoes DEF ModesInv, Read, At
      <4> QED BY <4>1 DEF ModesInv, LeaseTrue, ShutOut
    <3> QED BY <3>1, <3>2
  <2>5. CASE Send
    <3>1. CASE Release
      BY <1>1, <3>1, RequestGoes DEF ModesInv, ShutOut
    <3>2. CASE ~Release
      <4>1. lan.pc = "send" /\ leased' = leased /\ lan' = [pc |-> "next", kind |-> lan.kind]
        BY <2>5, <3>2, RequestGoes DEF ModesInv, Send, At
      <4> QED BY <4>1 DEF ModesInv, LeaseTrue, ShutOut
    <3> QED BY <3>1, <3>2
  <2>6. CASE Continue
    <3>1. CASE Release
      BY <1>1, <3>1, RequestGoes DEF ModesInv, ShutOut
    <3>2. CASE ~Release
      <4>1. /\ lan.pc = "next" /\ leased' = leased /\ available
            /\ lan' \in [pc : {"read", "send"}, kind : {lan.kind}]
        BY <2>6, <3>2, RequestGoes DEF ModesInv, Continue, At
      <4> QED BY <4>1 DEF ModesInv, LeaseTrue, ShutOut
    <3> QED BY <3>1, <3>2
  <2>7. CASE \E kind \in {"list", "file"} : Request(kind)
    BY <2>7 DEF ModesInv, LeaseTrue, ShutOut, Request, At
  <2> QED BY <1>1, <2>1, <2>2, <2>3, <2>4, <2>5, <2>6, <2>7
<1>3. SeenTrue' /\ OneMode'
  BY <1>1 DEF ModesInv, SeenTrue, OneMode, Busy, loopvars, modes
<1>4. UseKept' /\ SeenKept' /\ CatalogKept'
  BY <1>1, <1>2
     DEF ModesInv, UseKept, SeenKept, CatalogKept, Busy, Main, gui, screenvars, loopvars,
         modes
<1>5. KeyKept'
  BY <1>1, <1>2 DEF ModesInv, KeyKept, Main, loopvars
<1> QED BY <1>2, <1>3, <1>4, <1>5 DEF ModesInv

\* A key has been dealt with.
LEMMA DoneKeepsModes ==
  ASSUME ModesInv, UNCHANGED <<server, scene>>, key' = "none",
         task'.main \in {"tick", "claim", "list", "show"}, OneMode',
         (Busy(local) \/ Busy(sync) \/ Busy(voice) \/ manager)' => ShutOut,
         task'.main = "list" => ShutOut,
         ~gui /\ previous' /\ screen' = "catalog" => ShutOut
  PROVE  ModesInv'
<1>1. LeaseTrue' /\ (ShutOut => ShutOut')
  BY DEF ModesInv, LeaseTrue, ShutOut, server
<1>2. SeenTrue' /\ SeenKept' /\ KeyKept'
  BY DEF SeenTrue, SeenKept, KeyKept
<1>3. UseKept'
  BY <1>1 DEF UseKept, Main
<1>4. CatalogKept'
  BY <1>1 DEF CatalogKept, gui
<1> QED BY <1>1, <1>2, <1>3, <1>4 DEF ModesInv

\* When nothing was seen to be on, nothing is.
LEMMA IdleOff ==
  ASSUME SetupInv, ModesInv, Main("dispatch"), Idle
  PROVE  ~Busy(local) /\ ~Busy(sync) /\ ~Busy(voice) /\ ~manager /\ ~seen.local
BY DEF SetupInv, ActiveWhole, ModesInv, SeenTrue, Idle, Busy, Main, Starting

\* What the text loop remembers was on when the server was let in no more.
LEMMA RememberKept ==
  ASSUME ModesInv, Main("dispatch"), Remember, ~gui, previous'
  PROVE  ShutOut
BY DEF ModesInv, SeenKept, Remember, Main

LEMMA BusyKeyKeepsModes ==
  ASSUME SetupInv, ModesInv, Main("dispatch"), VoiceKey \/ SyncKey \/ SetupKey \/ LocalKey
  PROVE  ModesInv'
<1>1. PICK pc \in {"tick", "claim"} : Done(pc)
  BY DEF VoiceKey, SyncKey, SetupKey, LocalKey
<1>2. Remember /\ UNCHANGED manager
  BY DEF VoiceKey, SyncKey, SetupKey, LocalKey, setup
<1>3. (Busy(local)' <=> Busy(local)) /\ (Busy(sync)' <=> Busy(sync))
      /\ (Busy(voice)' <=> Busy(voice))
  BY DEF VoiceKey, SyncKey, SetupKey, LocalKey, Asks, Busy, modes
<1>4. task'.main \in {"tick", "claim"} /\ key' = "none" /\ UNCHANGED <<server, scene>>
  BY <1>1, Goes DEF SetupInv, Done
<1>5. OneMode' /\ ((Busy(local) \/ Busy(sync) \/ Busy(voice) \/ manager)' => ShutOut)
  BY <1>2, <1>3 DEF ModesInv, OneMode, UseKept
<1> QED BY <1>2, <1>4, <1>5, RememberKept, DoneKeepsModes

\* A key that starts nothing, and may have the catalog read.
LEMMA IdleKeyKeepsModes ==
  ASSUME SetupInv, ModesInv, Main("dispatch"),
         NoKey \/ HomeKey \/ MoveKey \/ CatalogKey \/ LeaveKey
  PROVE  ModesInv'
<1>1. Idle /\ UNCHANGED <<manager, modes>>
  BY DEF NoKey, HomeKey, MoveKey, CatalogKey, LeaveKey, Starts, Enters, setup
<1>2. ~Busy(local)' /\ ~Busy(sync)' /\ ~Busy(voice)' /\ ~manager'
  BY <1>1, IdleOff DEF Busy, modes
<1>3. Remember
  BY DEF NoKey, HomeKey, MoveKey, CatalogKey, LeaveKey, Accepted
<1>4. PICK pc \in {"tick", "list"} :
        Done(pc) /\ (pc = "list" => key # "none" \/ Redraws)
  <2>1. CASE NoKey
    BY <2>1 DEF NoKey, Rest
  <2>2. CASE MoveKey
    BY <2>2 DEF MoveKey, Rest
  <2>3. CASE HomeKey \/ LeaveKey
    BY <2>3 DEF HomeKey, LeaveKey
  <2>4. CASE CatalogKey
    BY <2>4 DEF CatalogKey, Starts, Enters
  <2> QED BY <2>1, <2>2, <2>3, <2>4
<1>5. task'.main = pc /\ key' = "none" /\ UNCHANGED <<server, scene>>
  BY <1>4, Goes DEF SetupInv, Done
<1>6. pc = "list" => ShutOut
  BY <1>4 DEF ModesInv, KeyKept, CatalogKept, Redraws
<1>7. OneMode'
  BY <1>2 DEF OneMode
<1> QED BY <1>2, <1>3, <1>5, <1>6, <1>7, RememberKept, DoneKeepsModes

\* A key that starts a mode, or fails to: no request has the card any more.
LEMMA StartKeyKeepsModes ==
  ASSUME SetupInv, ModesInv, Main("dispatch"),
         PlayKey \/ RecordKey \/ SyncStartKey \/ VoiceStartKey \/ SetupStartKey
  PROVE  ModesInv'
<1>1. Idle /\ key # "none"
  BY DEF PlayKey, RecordKey, SyncStartKey, VoiceStartKey, SetupStartKey, Starts, Enters
<1>2. ShutOut
  BY <1>1 DEF ModesInv, KeyKept
<1>3. OneMode'
  <2>1. ~Busy(local) /\ ~Busy(sync) /\ ~Busy(voice) /\ ~manager
    BY <1>1, IdleOff
  <2>2. CASE PlayKey \/ RecordKey
    <3>1. UNCHANGED <<sync, voice, manager>>
      BY <2>2 DEF PlayKey, RecordKey, setup
    <3> QED BY <2>1, <3>1 DEF OneMode, Busy
  <2>3. CASE SyncStartKey
    BY <2>1, <2>3 DEF SyncStartKey, OneMode, Busy, setup
  <2>4. CASE VoiceStartKey
    BY <2>1, <2>4 DEF VoiceStartKey, OneMode, Busy, setup
  <2>5. CASE SetupStartKey
    BY <2>1, <2>5 DEF SetupStartKey, OneMode, Busy, modes
  <2> QED BY <2>2, <2>3, <2>4, <2>5
<1>4. /\ task'.main \in {"tick", "list", "show"} /\ key' = "none"
      /\ UNCHANGED <<server, scene>>
  <2>1. CASE SetupStartKey
    BY <2>1, Goes DEF SetupInv, SetupStartKey, StartSetup
  <2>2. CASE PlayKey
    <3>1. PICK pc \in {"tick", "list"} : Done(pc)
      BY <2>2 DEF PlayKey, Rest
    <3> QED BY <3>1, Goes DEF SetupInv, Done
  <2>3. CASE RecordKey \/ SyncStartKey \/ VoiceStartKey
    <3>1. Done("tick")
      BY <2>3 DEF RecordKey, SyncStartKey, VoiceStartKey
    <3> QED BY <3>1, Goes DEF SetupInv, Done
  <2> QED BY <2>1, <2>2, <2>3
<1> QED BY <1>2, <1>3, <1>4, DoneKeepsModes

LEMMA DispatchKeepsModes == ASSUME SetupInv, ModesInv, Dispatch PROVE ModesInv'
BY BusyKeyKeepsModes, IdleKeyKeepsModes, StartKeyKeepsModes DEF Dispatch

\* The statuses are read: the server is let in only when all is off.
LEMMA LookKeepsModes == ASSUME SetupInv, ModesInv, Look PROVE ModesInv'
<1>1. task.main = "look" /\ task'.main = "key"
  BY Goes DEF SetupInv, Look, Main
<1>2. key' = "none" /\ UNCHANGED <<leased, lan, modes, manager, screen, scene, previous>>
  BY <1>1 DEF ModesInv, KeyKept, Look, setup, screenvars
<1>3. /\ seen'.local <=> Busy(local)
      /\ seen'.sync <=> Busy(sync)
      /\ seen'.voice <=> Busy(voice)
  BY DEF Look, Busy
<1>4. available' =>
        ~Busy(local) /\ ~Busy(sync) /\ ~Busy(voice) /\ ~manager /\ screen = "home"
  BY <1>1 DEF Look, Busy, SetupInv, ActiveWhole, Starting
<1>5. ~available' /\ ShutOut => ShutOut'
  BY <1>2 DEF ShutOut
<1>6. LeaseTrue' /\ OneMode'
  BY <1>2 DEF ModesInv, LeaseTrue, OneMode, Busy, modes
<1>7. SeenTrue'
  BY <1>2, <1>3 DEF ModesInv, OneMode, SeenTrue, Busy, modes
<1>8. UseKept' /\ SeenKept'
  BY <1>1, <1>2, <1>3, <1>4, <1>5 DEF ModesInv, UseKept, SeenKept, Busy, Main, modes
<1>9. CatalogKept'
  BY <1>2, <1>4, <1>5 DEF ModesInv, CatalogKept, gui
<1>10. KeyKept'
  BY <1>2 DEF KeyKept
<1> QED BY <1>6, <1>7, <1>8, <1>9, <1>10 DEF ModesInv

\* The loop goes on without anything of it having been turned on.
LEMMA WaitKeepsModes ==
  ASSUME SetupInv, ModesInv, Key \/ Paused \/ PauseTimeout \/ List \/ (Tick /\ Still)
  PROVE  ModesInv'
<1>1. UNCHANGED <<leased, lan, local, sync, voice, manager, screen, scene>>
  BY DEF Key, Paused, PauseTimeout, List, Tick, Still, setup, modes, server, screenvars
<1>2. LeaseTrue' /\ OneMode'
  BY <1>1 DEF ModesInv, LeaseTrue, OneMode, Busy
<1>3. (available' => available) /\ (ShutOut => ShutOut')
  <2>1. available' => available
    BY DEF Key, Paused, PauseTimeout, List, Tick, Still, server
  <2> QED BY <1>1, <2>1 DEF ShutOut
<1>4. previous' \in {previous, FALSE} \/ gui
  BY DEF Key, Paused, PauseTimeout, List, Tick, Still, screenvars
<1>5. CatalogKept'
  BY <1>1, <1>3, <1>4 DEF ModesInv, CatalogKept, gui
<1>6. SeenTrue' /\ UseKept' /\ SeenKept' /\ KeyKept'
  <2>1. CASE Key
    <3>1. task.main = "key" /\ task'.main \in {"dispatch", "pause"} /\ seen' = seen
          /\ key = "none" /\ (key' # "none" => ~available' /\ task'.main = "pause")
      BY <2>1, Goes DEF SetupInv, ModesInv, KeyKept, Key, Main
    <3> QED
      BY <1>1, <1>3, <3>1
         DEF ModesInv, SeenTrue, UseKept, SeenKept, KeyKept, Busy, Main
  <2>2. CASE Paused
    <3>1. task.main = "pause" /\ task'.main = "dispatch" /\ seen' = seen /\ key' = key
          /\ UNCHANGED available /\ ~leased
      BY <2>2, Goes DEF SetupInv, Paused, Main, loopvars, server
    <3>2. key # "none" => ShutOut'
      BY <1>1, <3>1 DEF ModesInv, KeyKept, LeaseTrue, ShutOut
    <3> QED
      BY <1>1, <1>3, <3>1, <3>2
         DEF ModesInv, SeenTrue, UseKept, SeenKept, KeyKept, Busy, Main
  <2>3. CASE PauseTimeout
    <3>1. task.main = "pause" /\ key' = "none"
          /\ (task'.main = "tick" \/ (task'.main = "dispatch" /\ seen' = seen))
      <4>1. CASE gui
        BY <2>3, <4>1, Goes DEF SetupInv, PauseTimeout, Main
      <4>2. CASE ~gui
        BY <2>3, <4>2, Goes DEF SetupInv, PauseTimeout, Main
      <4> QED BY <4>1, <4>2
    <3> QED
      BY <1>1, <1>3, <3>1
         DEF ModesInv, SeenTrue, UseKept, SeenKept, KeyKept, Busy, Main
  <2>4. CASE List \/ (Tick /\ Still)
    <3>1. task.main \in {"list", "tick"} /\ task'.main \in {"tick", "claim", "ended"}
          /\ key' = key
      BY <2>4, Goes DEF SetupInv, List, Tick, Still, Main, loopvars
    <3> QED
      BY <1>1, <1>3, <3>1
         DEF ModesInv, SeenTrue, UseKept, SeenKept, KeyKept, Busy, Main
  <2> QED BY <2>1, <2>2, <2>3, <2>4
<1> QED BY <1>2, <1>5, <1>6 DEF ModesInv

\* Setup is started, shown, stopped or torn down: it was on, or is off now.
LEMMA SetupKeepsModes ==
  ASSUME SetupInv, ModesInv, SetupStarts \/ SetupStops("main") \/ Ended
  PROVE  ModesInv'
<1>1. /\ UNCHANGED <<server, local, sync, voice, scene, loopvars>>
      /\ manager' => manager
      /\ gui \/ previous' = FALSE \/ UNCHANGED <<previous, screen>>
  BY DEF SetupStarts, SetupStops, ShowSetup, AdvertiseSetup, RegisterControl, ActivateSetup,
         FailSetup, ClaimStop, HideSetup, CloseSetup, Ended, TickEnded, Still, On, modes,
         setup, screenvars
<1>2. task.main \in Starting \cup Stopping \cup {"ended"}
  BY DEF SetupStarts, SetupStops, ShowSetup, AdvertiseSetup, RegisterControl, ActivateSetup,
         FailSetup, ClaimStop, HideSetup, CloseSetup, Ended, TickEnded, Main, Starting,
         Stopping
<1>3. task'.main \in Starting \cup Stopping \cup {"tick", "look"}
  <2>1. CASE SetupStarts
    <3>1. PICK pc \in {"advertise", "register", "activate", "tick"} : Goto("main", pc)
      BY <2>1 DEF SetupStarts, ShowSetup, AdvertiseSetup, RegisterControl, ActivateSetup,
                  FailSetup
    <3> QED BY <3>1, Goes DEF SetupInv, Starting
  <2>2. CASE SetupStops("main")
    <3>1. PICK pc \in {"hide", "close", "tick"} : Goto("main", pc)
      BY <2>2 DEF SetupStops, ClaimStop, HideSetup, CloseSetup, Returned
    <3> QED BY <3>1, Goes DEF SetupInv, Stopping
  <2>3. CASE Ended
    BY <2>3, Goes DEF SetupInv, Ended, TickEnded
  <2> QED BY <2>1, <2>2, <2>3
<1>4. LeaseTrue' /\ OneMode' /\ (ShutOut => ShutOut')
  BY <1>1 DEF ModesInv, LeaseTrue, OneMode, Busy, ShutOut, server
<1>5. SeenTrue' /\ SeenKept' /\ UseKept'
  BY <1>1, <1>3, <1>4
     DEF ModesInv, SeenTrue, SeenKept, UseKept, Busy, Main, Starting, Stopping
<1>6. key = "none" /\ KeyKept'
  BY <1>1, <1>2 DEF ModesInv, KeyKept, loopvars, Starting, Stopping
<1>7. CatalogKept'
  BY <1>1, <1>4 DEF ModesInv, CatalogKept, gui
<1> QED BY <1>4, <1>5, <1>6, <1>7 DEF ModesInv

\* What leaves the modes, the loop and the server as they are, or ends a mode.
LEMMA OthersKeepModes ==
  ASSUME SetupInv, ModesInv, task'.main = task.main,
         UNCHANGED <<server, scene, loopvars, manager>>, gui \/ UNCHANGED screenvars,
         local' \in {local, "off"}, sync' \in {sync, "off"}, voice' \in {voice, "off"}
  PROVE  ModesInv'
<1>1. LeaseTrue' /\ OneMode' /\ (ShutOut => ShutOut')
  BY DEF ModesInv, LeaseTrue, OneMode, Busy, ShutOut, server
<1>2. SeenTrue' /\ SeenKept' /\ UseKept' /\ KeyKept'
  BY <1>1 DEF ModesInv, SeenTrue, SeenKept, UseKept, KeyKept, Busy, Main, loopvars, server
<1>3. CatalogKept'
  BY <1>1 DEF ModesInv, CatalogKept, gui, screenvars
<1> QED BY <1>1, <1>2, <1>3 DEF ModesInv

LEMMA RestartKeepsModes == ASSUME Restart PROVE ModesInv'
<1>1. /\ task'.main = "tick" /\ ~manager' /\ ~available' /\ ~leased'
      /\ lan' = [pc |-> "idle", kind |-> "list"]
      /\ local' = "off" /\ sync' = "off" /\ voice' = "off"
      /\ screen' = "home" /\ key' = "none"
  BY DEF Restart, RebootSetup, RebootServer, NoRequest
<1>2. LeaseTrue'
  BY <1>1 DEF LeaseTrue
<1> QED
  BY <1>1, <1>2
     DEF ModesInv, SeenTrue, OneMode, UseKept, SeenKept, CatalogKept, KeyKept, Busy, Main

LEMMA NextKeepsModes == ASSUME SetupInv, ModesInv, [Next]_device PROVE ModesInv'
<1>1. CASE MainTask
  BY <1>1, DispatchKeepsModes, LookKeepsModes, WaitKeepsModes, SetupKeepsModes DEF MainTask
<1>2. CASE BleTask
  <2>1. task'.main = task.main
    <3>1. \E pc : Goto("ble", pc)
      BY <1>2 DEF BleTask, SetupStops, ClaimStop, HideSetup, CloseSetup
    <3> QED BY <3>1, Goes DEF SetupInv
  <2>2. UNCHANGED <<server, scene, loopvars, manager, modes>>
    BY <1>2 DEF BleTask, SetupStops, ClaimStop, HideSetup, CloseSetup, Still, setup
  <2>3. UNCHANGED screenvars \/ gui
    BY <1>2 DEF BleTask, SetupStops, Still, On
  <2> QED BY <2>1, <2>2, <2>3, OthersKeepModes DEF modes
<1>3. CASE Requests \/ Timers
  <2>1. UNCHANGED <<server, scene, screenvars, loopvars, manager, modes>>
    BY <1>3 DEF Requests, Timers, FinishRequest, AuthRequest, RadioCloses, SetupExpires,
                Still, setup
  <2>2. task'.main = task.main
    BY <1>3, Goes
       DEF SetupInv, Requests, Timers, FinishRequest, AuthRequest, RadioCloses, SetupExpires
  <2> QED BY <2>1, <2>2, OthersKeepModes DEF modes
<1>4. CASE Work(Grant \/ CodeExpires \/ SpawnGrant \/ Unlink \/ Access) \/ ModeAsksToken
           \/ Network \/ UNCHANGED device
  <2>1. UNCHANGED <<server, scene, screenvars, loopvars, setup, task, modes>>
    BY <1>4 DEF Work, ModeAsksToken, Network, Still, device
  <2> QED BY <2>1, OthersKeepModes DEF modes, setup
<1>5. CASE ModeEnds
  BY <1>5, OthersKeepModes DEF ModeEnds, LocalEnds, SyncEnds, VoiceEnds, setup
<1> QED
  BY <1>1, <1>2, <1>3, <1>4, <1>5, ServerKeepsModes, RestartKeepsModes DEF Next

LEMMA ModesHold == Spec => []ModesInv
<1>1. Init => ModesInv
  BY ModesInvInit
<1>2. SetupInv /\ ModesInv /\ [Next]_device => ModesInv'
  BY NextKeepsModes
<1> QED BY <1>1, <1>2, SetupHolds, PTL DEF Spec

LEMMA ModesInvSafe == ModesInv => ModesExclusive /\ CardExclusive
BY OneModeSafe, CardSafe DEF ModesInv

\* No two modes are ever on together (the loops of main.c and gui_app.c,
\* ModesExclusive of DeviceModes).
THEOREM ModesSafe == Spec => []ModesExclusive
BY ModesHold, ModesInvSafe, PTL

\* No request of the LAN server reads the card while a mode or the main task uses it,
\* a request that outlived the pause included (lan_server_pause, CardExclusive).
THEOREM CardKept == Spec => []CardExclusive
BY ModesHold, ModesInvSafe, PTL

\* What Back leaves behind: every mode that is still on was told to stop.
Heard ==
  /\ local # "on" /\ sync # "on" /\ voice # "on"
  /\ active => stop_requested \/ task.main = "claim"

LEMMA DispatchHearsBack ==
  ASSUME SetupInv, ModesInv, Dispatch, key = "back"
  PROVE  Heard'
<1>1. task.main = "dispatch" /\ Main("dispatch")
  BY DEF Dispatch, Main
<1>2. manager \/ ~active
  BY DEF SetupInv, SetupConfined
<1>3. CASE VoiceKey
  <2>1. seen.voice /\ voice' # "on" /\ UNCHANGED <<local, sync, active>>
    BY <1>3 DEF VoiceKey, Asks, setup
  <2> QED BY <1>1, <1>2, <2>1 DEF ModesInv, SeenTrue, Busy, Heard
<1>4. CASE SyncKey
  <2>1. seen.sync /\ sync' # "on" /\ UNCHANGED <<local, voice, active>>
    BY <1>4 DEF SyncKey, Asks, setup
  <2> QED BY <1>1, <1>2, <2>1 DEF ModesInv, SeenTrue, Busy, Heard
<1>5. CASE LocalKey
  <2>1. local' # "on" /\ UNCHANGED <<sync, voice, active>> /\ ~active
        /\ ~seen.sync /\ ~seen.voice
    BY <1>5 DEF LocalKey, Asks, setup
  <2> QED BY <1>1, <2>1 DEF ModesInv, SeenTrue, Heard
<1>6. CASE SetupKey
  <2>1. UNCHANGED <<local, sync, voice, active, stop_requested>> /\ active
    BY <1>6 DEF SetupKey, setup, modes
  <2>2. ~Busy(local) /\ ~Busy(sync) /\ ~Busy(voice)
    BY <1>2, <2>1 DEF ModesInv, OneMode
  <2>3. stop_requested' \/ task'.main = "claim"
    BY <1>6, <2>1, Goes DEF SetupInv, SetupKey, Done, Stoppable
  <2> QED BY <2>1, <2>2, <2>3 DEF Busy, Heard
<1>7. CASE NoKey \/ HomeKey \/ MoveKey \/ PlayKey \/ CatalogKey \/ RecordKey
           \/ SyncStartKey \/ VoiceStartKey \/ SetupStartKey \/ LeaveKey
  <2>1. HomeKey
    BY <1>7 DEF NoKey, MoveKey, PlayKey, CatalogKey, RecordKey, SyncStartKey,
                VoiceStartKey, SetupStartKey, LeaveKey, Starts, Enters
  <2>2. Idle /\ UNCHANGED <<local, sync, voice, active>>
    BY <2>1 DEF HomeKey, setup, modes
  <2>3. ~active /\ ~Busy(local) /\ ~Busy(sync) /\ ~Busy(voice)
    BY <1>1, <2>2, IdleOff DEF Idle
  <2> QED BY <2>2, <2>3 DEF Busy, Heard
<1> QED BY <1>3, <1>4, <1>5, <1>6, <1>7 DEF Dispatch

LEMMA BackIsHeard ==
  ASSUME SetupInv, ModesInv, [Next]_device, key = "back", key' = "none"
  PROVE  Heard'
<1>1. task.main \in {"pause", "dispatch"}
  BY DEF ModesInv, KeyKept
<1>2. CASE Dispatch
  BY <1>2, DispatchHearsBack
<1>3. CASE PauseTimeout
  <2>1. UNCHANGED <<local, sync, voice, active>> /\ lan.pc \in {"read", "send"}
    BY <1>3 DEF PauseTimeout, Blocked, setup, modes
  <2>2. ~Busy(local) /\ ~Busy(sync) /\ ~Busy(voice) /\ ~manager
    BY <2>1 DEF ModesInv, UseKept, ShutOut
  <2> QED BY <2>1, <2>2 DEF SetupInv, SetupConfined, Busy, Heard
<1>4. CASE Restart
  BY <1>4 DEF Restart, RebootSetup, Heard
<1>5. CASE MainTask /\ ~Dispatch /\ ~PauseTimeout
  <2>1. CASE Look \/ Key \/ Tick \/ List \/ Ended
    BY <1>1, <2>1 DEF Look, Key, Tick, List, Ended, TickEnded, Main
  <2>2. CASE Paused
    BY <2>2 DEF Paused, loopvars
  <2>3. CASE SetupStarts \/ SetupStops("main")
    BY <2>3 DEF SetupStarts, SetupStops, Still, loopvars
  <2> QED BY <1>5, <2>1, <2>2, <2>3 DEF MainTask
<1>6. CASE BleTask \/ Requests \/ Timers
  BY <1>6 DEF BleTask, SetupStops, Requests, Timers, Still, loopvars
<1>7. CASE Work(Grant \/ CodeExpires \/ SpawnGrant \/ Unlink \/ Access) \/ ModeAsksToken
           \/ ModeEnds \/ Network \/ LanRequest \/ Lan \/ UNCHANGED device
  BY <1>7 DEF Work, ModeAsksToken, ModeEnds, Network, LanRequest, Lan, Still, device,
              loopvars
<1> QED BY <1>2, <1>3, <1>4, <1>5, <1>6, <1>7 DEF Next

\* In every scene a Back that has been dealt with was heard by whatever was on:
\* no stale status and no client of the server can lose it (the keys of main.c
\* and key_route, BackHeard of DeviceModes).
THEOREM BackSafe == Spec => BackHeard
<1>1. SetupInv /\ ModesInv /\ [Next]_device =>
        [key = "back" /\ key' = "none" =>
           /\ local' # "on" /\ sync' # "on" /\ voice' # "on"
           /\ active' => stop_requested' \/ task'.main = "claim"]_device
  BY BackIsHeard DEF Heard
<1> QED BY <1>1, SetupHolds, ModesHold, PTL DEF Spec, BackHeard

-------------------------------------------------------------------------------
(***************************************************************************)
(* The accounts.  Every step of the device is a step of Identity or leaves *)
(* the accounts alone, so what is proved of Identity holds of the device.  *)
(***************************************************************************)
LEMMA DispatchKeepsIdentity == ASSUME Dispatch PROVE UNCHANGED identity
<1>1. CASE VoiceKey \/ SyncKey \/ SetupKey \/ LocalKey \/ HomeKey \/ CatalogKey
           \/ RecordKey \/ SyncStartKey \/ VoiceStartKey \/ LeaveKey
  BY <1>1 DEF VoiceKey, SyncKey, SetupKey, LocalKey, HomeKey, CatalogKey, RecordKey,
              SyncStartKey, VoiceStartKey, LeaveKey, Done
<1>2. CASE NoKey \/ MoveKey \/ PlayKey
  BY <1>2 DEF NoKey, MoveKey, PlayKey, Rest, Done
<1>3. CASE SetupStartKey
  BY <1>3 DEF SetupStartKey, StartSetup
<1> QED BY <1>1, <1>2, <1>3 DEF Dispatch

LEMMA SetupStopsIdentity ==
  ASSUME NEW t \in {"main", "ble"}, SetupStops(t) PROVE [IdentityNext]_identity
<1>1. CASE CloseSetup(t)
  <2>1. CancelGrant(Resources) /\ UNCHANGED control
    BY <1>1 DEF CloseSetup
  <2> QED BY <2>1 DEF IdentityNext
<1>2. CASE ClaimStop(t) \/ HideSetup(t)
  BY <1>2 DEF ClaimStop, HideSetup
<1> QED BY <1>1, <1>2 DEF SetupStops

LEMMA MainIdentity == ASSUME MainTask PROVE [IdentityNext]_identity
<1>1. CASE Tick \/ Ended \/ Look \/ Key \/ Paused \/ PauseTimeout \/ List
  BY <1>1 DEF Tick, Ended, TickEnded, Look, Key, Paused, PauseTimeout, List
<1>2. CASE SetupStarts
  BY <1>2 DEF SetupStarts, ShowSetup, AdvertiseSetup, RegisterControl, ActivateSetup,
              FailSetup
<1> QED BY <1>1, <1>2, DispatchKeepsIdentity, SetupStopsIdentity DEF MainTask

LEMMA NextIdentity == ASSUME [Next]_device PROVE [IdentityNext]_identity
<1>1. CASE Requests
  <2>1. CASE FinishRequest
    BY <2>1 DEF FinishRequest
  <2>2. CASE AuthRequest
    <3>1. ASSUME NEW r \in Resources, CancelGrant({r}), UNCHANGED control
          PROVE  IdentityNext
      <4>1. {r} \in SUBSET Resources
        OBVIOUS
      <4> QED BY <3>1, <4>1 DEF IdentityNext
    <3> QED BY <2>2, <3>1 DEF AuthRequest, IdentityNext
  <2> QED BY <1>1, <2>1, <2>2 DEF Requests
<1>2. CASE Timers \/ ModeEnds \/ Network \/ LanRequest \/ Lan
  BY <1>2 DEF Timers, RadioCloses, SetupExpires, ModeEnds, Network, LanRequest, Lan
<1>3. CASE Work(Grant \/ CodeExpires \/ SpawnGrant \/ Unlink \/ Access)
  BY <1>3 DEF Work, IdentityNext
<1>4. CASE ModeAsksToken
  BY <1>4 DEF ModeAsksToken, IdentityNext
<1>5. CASE Restart
  BY <1>5 DEF Restart, RebootSetup, IdentityNext
<1>6. CASE UNCHANGED device
  BY <1>6 DEF device
<1> QED
  BY <1>1, <1>2, <1>3, <1>4, <1>5, <1>6, MainIdentity, SetupStopsIdentity
     DEF Next, BleTask

\* The device keeps its accounts the way Identity does, whatever its modes, its
\* setup and its restarts (identity.c under main.c, control.c and provisioning.c).
THEOREM AccountsAreIdentity == Spec => IdentitySpec
<1>1. Init => IdentityInit
  BY DEF Init, SetupInit
<1>2. [Next]_device => [IdentityNext]_identity
  BY NextIdentity
<1> QED BY <1>1, <1>2, PTL DEF Spec, IdentitySpec

\* The accounts of the device, in any mode: an unlink is final, and what setup
\* shows of an account is true (identity.c, UnlinkForgets and StatesHonest).
THEOREM AccountsSafe == Spec => [](UnlinkForgets /\ StatesHonest)
BY AccountsAreIdentity, IdentitySafe, PTL
================================================================================

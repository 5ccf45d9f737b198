------------------------------- MODULE Identity -------------------------------
(***************************************************************************)
(* The accounts of the recorder, components/identity/identity.c: the task  *)
(* that waits for a device-code sign-in to be approved, the modes that ask *)
(* for an access token, and the link that setup can sever, with the        *)
(* refresh tokens kept in flash (network/secure_store.c).                  *)
(*                                                                         *)
(* A token is the number of the link it belongs to: the links are counted  *)
(* by the unlinks between them.  0 is no token.                            *)
(***************************************************************************)
EXTENDS Naturals

CONSTANTS
  Resources,  \* auth_resource_t
  MaxLinks    \* bound on the links

NoOne == "none"

ASSUME IdentityAssumption ==
  Resources # {} /\ NoOne \notin Resources /\ MaxLinks \in Nat \ {0}

VARIABLES
  state,    \* public.state of each resource
  access,   \* the access token in memory
  refresh,  \* the refresh token in memory
  nvs,      \* the refresh token in flash
  running,  \* a sign-in of the resource is under way
  cancel,   \* it is asked to stop
  lock,     \* who holds the token lock
  grant,    \* grant_worker: where it is, for whom, for which link, its code expired
  control,  \* what the Bluetooth task is doing in this module, for whom
  reader,   \* identity_access: where it is, for whom
  link      \* history: the current link

tokens == <<access, refresh, nvs>>
identity == <<state, tokens, running, cancel, lock, grant, control, reader, link>>

Link == 1..MaxLinks
Token == Link \cup {0}
NoGrant == [pc |-> "none", on |-> NoOne, link |-> 0, late |-> FALSE]
Quiet == [pc |-> "idle", on |-> NoOne]

IdentityTypeOK ==
  /\ state \in [Resources -> {"idle", "pending", "authorized", "denied", "expired", "error"}]
  /\ access \in [Resources -> Token] /\ refresh \in [Resources -> Token]
  /\ nvs \in [Resources -> Token]
  /\ running \in [Resources -> BOOLEAN] /\ cancel \in [Resources -> BOOLEAN]
  /\ lock \in {"free", "grant", "reader"}
  /\ grant \in [pc : {"none", "begin", "ask", "wait", "lock", "poll", "end"},
                on : Resources \cup {NoOne}, link : Token, late : BOOLEAN]
  /\ control \in [pc : {"idle", "start", "unlink"}, on : Resources \cup {NoOne}]
  /\ reader \in [pc : {"idle", "lock", "ask"}, on : Resources \cup {NoOne}]
  /\ link \in Link

-------------------------------------------------------------------------------
SetState(r, s) == state' = [state EXCEPT ![r] = s]
GrantAt(pc) == grant' = [grant EXCEPT !.pc = pc]

\* save_tokens: the refresh token goes to flash first; a write that fails may
\* have reached it.
Save(r, t, withRefresh) ==
  /\ withRefresh \/ refresh[r] # 0
  /\ access' = [access EXCEPT ![r] = t]
  /\ refresh' = IF withRefresh THEN [refresh EXCEPT ![r] = t] ELSE refresh
  /\ nvs' = IF withRefresh THEN [nvs EXCEPT ![r] = t] ELSE nvs
  /\ SetState(r, "authorized")
Unsaved(r, t) == \E v \in {nvs[r], t} : nvs' = [nvs EXCEPT ![r] = v]

-------------------------------------------------------------------------------
(***************************************************************************)
(* The sign-in task.                                                       *)
(***************************************************************************)

GrantBegin ==
  /\ grant.pc = "begin"
  /\ IF cancel[grant.on]
     THEN /\ SetState(grant.on, "idle")
          /\ running' = [running EXCEPT ![grant.on] = FALSE]
          /\ grant' = NoGrant
     ELSE GrantAt("ask") /\ UNCHANGED <<state, running>>
  /\ UNCHANGED <<tokens, cancel, lock, control, reader, link>>

\* The device code arrives, or no usable answer does.
GrantCode ==
  /\ grant.pc = "ask"
  /\ \/ GrantAt("wait") /\ UNCHANGED state
     \/ GrantAt("end") /\ SetState(grant.on, "error")
  /\ UNCHANGED <<tokens, running, cancel, lock, control, reader, link>>

CodeExpires ==
  /\ grant.pc \in {"wait", "lock", "poll"} /\ ~grant.late
  /\ grant' = [grant EXCEPT !.late = TRUE]
  /\ UNCHANGED <<state, tokens, running, cancel, lock, control, reader, link>>

\* The interval between two polls, and the test of the deadline after it.
GrantDelay ==
  /\ grant.pc = "wait"
  /\ \/ cancel[grant.on] /\ GrantAt("end") /\ UNCHANGED state
     \/ ~cancel[grant.on] /\ grant.late /\ GrantAt("end") /\ SetState(grant.on, "expired")
     \/ ~cancel[grant.on] /\ ~grant.late /\ GrantAt("lock") /\ UNCHANGED state
  /\ UNCHANGED <<tokens, running, cancel, lock, control, reader, link>>

GrantLock ==
  /\ grant.pc = "lock" /\ lock = "free"
  /\ lock' = "grant" /\ GrantAt("poll")
  /\ UNCHANGED <<state, tokens, running, cancel, control, reader, link>>

\* Mutant: a grant that was cancelled while it asked is saved.
GrantTokensAnyway(r) ==
  /\ GrantAt("end")
  /\ \/ \E with \in BOOLEAN : Save(r, grant.link, with)
     \/ /\ Unsaved(r, grant.link) /\ SetState(r, "error")
        /\ UNCHANGED <<access, refresh>>

\* Tokens arrive; saving them may fail.
GrantTokens(r) ==
  /\ GrantAt("end")
  /\ \/ cancel[r] /\ UNCHANGED <<state, tokens>>
     \/ ~cancel[r] /\ \E with \in BOOLEAN : Save(r, grant.link, with)
     \/ /\ ~cancel[r] /\ Unsaved(r, grant.link) /\ SetState(r, "error")
        /\ UNCHANGED <<access, refresh>>

GrantRefused(r) ==
  /\ GrantAt("end") /\ UNCHANGED tokens
  /\ \E s \in {"denied", "expired", "error"} : SetState(r, s)

\* authorization_pending, slow_down.
GrantAgain == GrantAt("wait") /\ UNCHANGED <<state, tokens>>

GrantAnswer ==
  /\ grant.pc = "poll"
  /\ lock' = "free"
  /\ GrantTokens(grant.on) \/ GrantRefused(grant.on) \/ GrantAgain
  /\ UNCHANGED <<running, cancel, control, reader, link>>

\* Mutant: a cancelled sign-in leaves its state behind.
GrantEndSilent ==
  /\ grant.pc = "end"
  /\ running' = [running EXCEPT ![grant.on] = FALSE]
  /\ grant' = NoGrant
  /\ UNCHANGED <<state, tokens, cancel, lock, control, reader, link>>

GrantEnd ==
  /\ grant.pc = "end"
  /\ IF cancel[grant.on] THEN SetState(grant.on, "idle") ELSE UNCHANGED state
  /\ running' = [running EXCEPT ![grant.on] = FALSE]
  /\ grant' = NoGrant
  /\ UNCHANGED <<tokens, cancel, lock, control, reader, link>>

Grant == \/ GrantBegin \/ GrantCode \/ GrantDelay \/ GrantLock \/ GrantAnswer \/ GrantEnd

-------------------------------------------------------------------------------
(***************************************************************************)
(* What the Bluetooth task asks, one request at a time.                    *)
(***************************************************************************)

\* identity_start, up to the end of its critical section.
StartGrant(r) ==
  /\ control.pc = "idle"
  /\ state[r] \notin {"pending", "authorized"}
  /\ \A q \in Resources : ~running[q]
  /\ running' = [running EXCEPT ![r] = TRUE]
  /\ SetState(r, "pending")
  /\ control' = [pc |-> "start", on |-> r]
  /\ UNCHANGED <<tokens, cancel, lock, grant, reader, link>>

\* The rest of it: a cancellation that came in between is forgotten.
SpawnGrant ==
  /\ control.pc = "start"
  /\ cancel' = [cancel EXCEPT ![control.on] = FALSE]
  /\ \/ /\ grant' = [pc |-> "begin", on |-> control.on, link |-> link, late |-> FALSE]
        /\ UNCHANGED <<state, running>>
     \/ /\ running' = [running EXCEPT ![control.on] = FALSE]
        /\ SetState(control.on, "error")
        /\ UNCHANGED grant
  /\ control' = Quiet
  /\ UNCHANGED <<tokens, lock, reader, link>>

CancelGrant(R) ==
  /\ cancel' = [r \in Resources |-> cancel[r] \/ r \in R]
  /\ UNCHANGED <<state, tokens, running, lock, grant, reader, link>>

\* identity_unlink: cancel both sign-ins, then wait for the lock.
BeginUnlink ==
  /\ control.pc = "idle" /\ link < MaxLinks
  /\ CancelGrant(Resources)
  /\ control' = [Quiet EXCEPT !.pc = "unlink"]

\* The flash is erased, perhaps in part: only then is the memory.
Unlink ==
  /\ control.pc = "unlink" /\ lock = "free"
  /\ \/ /\ nvs' = [r \in Resources |-> 0] /\ access' = nvs' /\ refresh' = nvs'
        /\ state' = [r \in Resources |-> "idle"]
        /\ link' = link + 1
     \/ /\ \E E \in SUBSET Resources :
             nvs' = [r \in Resources |-> IF r \in E THEN 0 ELSE nvs[r]]
        /\ UNCHANGED <<state, access, refresh, link>>
  /\ control' = Quiet
  /\ UNCHANGED <<running, cancel, lock, grant, reader>>

-------------------------------------------------------------------------------
(***************************************************************************)
(* identity_access, called by the task of a mode.                          *)
(***************************************************************************)

AccessBegin(r) ==
  /\ reader.pc = "idle"
  /\ reader' = [pc |-> "lock", on |-> r]
  /\ UNCHANGED <<state, tokens, running, cancel, lock, grant, control, link>>

\* The token in memory is given out while it is valid, unless a new one is asked for.
AccessGiven ==
  /\ reader.pc = "lock"
  /\ \/ lock = "free" /\ (access[reader.on] # 0 \/ refresh[reader.on] = 0)
     \/ lock # "free"  \* after 12 s
  /\ reader' = Quiet
  /\ UNCHANGED <<state, tokens, running, cancel, lock, grant, control, link>>

AccessRefresh ==
  /\ reader.pc = "lock" /\ lock = "free" /\ refresh[reader.on] # 0
  /\ lock' = "reader"
  /\ reader' = [reader EXCEPT !.pc = "ask"]
  /\ UNCHANGED <<state, tokens, running, cancel, grant, control, link>>

\* invalid_grant: the error of the write to flash is not looked at.
Revoked(r) ==
  /\ refresh' = [refresh EXCEPT ![r] = 0] /\ access' = [access EXCEPT ![r] = 0]
  /\ Unsaved(r, 0) /\ SetState(r, "expired")

AccessAnswer ==
  /\ reader.pc = "ask"
  /\ LET r == reader.on IN
     \/ \E with \in BOOLEAN : Save(r, refresh[r], with)
     \/ Unsaved(r, refresh[r]) /\ UNCHANGED <<state, access, refresh>>
     \/ Revoked(r)
     \/ UNCHANGED <<state, tokens>>
  /\ lock' = "free" /\ reader' = Quiet
  /\ UNCHANGED <<running, cancel, grant, control, link>>

Access == AccessGiven \/ AccessRefresh \/ AccessAnswer

-------------------------------------------------------------------------------
IdentityInit ==
  /\ state = [r \in Resources |-> "idle"]
  /\ nvs \in [Resources -> {0, 1}]
  /\ refresh = nvs /\ access = [r \in Resources |-> 0]
  /\ running = [r \in Resources |-> FALSE] /\ cancel = running
  /\ lock = "free" /\ grant = NoGrant /\ control = Quiet /\ reader = Quiet
  /\ link = 1

\* A restart: what flash holds is read back, the states are not.
RebootIdentity ==
  /\ state' = [r \in Resources |-> "idle"]
  /\ refresh' = nvs /\ access' = [r \in Resources |-> 0]
  /\ running' = [r \in Resources |-> FALSE] /\ cancel' = running'
  /\ lock' = "free" /\ grant' = NoGrant /\ control' = Quiet /\ reader' = Quiet
  /\ UNCHANGED <<nvs, link>>

\* Setup may cancel the sign-ins at any time.
IdentityNext ==
  \/ Grant \/ CodeExpires
  \/ \E r \in Resources : StartGrant(r) \/ AccessBegin(r)
  \/ SpawnGrant
  \/ \E R \in SUBSET Resources : CancelGrant(R) /\ UNCHANGED control
  \/ BeginUnlink \/ Unlink
  \/ Access
  \/ RebootIdentity

IdentitySpec == IdentityInit /\ [][IdentityNext]_identity

-------------------------------------------------------------------------------
\* Once an unlink has been acknowledged nothing of the severed link is left, in
\* memory or in flash, and nothing brings it back: not the answer to a poll or
\* a refresh that was under way, and not a restart (identity_unlink).
UnlinkForgets ==
  \A r \in Resources : {access[r], refresh[r], nvs[r]} \subseteq {0, link}

\* An account that is shown as signed in has both its tokens, through failed
\* writes, revoked tokens and unlinks (set_state against the token fields).
AuthorizedUsable ==
  \A r \in Resources : state[r] = "authorized" => access[r] # 0 /\ refresh[r] # 0

\* A sign-in that is shown as pending has a task that will decide it: however it
\* is cancelled, refused, overtaken by an unlink or left without memory, the
\* state is settled before the task is gone (grant_worker, identity_start).
PendingDecided ==
  \A r \in Resources : state[r] = "pending" => running[r]

\* What setup shows of an account is true of it (auth.status of control.c).
StatesHonest == AuthorizedUsable /\ PendingDecided
===============================================================================

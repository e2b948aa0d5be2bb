------------------------------ MODULE Session ------------------------------
(***************************************************************************)
(* The life of the Telegram session: setup, chat lock, factory reset and   *)
(* manual revocation of guardian_engine.Collector, on the records of the   *)
(* encrypted vault and the marker files beside it, with the check that     *)
(* Guardian._check_runtime_state makes at every unlock.                    *)
(*                                                                         *)
(* Every record of the vault and every marker is a durable write of its    *)
(* own: a handler is the list of writes it still has to do, and a crash    *)
(* may fall between any two of them.  A vault write that fails closes the  *)
(* vault and ends the process, so it is a crash too.  The admin lock keeps *)
(* handlers from overlapping (module Guardian).                            *)
(***************************************************************************)
EXTENDS Naturals, Sequences, FiniteSets

VARIABLES
  records,   \* the names of the records in the vault
  phase,     \* the phase field of the settings record
  markers,   \* files beside the vault: outstanding, warning, checkpoint
  lease,     \* _setup_deadline_mono is set and not reached
  opened,    \* Guardian.engine is not None
  handler,   \* the running handler and the writes it still has to do
  remote,    \* does Telegram hold an authorised device for us?
  doomed     \* observability: a reset was asked for while it did

sessionVars == <<records, phase, markers, lease, opened, handler, remote, doomed>>

-----------------------------------------------------------------------------
Records ==
  {"settings", "known_hosts", "credentials", "telegram_session", "setup_state",
   "dialog_candidates", "chat_locked", "upload_key", "upload_public_key",
   "openrouter_key", "openrouter_public_key", "vpn_active_node", "vpn_node_origin"}

(* VaultPaths.reset_files: the records in this order, then the checkpoints. *)
ResetFiles ==
  <<"settings", "known_hosts", "credentials", "telegram_session", "setup_state",
    "dialog_candidates", "chat_locked", "upload_key", "upload_public_key",
    "openrouter_key", "openrouter_public_key", "vpn_active_node", "vpn_node_origin">>

SetupPhases == {"configured", "code_sent", "password_required", "authenticated",
                "resolving_links", "dialogs_listed"}
LockedPhases == {"chat_locked", "resolving_extension"}
Handlers ==
  {"none", "configure", "send_code", "submit_code", "submit_password",
   "resolve_chat_links", "select_chats", "extend_chats", "activate_monitoring",
   "openrouter_key", "revoke_and_reset", "acknowledge"}
Writes == [do : {"put", "del"}, what : Records]
          \cup [do : {"phase"}, what : SetupPhases \cup LockedPhases]
          \cup [do : {"mark", "clear"}, what : {"outstanding", "warning", "checkpoint"}]
          \cup [do : {"ask"}, what : {"consent", "telegram", "answer"}]
Quiet == [op |-> "none", todo |-> <<>>]

Put(r) == [do |-> "put", what |-> r]
Del(r) == [do |-> "del", what |-> r]
Phase(p) == [do |-> "phase", what |-> p]
Mark(m) == [do |-> "mark", what |-> m]
Clear(m) == [do |-> "clear", what |-> m]
Ask(a) == [do |-> "ask", what |-> a]

Has(r) == r \in records
Locked == phase \in LockedPhases

-----------------------------------------------------------------------------
(* What an unlock, and console repair-manifest, demand of the records.     *)

SettingsLoad == Locked <=> Has("chat_locked")
Paired(secret, public) == Has(secret) <=> Has(public)

RuntimeStateAccepted ==
  IF Has("settings")
  THEN /\ SettingsLoad
       /\ {"credentials", "vpn_active_node", "known_hosts"} \subseteq records
       /\ Locked => {"telegram_session", "upload_key"} \subseteq records
       /\ Paired("upload_key", "upload_public_key")
       /\ Paired("openrouter_key", "openrouter_public_key")
       /\ markers.checkpoint => Locked
  ELSE records = {} /\ ~markers.checkpoint

-----------------------------------------------------------------------------
(* The handlers: what each has to do after its own checks.                 *)

Configured ==
  << Ask("answer"), Put("vpn_active_node"), Put("vpn_node_origin"),
     Put("credentials"), Put("known_hosts"), Phase("configured") >>
CodeSent ==
  << Mark("outstanding"), Ask("telegram"), Put("telegram_session"), Ask("consent"),
     Put("setup_state"), Phase("code_sent") >>
CodeAccepted ==
  << Ask("telegram"), Put("telegram_session"), Ask("consent"), Phase("authenticated"),
     Del("setup_state") >>
PasswordNeeded ==
  << Ask("telegram"), Put("telegram_session"), Ask("consent"), Phase("password_required") >>
LinksResolved ==
  << Phase("resolving_links"), Ask("telegram"), Ask("consent"), Put("dialog_candidates"),
     Phase("dialogs_listed") >>
ChatsSelected ==
  << Put("upload_key"), Put("upload_public_key"), Ask("consent"), Put("chat_locked"),
     Phase("chat_locked"), Del("dialog_candidates"), Del("setup_state") >>
ChatExtended ==
  << Phase("resolving_extension"), Ask("telegram"), Phase("chat_locked") >>
ChannelKey ==
  << Del("openrouter_public_key"), Put("openrouter_key"), Put("openrouter_public_key") >>

(* A record that is absent is tried and skipped.                           *)
Wiped == [i \in 1..Len(ResetFiles) |-> Del(ResetFiles[i])] \o <<Clear("checkpoint")>>
RevocationCleared == <<Clear("outstanding"), Clear("warning")>>
Ended(confirmed) == Wiped \o (IF confirmed THEN RevocationCleared ELSE <<Mark("warning")>>)

(* Faulty variant: the marker of a sign-in that never stored its session   *)
(* is overlooked.                                                          *)
PossibleSessionByRecord == Has("telegram_session")
PossibleSession == markers.outstanding \/ Has("telegram_session")

-----------------------------------------------------------------------------
Start(op, todo) ==
  /\ opened /\ handler = Quiet
  /\ handler' = [op |-> op, todo |-> todo]
  /\ UNCHANGED <<records, phase, lease, opened, remote>>

Serve(op, todo) ==
  /\ ~markers.warning
  /\ Start(op, todo)
  /\ UNCHANGED <<markers, doomed>>

SetupStep(op, from, todo) ==
  /\ Has("settings") /\ ~Has("chat_locked") /\ phase \in from /\ lease
  /\ Serve(op, todo)

Configure ==
  /\ ~markers.outstanding
  /\ records \cap {"chat_locked", "settings", "credentials", "vpn_active_node"} = {}
  /\ Serve("configure", Configured)
SendCode == SetupStep("send_code", {"configured"}, CodeSent)
SubmitCode ==
  \/ SetupStep("submit_code", {"code_sent"}, CodeAccepted)
  \/ SetupStep("submit_code", {"code_sent"}, PasswordNeeded)
SubmitPassword == SetupStep("submit_password", {"password_required"}, CodeAccepted)
ResolveChatLinks ==
  /\ ~Has("dialog_candidates")
  /\ SetupStep("resolve_chat_links", {"authenticated"}, LinksResolved)
SelectChats == SetupStep("select_chats", {"dialogs_listed"}, ChatsSelected)

ActivateMonitoring ==
  /\ Has("settings") /\ phase = "chat_locked" /\ ~markers.checkpoint
  /\ Serve("activate_monitoring", <<Mark("checkpoint")>>)

(* Only after activation: the receiver announces chats to an active stream. *)
ExtendChats ==
  /\ Has("settings") /\ Has("chat_locked") /\ Locked /\ markers.checkpoint
  /\ Serve("extend_chats", ChatExtended)

(* The first digest of an installation that has no channel key yet.  The   *)
(* two records are written with no await between them.                     *)
EnsureOpenRouterKey ==
  /\ Has("settings") /\ Locked /\ markers.checkpoint /\ ~Has("openrouter_key")
  /\ Serve("openrouter_key", ChannelKey)

(* Guardian._execute writes the warning before anything is cancelled, and  *)
(* revoke_and_reset reads whether a session may live before it is wiped.   *)
LogoutPossible == Has("credentials") /\ Has("telegram_session")
RevokeAndReset ==
  /\ Start("revoke_and_reset",
           IF LogoutPossible THEN <<Ask("answer")>> ELSE Ended(~PossibleSession))
  /\ markers' = [markers EXCEPT !.warning = TRUE]
  /\ doomed' = (remote = "live")

(* The UI takes the owner's word that the device is terminated: the model  *)
(* assumes that the word is true.                                          *)
Acknowledge ==
  /\ markers.warning /\ remote = "none"
  /\ Start("acknowledge", Wiped \o RevocationCleared)
  /\ UNCHANGED <<markers, doomed>>

-----------------------------------------------------------------------------
Pending(kind) == handler.todo # <<>> /\ Head(handler.todo).do \in kind
Goal == Head(handler.todo).what
Rest == [handler EXCEPT !.todo = Tail(@)]

WriteRecord ==
  /\ Pending({"put", "del"})
  /\ records' = IF Head(handler.todo).do = "put" THEN records \cup {Goal} ELSE records \ {Goal}
  /\ handler' = Rest
  /\ phase' = IF Goal = "settings" THEN "none" ELSE phase
  /\ UNCHANGED <<markers, lease, opened, remote, doomed>>

(* The settings record carries the phase.  The lease starts at the end of  *)
(* configure and is given up when the chats are locked.                    *)
WriteSettings ==
  /\ Pending({"phase"})
  /\ records' = records \cup {"settings"} /\ phase' = Goal
  /\ handler' = Rest
  /\ lease' = ((lease \/ handler.op = "configure") /\ Goal # "chat_locked")
  /\ UNCHANGED <<markers, opened, remote, doomed>>

WriteMarker ==
  /\ Pending({"mark", "clear"})
  /\ markers' = [markers EXCEPT ![Goal] = Head(handler.todo).do = "mark"]
  /\ handler' = Rest
  /\ UNCHANGED <<records, phase, lease, opened, remote, doomed>>

(* _require_setup_consent in the middle of a handler.  select_chats alone  *)
(* takes back what it has written.                                         *)
Consents ==
  /\ Pending({"ask"}) /\ Goal = "consent"
  /\ \/ lease /\ handler' = Rest
     \/ /\ ~lease
        /\ handler' = IF handler.op = "select_chats"
                      THEN [handler EXCEPT !.todo = <<Del("upload_key"), Del("upload_public_key")>>]
                      ELSE Quiet
  /\ UNCHANGED <<records, phase, markers, lease, opened, remote, doomed>>

(* A request to Telegram.  Accepting the code or the password authorises   *)
(* the device, and the answer to that may be lost: then the handler fails. *)
Authorises ==
  /\ handler.op \in {"submit_code", "submit_password"}
  /\ \E i \in 1..Len(handler.todo) : handler.todo[i] = Phase("authenticated")

TelegramAnswers ==
  /\ Pending({"ask"}) /\ Goal = "telegram"
  /\ remote' = IF Authorises THEN "live" ELSE remote
  /\ handler' = Rest
  /\ UNCHANGED <<records, phase, markers, lease, opened, doomed>>

TelegramFails ==
  /\ Pending({"ask"}) /\ Goal = "telegram"
  /\ remote' \in {remote} \cup IF Authorises THEN {"live"} ELSE {}
  /\ handler' = IF handler.op = "extend_chats"
                THEN [handler EXCEPT !.todo = <<Phase("chat_locked")>>] ELSE Quiet
  /\ UNCHANGED <<records, phase, markers, lease, opened, doomed>>

(* configure's subscription fetch and VPN start: both end it when they     *)
(* fail, with nothing written yet.                                         *)
FetchesSubscription ==
  /\ Pending({"ask"}) /\ Goal = "answer" /\ handler.op = "configure"
  /\ handler' \in {Rest, Quiet}
  /\ UNCHANGED <<records, phase, markers, lease, opened, remote, doomed>>

(* The logout of a reset: confirmed only by Telegram's own answer, which   *)
(* may be lost after Telegram has acted on it.                             *)
LogsOut ==
  /\ Pending({"ask"}) /\ Goal = "answer" /\ handler.op = "revoke_and_reset"
  /\ \E confirmed \in BOOLEAN :
       /\ remote' \in IF confirmed THEN {"none"} ELSE {remote, "none"}
       /\ handler' = [handler EXCEPT !.todo = Ended(confirmed)]
  /\ doomed' = (doomed /\ remote' = "live")
  /\ UNCHANGED <<records, phase, markers, lease, opened>>

Finish ==
  /\ handler.op # "none" /\ handler.todo = <<>>
  /\ handler' = Quiet
  /\ lease' = (lease /\ handler.op \notin {"revoke_and_reset", "acknowledge"})
  /\ UNCHANGED <<records, phase, markers, opened, remote, doomed>>

LeaseEnds ==
  /\ lease /\ lease' = FALSE
  /\ UNCHANGED <<records, phase, markers, opened, handler, remote, doomed>>

-----------------------------------------------------------------------------
(* The process and the disk.                                               *)

Crash ==
  /\ opened
  /\ opened' = FALSE /\ lease' = FALSE /\ handler' = Quiet
  /\ UNCHANGED <<records, phase, markers, remote, doomed>>

(* finish of an unlock, and Collector.__init__.                            *)
Open ==
  /\ ~opened /\ RuntimeStateAccepted
  /\ opened' = TRUE
  /\ markers' = [markers EXCEPT !.warning =
                   @ \/ (markers.outstanding /\ ~Has("telegram_session"))]
  /\ UNCHANGED <<records, phase, lease, handler, remote, doomed>>

(* An Umbrel restore brings back the config directory but no vault.        *)
RestoreConfig ==
  /\ ~opened /\ records # {}
  /\ records' = {} /\ phase' = "none"
  /\ UNCHANGED <<markers, lease, opened, handler, remote, doomed>>

(* The owner ends the device in Telegram; the UI asks for that before it   *)
(* offers the acknowledgement.                                             *)
OwnerTerminates ==
  /\ remote = "live" /\ markers.warning
  /\ remote' = "none" /\ doomed' = FALSE
  /\ UNCHANGED <<records, phase, markers, lease, opened, handler>>

-----------------------------------------------------------------------------
SessionInit ==
  /\ records = {} /\ phase = "none"
  /\ markers = [outstanding |-> FALSE, warning |-> FALSE, checkpoint |-> FALSE]
  /\ lease = FALSE /\ opened = FALSE /\ handler = Quiet
  /\ remote = "none" /\ doomed = FALSE

SessionSetup ==
  \/ Configure \/ SendCode \/ SubmitCode \/ SubmitPassword \/ ResolveChatLinks \/ SelectChats
  \/ ActivateMonitoring \/ ExtendChats \/ EnsureOpenRouterKey
SessionEnd == RevokeAndReset \/ Acknowledge
HandlerStep ==
  \/ WriteRecord \/ WriteSettings \/ WriteMarker \/ Consents \/ TelegramAnswers
  \/ TelegramFails \/ FetchesSubscription \/ LogsOut \/ Finish
SessionNext ==
  SessionSetup \/ SessionEnd \/ HandlerStep \/ LeaseEnds \/ Crash \/ Open \/ RestoreConfig
  \/ OwnerTerminates

SessionFairness == WF_sessionVars(HandlerStep)
SessionSpec == SessionInit /\ [][SessionNext]_sessionVars /\ SessionFairness

-----------------------------------------------------------------------------
SessionTypeOK ==
  /\ records \subseteq Records
  /\ phase \in SetupPhases \cup LockedPhases \cup {"none"}
  /\ markers \in [outstanding : BOOLEAN, warning : BOOLEAN, checkpoint : BOOLEAN]
  /\ lease \in BOOLEAN /\ opened \in BOOLEAN
  /\ handler.op \in Handlers /\ \A i \in 1..Len(handler.todo) : handler.todo[i] \in Writes
  /\ remote \in {"none", "live"} /\ doomed \in BOOLEAN

(* A device that Telegram still holds for us is never forgotten: whatever  *)
(* crashes, restores, lost answers and half-done resets came before, a     *)
(* marker on disk says that it may be there.                               *)
SessionIsTracked == remote = "live" => markers.outstanding \/ markers.warning

(* A reset that found a live device blocks every later setup step and tick *)
(* until Telegram confirms the logout or the owner ends the device: the    *)
(* blocking warning survives whatever interrupts the reset.                *)
ResetIsRemembered == doomed => markers.warning

(* Both hold of the device together: nothing forgets it.                   *)
DeviceIsNotForgotten == SessionIsTracked /\ ResetIsRemembered

(* guardian_engine.py:1711 promises that an acknowledgement finishes a     *)
(* restored config or a failed reset as one fresh epoch.  It needs an      *)
(* unlock, and the unlock refuses records that a crash left half wiped.    *)
FailedResetCanBeFinished ==
  markers.warning /\ ~opened => RuntimeStateAccepted
=============================================================================

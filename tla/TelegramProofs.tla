--------------------------- MODULE TelegramProofs ---------------------------
(***************************************************************************)
(* Proofs about what the guardian needs to reach Telegram: the session     *)
(* (Session), and the way there (Route), for every set of providers and    *)
(* every bound.                                                            *)
(***************************************************************************)
EXTENDS Session, Route, SequenceTheorems, TLAPS

-----------------------------------------------------------------------------
(***************************************************************************)
(* Session.                                                                *)
(***************************************************************************)

Resets == {"revoke_and_reset", "acknowledge"}
Forgets == {Clear("outstanding"), Clear("warning")}

(* What a handler may still have to do: only a reset gives the markers up, *)
(* and only once Telegram holds no device; a reset sets no phase, and      *)
(* configure sets the first.                                               *)
Allowed(op, device) ==
  {w \in Writes : /\ w.do = "phase" => op \notin Resets
                  /\ w.do = "phase" /\ op = "configure" => w.what = "configured"
                  /\ w.do = "ask" /\ op \in Resets => w.what = "answer"
                  /\ w \in Forgets => op \in Resets /\ device = "none"}
WritesOf(op) == Allowed(op, remote)

(* The phases after send_code has marked a session as outstanding.         *)
Begun == (SetupPhases \cup LockedPhases) \ {"configured"}

TodoFits ==
  /\ handler.op \in Handlers /\ handler.todo \in Seq(WritesOf(handler.op))
  /\ handler.op = "none" => handler.todo = <<>>
MarkFits ==
  /\ phase \in Begun => markers.outstanding
  /\ handler.op = "send_code" =>
       markers.outstanding \/ (handler.todo # <<>> /\ Head(handler.todo) = Mark("outstanding"))
  /\ handler.op \in Handlers \ (Resets \cup {"none", "configure", "send_code"}) =>
       markers.outstanding
(* A reset asks Telegram first, then wipes; the settings are the first     *)
(* record to go, so that it gives the markers up in no phase at all.       *)
ResetFits ==
  handler.op \in Resets /\ handler.todo # <<>> =>
    Head(handler.todo) \in {Ask("answer"), Del("settings")} \/ phase = "none"
DeviceFits ==
  /\ remote = "live" => markers.outstanding
  /\ doomed => remote = "live" /\ markers.warning

SessionShape ==
  /\ records \subseteq Records
  /\ phase \in SetupPhases \cup LockedPhases \cup {"none"}
  /\ markers \in [outstanding : BOOLEAN, warning : BOOLEAN, checkpoint : BOOLEAN]
  /\ lease \in BOOLEAN /\ opened \in BOOLEAN
  /\ remote \in {"none", "live"} /\ doomed \in BOOLEAN
  /\ DOMAIN handler = {"op", "todo"}

SessionInv == SessionShape /\ TodoFits /\ MarkFits /\ ResetFits /\ DeviceFits

-----------------------------------------------------------------------------
(* Sequences of writes.                                                    *)
LEMMA SeqGrows ==
  ASSUME NEW S, NEW T, S \subseteq T, NEW s \in Seq(S)
  PROVE  s \in Seq(T)
OBVIOUS

LEMMA ResetRecords ==
  /\ Len(ResetFiles) = 13 /\ ResetFiles[1] = "settings"
  /\ \A i \in 1..13 : ResetFiles[i] \in Records
BY DEF ResetFiles, Records

LEMMA ConcatHead ==
  ASSUME NEW S, NEW s \in Seq(S), NEW t \in Seq(S), Len(s) >= 1
  PROVE  s \o t \in Seq(S) /\ Len(s \o t) = Len(s) + Len(t) /\ (s \o t)[1] = s[1]
<1>1. 1 \in 1..Len(s) + Len(t) /\ 1 <= Len(s)
  OBVIOUS
<1>2. (s \o t)[1] = IF 1 <= Len(s) THEN s[1] ELSE t[1 - Len(s)]
  BY <1>1, ConcatProperties
<1> QED BY <1>1, <1>2, ConcatProperties

LEMMA ConcatTwice ==
  ASSUME NEW S, NEW s \in Seq(S), NEW t \in Seq(S), NEW u \in Seq(S), Len(s) >= 1
  PROVE  /\ (s \o t) \o u \in Seq(S) /\ (s \o t) \o u # <<>>
         /\ Head((s \o t) \o u) = s[1]
<1>1. PICK st : st = s \o t
  OBVIOUS
<1>2. st \in Seq(S) /\ Len(st) = Len(s) + Len(t) /\ st[1] = s[1]
  BY <1>1, ConcatHead
<1>4. Len(st) >= 1
  BY <1>2
<1>5. PICK stu : stu = st \o u
  OBVIOUS
<1>6. stu \in Seq(S) /\ Len(stu) = Len(st) + Len(u) /\ stu[1] = st[1]
  BY <1>2, <1>4, <1>5, ConcatHead
<1>7. stu # <<>> /\ Head(stu) = s[1]
  BY <1>2, <1>4, <1>6
<1> QED BY <1>1, <1>5, <1>6, <1>7

LEMMA WipedFirst ==
  ASSUME NEW S, NEW rest \in Seq(S),
         \A r \in Records : Del(r) \in S, Clear("checkpoint") \in S
  PROVE  /\ Wiped \o rest \in Seq(S) /\ Wiped \o rest # <<>>
         /\ Head(Wiped \o rest) = Del("settings")
<1>1. PICK dels : dels = [i \in 1..Len(ResetFiles) |-> Del(ResetFiles[i])]
  OBVIOUS
<1>2. dels \in Seq(S) /\ Len(dels) = 13 /\ dels[1] = Del("settings")
  BY <1>1, ResetRecords
<1>3. PICK last : last = <<Clear("checkpoint")>>
  OBVIOUS
<1>5. last \in Seq(S)
  BY <1>3
<1>4. Wiped = dels \o last
  BY <1>1, <1>3 DEF Wiped
<1>6. Len(dels) >= 1
  BY <1>2
<1>7. /\ (dels \o last) \o rest \in Seq(S) /\ (dels \o last) \o rest # <<>>
      /\ Head((dels \o last) \o rest) = dels[1]
  BY <1>2, <1>5, <1>6, ConcatTwice
<1> QED BY <1>2, <1>4, <1>7, Zenon

LEMMA EndedFits ==
  ASSUME NEW S, NEW confirmed \in BOOLEAN,
         \A r \in Records : Del(r) \in S, Clear("checkpoint") \in S, Mark("warning") \in S,
         confirmed => Forgets \subseteq S
  PROVE  /\ Ended(confirmed) \in Seq(S) /\ Ended(confirmed) # <<>>
         /\ Head(Ended(confirmed)) = Del("settings")
<1>1. CASE confirmed
  <2>1. RevocationCleared \in Seq(S)
    BY <1>1 DEF RevocationCleared, Forgets
  <2> QED BY <1>1, <2>1, WipedFirst DEF Ended
<1>2. CASE ~confirmed
  <2>1. <<Mark("warning")>> \in Seq(S)
    OBVIOUS
  <2> QED BY <1>2, <2>1, WipedFirst DEF Ended
<1> QED BY <1>1, <1>2

LEMMA AllowedWrites ==
  ASSUME NEW op, NEW device
  PROVE  /\ \A r \in Records : Put(r) \in Allowed(op, device) /\ Del(r) \in Allowed(op, device)
         /\ \A m \in {"outstanding", "warning", "checkpoint"} : Mark(m) \in Allowed(op, device)
         /\ Clear("checkpoint") \in Allowed(op, device)
         /\ \A a \in {"consent", "telegram", "answer"} :
              op \notin Resets \/ a = "answer" => Ask(a) \in Allowed(op, device)
         /\ \A p \in SetupPhases \cup LockedPhases :
              op \notin Resets /\ (op = "configure" => p = "configured") => Phase(p) \in Allowed(op, device)
         /\ op \in Resets /\ device = "none" => Forgets \subseteq Allowed(op, device)
<1> USE DEF Put, Del, Mark, Clear, Ask, Phase, Forgets
<1>1. /\ \A r \in Records : Put(r) \in Writes /\ Del(r) \in Writes
      /\ \A m \in {"outstanding", "warning", "checkpoint"} : Mark(m) \in Writes /\ Clear(m) \in Writes
      /\ \A a \in {"consent", "telegram", "answer"} : Ask(a) \in Writes
      /\ \A p \in SetupPhases \cup LockedPhases : Phase(p) \in Writes
  BY DEF Writes
<1>2. \A r \in Records : Put(r) \in Allowed(op, device) /\ Del(r) \in Allowed(op, device)
  BY <1>1 DEF Allowed
<1>3. \A m \in {"outstanding", "warning", "checkpoint"} : Mark(m) \in Allowed(op, device)
  BY <1>1 DEF Allowed
<1>4. Clear("checkpoint") \in Allowed(op, device)
  BY <1>1 DEF Allowed
<1>5. \A a \in {"consent", "telegram", "answer"} :
        op \notin Resets \/ a = "answer" => Ask(a) \in Allowed(op, device)
  BY <1>1 DEF Allowed
<1>6. \A p \in SetupPhases \cup LockedPhases :
        op \notin Resets /\ (op = "configure" => p = "configured") => Phase(p) \in Allowed(op, device)
  BY <1>1 DEF Allowed
<1>7. op \in Resets /\ device = "none" => Forgets \subseteq Allowed(op, device)
  BY <1>1 DEF Allowed
<1> QED BY <1>2, <1>3, <1>4, <1>5, <1>6, <1>7

LEMMA WritesAllowed ==
  ASSUME NEW op
  PROVE  /\ \A r \in Records : Put(r) \in WritesOf(op) /\ Del(r) \in WritesOf(op)
         /\ \A m \in {"outstanding", "warning", "checkpoint"} : Mark(m) \in WritesOf(op)
         /\ Clear("checkpoint") \in WritesOf(op)
         /\ \A a \in {"consent", "telegram", "answer"} :
              op \notin Resets \/ a = "answer" => Ask(a) \in WritesOf(op)
         /\ \A p \in SetupPhases \cup LockedPhases :
              op \notin Resets /\ (op = "configure" => p = "configured") => Phase(p) \in WritesOf(op)
         /\ op \in Resets /\ remote = "none" => Forgets \subseteq WritesOf(op)
BY AllowedWrites DEF WritesOf

LEMMA WritesKept == ASSUME NEW op, remote' = remote PROVE WritesOf(op)' = WritesOf(op)
BY DEF WritesOf, Allowed

(* What the head of the list says of its handler.                          *)
LEMMA HeadFits ==
  ASSUME SessionInv, handler.todo # <<>>
  PROVE  /\ Head(handler.todo) \in WritesOf(handler.op) /\ handler.op # "none"
         /\ Tail(handler.todo) \in Seq(WritesOf(handler.op))
         /\ Rest.op = handler.op /\ Rest.todo = Tail(handler.todo) /\ DOMAIN Rest = {"op", "todo"}
<1>1. handler.todo \in Seq(WritesOf(handler.op)) /\ handler.op # "none"
  BY DEF SessionInv, TodoFits
<1>2. /\ Head(handler.todo) \in WritesOf(handler.op)
      /\ Tail(handler.todo) \in Seq(WritesOf(handler.op))
  <2>1. PICK S : S = WritesOf(handler.op)
    OBVIOUS
  <2>2. PICK todo : todo = handler.todo
    OBVIOUS
  <2>3. todo \in Seq(S) /\ todo # <<>>
    BY <1>1, <2>1, <2>2
  <2>4. Head(todo) \in S /\ Tail(todo) \in Seq(S)
    BY <2>3
  <2> QED BY <2>1, <2>2, <2>4
<1> QED BY <1>1, <1>2 DEF Rest, SessionInv, SessionShape

LEMMA QuietFits ==
  Quiet.op = "none" /\ Quiet.todo = <<>> /\ DOMAIN Quiet = {"op", "todo"}
BY DEF Quiet

-----------------------------------------------------------------------------
LEMMA SessionInitially == SessionInit => SessionInv
<1> SUFFICES ASSUME SessionInit PROVE SessionInv
  OBVIOUS
<1>1. handler.op = "none" /\ handler.todo = <<>> /\ DOMAIN handler = {"op", "todo"}
  BY QuietFits DEF SessionInit
<1>2. TodoFits
  BY <1>1 DEF TodoFits, Handlers
<1> QED BY <1>1, <1>2
        DEF SessionInit, SessionInv, SessionShape, MarkFits, ResetFits, DeviceFits, Begun,
            SetupPhases, LockedPhases, Resets, Handlers

(* A handler starts.                                                       *)
LEMMA ServeKeeps ==
  ASSUME SessionInv, NEW op \in Handlers \ (Resets \cup {"none"}), NEW todo \in Seq(WritesOf(op)),
         Serve(op, todo),
         op = "send_code" => todo # <<>> /\ Head(todo) = Mark("outstanding"),
         op \notin {"configure", "send_code"} => markers.outstanding
  PROVE  SessionInv'
<1> USE DEF SessionInv
<1>1. /\ handler'.op = op /\ handler'.todo = todo /\ DOMAIN handler' = {"op", "todo"}
      /\ UNCHANGED <<records, phase, markers, lease, opened, remote, doomed>>
  BY DEF Serve, Start
<1>2. TodoFits'
  BY <1>1, WritesKept DEF TodoFits
<1>3. SessionShape' /\ MarkFits' /\ ResetFits' /\ DeviceFits'
  BY <1>1 DEF SessionShape, MarkFits, ResetFits, DeviceFits, Resets, Handlers
<1> QED BY <1>2, <1>3

LEMMA SetupKeeps == ASSUME SessionInv, SessionSetup PROVE SessionInv'
<1> USE WritesAllowed DEF Resets, Handlers, Records, SetupPhases, LockedPhases
<1>0. phase \in Begun => markers.outstanding
  BY DEF SessionInv, MarkFits
<1>1. CASE Configure
  <2>1. Configured \in Seq(WritesOf("configure"))
    BY DEF Configured
  <2> QED BY <1>1, <2>1, ServeKeeps DEF Configure
<1>2. CASE SendCode
  <2>1. CodeSent \in Seq(WritesOf("send_code"))
    BY DEF CodeSent
  <2>2. CodeSent # <<>> /\ Head(CodeSent) = Mark("outstanding")
    BY DEF CodeSent
  <2> QED BY <1>2, <2>1, <2>2, ServeKeeps DEF SendCode, SetupStep
<1>3. CASE SubmitCode
  <2>1. CodeAccepted \in Seq(WritesOf("submit_code")) /\ PasswordNeeded \in Seq(WritesOf("submit_code"))
    BY DEF CodeAccepted, PasswordNeeded
  <2>2. markers.outstanding
    BY <1>0, <1>3 DEF SubmitCode, SetupStep, Begun
  <2> QED BY <1>3, <2>1, <2>2, ServeKeeps DEF SubmitCode, SetupStep
<1>4. CASE SubmitPassword
  <2>1. CodeAccepted \in Seq(WritesOf("submit_password"))
    BY DEF CodeAccepted
  <2>2. markers.outstanding
    BY <1>0, <1>4 DEF SubmitPassword, SetupStep, Begun
  <2> QED BY <1>4, <2>1, <2>2, ServeKeeps DEF SubmitPassword, SetupStep
<1>5. CASE ResolveChatLinks
  <2>1. LinksResolved \in Seq(WritesOf("resolve_chat_links"))
    BY DEF LinksResolved
  <2>2. markers.outstanding
    BY <1>0, <1>5 DEF ResolveChatLinks, SetupStep, Begun
  <2> QED BY <1>5, <2>1, <2>2, ServeKeeps DEF ResolveChatLinks, SetupStep
<1>6. CASE SelectChats
  <2>1. ChatsSelected \in Seq(WritesOf("select_chats"))
    BY DEF ChatsSelected
  <2>2. markers.outstanding
    BY <1>0, <1>6 DEF SelectChats, SetupStep, Begun
  <2> QED BY <1>6, <2>1, <2>2, ServeKeeps DEF SelectChats, SetupStep
<1>7. CASE ActivateMonitoring
  <2>1. <<Mark("checkpoint")>> \in Seq(WritesOf("activate_monitoring"))
    OBVIOUS
  <2>2. markers.outstanding
    BY <1>0, <1>7 DEF ActivateMonitoring, Begun
  <2> QED BY <1>7, <2>1, <2>2, ServeKeeps DEF ActivateMonitoring
<1>8. CASE ExtendChats
  <2>1. ChatExtended \in Seq(WritesOf("extend_chats"))
    BY DEF ChatExtended
  <2>2. markers.outstanding
    BY <1>0, <1>8 DEF ExtendChats, Locked, Begun
  <2> QED BY <1>8, <2>1, <2>2, ServeKeeps DEF ExtendChats
<1>9. CASE EnsureOpenRouterKey
  <2>1. ChannelKey \in Seq(WritesOf("openrouter_key"))
    BY DEF ChannelKey
  <2>2. markers.outstanding
    BY <1>0, <1>9 DEF EnsureOpenRouterKey, Locked, Begun
  <2> QED BY <1>9, <2>1, <2>2, ServeKeeps DEF EnsureOpenRouterKey
<1> QED BY <1>1, <1>2, <1>3, <1>4, <1>5, <1>6, <1>7, <1>8, <1>9 DEF SessionSetup

(* A reset starts: nothing is given up before Telegram has been asked,     *)
(* unless no session can be there.                                         *)
LEMMA ResetStarts ==
  ASSUME SessionInv, NEW op \in Resets, NEW todo \in Seq(WritesOf(op)), Start(op, todo),
         todo # <<>>, Head(todo) \in {Ask("answer"), Del("settings")},
         markers' \in [outstanding : BOOLEAN, warning : BOOLEAN, checkpoint : BOOLEAN],
         markers'.outstanding = markers.outstanding,
         doomed' \in BOOLEAN, doomed' => remote = "live" /\ markers'.warning
  PROVE  SessionInv'
<1> USE DEF SessionInv
<1>1. /\ handler'.op = op /\ handler'.todo = todo /\ DOMAIN handler' = {"op", "todo"}
      /\ UNCHANGED <<records, phase, lease, opened, remote>>
  BY DEF Start
<1>2. TodoFits'
  BY <1>1, WritesKept DEF TodoFits, Resets, Handlers
<1>3. SessionShape'
  BY <1>1 DEF SessionShape
<1>4. MarkFits' /\ ResetFits' /\ DeviceFits'
  BY <1>1 DEF MarkFits, ResetFits, DeviceFits, Resets, Handlers
<1> QED BY <1>2, <1>3, <1>4

LEMMA EndKeeps == ASSUME SessionInv, SessionEnd PROVE SessionInv'
<1>0. /\ markers \in [outstanding : BOOLEAN, warning : BOOLEAN, checkpoint : BOOLEAN]
      /\ doomed \in BOOLEAN /\ remote \in {"none", "live"}
      /\ remote = "live" => markers.outstanding
      /\ doomed => remote = "live" /\ markers.warning
  BY DEF SessionInv, SessionShape, DeviceFits
<1>1. CASE RevokeAndReset
  <2>1. /\ markers' \in [outstanding : BOOLEAN, warning : BOOLEAN, checkpoint : BOOLEAN]
        /\ markers'.outstanding = markers.outstanding /\ markers'.warning = TRUE
        /\ doomed' \in BOOLEAN /\ (doomed' => remote = "live")
    BY <1>0, <1>1 DEF RevokeAndReset
  <2>2. CASE LogoutPossible
    <3>1. /\ <<Ask("answer")>> \in Seq(WritesOf("revoke_and_reset"))
          /\ <<Ask("answer")>> # <<>> /\ Head(<<Ask("answer")>>) = Ask("answer")
      BY WritesAllowed
    <3> QED BY <1>1, <2>1, <2>2, <3>1, ResetStarts DEF RevokeAndReset, Resets
  <2>3. CASE ~LogoutPossible
    <3>1. PICK confirmed \in BOOLEAN : confirmed = ~PossibleSession
      OBVIOUS
    <3>2. confirmed => remote = "none"
      BY <1>0, <3>1 DEF PossibleSession
    <3>3. /\ Ended(confirmed) \in Seq(WritesOf("revoke_and_reset")) /\ Ended(confirmed) # <<>>
          /\ Head(Ended(confirmed)) = Del("settings")
      BY <3>2, EndedFits, WritesAllowed DEF Resets
    <3> QED BY <1>1, <2>1, <2>3, <3>1, <3>3, ResetStarts DEF RevokeAndReset, Resets
  <2> QED BY <2>2, <2>3
<1>2. CASE Acknowledge
  <2>1. /\ Ended(TRUE) \in Seq(WritesOf("acknowledge")) /\ Ended(TRUE) # <<>>
        /\ Head(Ended(TRUE)) = Del("settings")
    BY <1>2, EndedFits, WritesAllowed DEF Acknowledge, Resets
  <2>2. Ended(TRUE) = Wiped \o RevocationCleared
    BY DEF Ended
  <2> QED BY <1>0, <1>2, <2>1, <2>2, ResetStarts DEF Acknowledge, Resets
<1> QED BY <1>1, <1>2 DEF SessionEnd

-----------------------------------------------------------------------------
(* The steps of a handler.                                                 *)
LEMMA WriteRecordKeeps == ASSUME SessionInv, WriteRecord PROVE SessionInv'
<1> USE DEF SessionInv
<1>1. /\ handler.todo # <<>> /\ Head(handler.todo).do \in {"put", "del"} /\ handler' = Rest
      /\ UNCHANGED <<markers, lease, opened, remote, doomed>>
      /\ phase' \in {phase, "none"} /\ (Goal = "settings" => phase' = "none")
  BY DEF WriteRecord, Pending
<1>2. /\ handler'.op = handler.op /\ handler'.todo = Tail(handler.todo) /\ handler.op # "none"
      /\ Head(handler.todo) \in Writes /\ DOMAIN handler' = {"op", "todo"}
  BY <1>1, HeadFits DEF WritesOf, Allowed
<1>3. Goal \in Records
  BY <1>1, <1>2 DEF Goal, Writes
<1>4. records' \subseteq Records
  BY <1>3 DEF WriteRecord, SessionShape
<1>5. TodoFits'
  BY <1>1, <1>2, HeadFits, WritesKept DEF TodoFits
<1>6. MarkFits'
  <2>1. Head(handler.todo) # Mark("outstanding")
    BY <1>1 DEF Mark
  <2> QED BY <1>1, <1>2, <2>1 DEF MarkFits, Begun, Handlers, SetupPhases, LockedPhases
<1>7. ResetFits'
  <2>1. Head(handler.todo) # Ask("answer")
    BY <1>1 DEF Ask
  <2>2. Head(handler.todo) = Del("settings") => phase' = "none"
    BY <1>1 DEF Del, Goal
  <2> QED BY <1>1, <1>2, <2>1, <2>2 DEF ResetFits
<1>8. SessionShape' /\ DeviceFits'
  BY <1>1, <1>2, <1>4 DEF SessionShape, DeviceFits
<1> QED BY <1>5, <1>6, <1>7, <1>8

LEMMA WriteSettingsKeeps == ASSUME SessionInv, WriteSettings PROVE SessionInv'
<1> USE DEF SessionInv
<1>1. /\ handler.todo # <<>> /\ Head(handler.todo).do = "phase" /\ handler' = Rest
      /\ UNCHANGED <<markers, opened, remote, doomed>>
      /\ phase' = Goal /\ records' = records \cup {"settings"} /\ lease' \in BOOLEAN
  BY DEF WriteSettings, Pending
<1>2. /\ handler'.op = handler.op /\ handler'.todo = Tail(handler.todo) /\ handler.op # "none"
      /\ Head(handler.todo) \in WritesOf(handler.op) /\ DOMAIN handler' = {"op", "todo"}
  BY <1>1, HeadFits
<1>3. /\ Goal \in SetupPhases \cup LockedPhases /\ handler.op \notin Resets
      /\ handler.op = "configure" => Goal = "configured"
  BY <1>1, <1>2 DEF Goal, Writes, WritesOf, Allowed
<1>4. TodoFits'
  BY <1>1, <1>2, HeadFits, WritesKept DEF TodoFits
<1>5. MarkFits'
  <2>1. Head(handler.todo) # Mark("outstanding")
    BY <1>1 DEF Mark
  <2>2. handler.op # "configure" => markers.outstanding
    BY <1>2, <1>3, <2>1 DEF MarkFits, TodoFits
  <2>3. handler.op = "configure" => phase' \notin Begun
    BY <1>1, <1>3 DEF Begun
  <2> QED BY <1>1, <1>2, <2>2, <2>3 DEF MarkFits, Handlers
<1>6. ResetFits'
  BY <1>2, <1>3 DEF ResetFits
<1>7. SessionShape' /\ DeviceFits'
  BY <1>1, <1>2, <1>3 DEF SessionShape, DeviceFits, Records
<1> QED BY <1>4, <1>5, <1>6, <1>7

LEMMA WriteMarkerKeeps == ASSUME SessionInv, WriteMarker PROVE SessionInv'
<1> USE DEF SessionInv
<1>1. /\ handler.todo # <<>> /\ Head(handler.todo).do \in {"mark", "clear"} /\ handler' = Rest
      /\ UNCHANGED <<records, phase, lease, opened, remote, doomed>>
      /\ markers' = [markers EXCEPT ![Goal] = Head(handler.todo).do = "mark"]
  BY DEF WriteMarker, Pending
<1>2. /\ handler'.op = handler.op /\ handler'.todo = Tail(handler.todo) /\ handler.op # "none"
      /\ Head(handler.todo) \in WritesOf(handler.op) /\ DOMAIN handler' = {"op", "todo"}
  BY <1>1, HeadFits
<1>3. Goal \in {"outstanding", "warning", "checkpoint"}
  BY <1>1, <1>2 DEF Goal, Writes, WritesOf, Allowed
<1>4. /\ markers' \in [outstanding : BOOLEAN, warning : BOOLEAN, checkpoint : BOOLEAN]
      /\ \A m \in {"outstanding", "warning"} :
           \/ markers'[m] = markers[m]
           \/ markers'[m] = TRUE
           \/ Head(handler.todo) = Clear(m) /\ m = Goal
  <2>1. markers \in [outstanding : BOOLEAN, warning : BOOLEAN, checkpoint : BOOLEAN]
    BY DEF SessionShape
  <2>2. CASE Head(handler.todo).do = "mark"
    BY <1>1, <1>3, <2>1, <2>2
  <2>3. CASE Head(handler.todo).do = "clear"
    <3>1. Head(handler.todo) = Clear(Goal)
      BY <1>2, <2>3 DEF Clear, Goal, Writes, WritesOf, Allowed
    <3> QED BY <1>1, <1>3, <2>1, <2>3, <3>1
  <2> QED BY <1>1, <2>2, <2>3
<1>5. /\ Head(handler.todo) # Ask("answer") /\ Head(handler.todo) # Del("settings")
  BY <1>1 DEF Ask, Del
<1>6. Head(handler.todo) \in Forgets =>
        handler.op \in Resets /\ remote = "none" /\ phase = "none"
  BY <1>1, <1>2, <1>5 DEF WritesOf, Allowed, ResetFits
<1>7. TodoFits'
  BY <1>1, <1>2, HeadFits, WritesKept DEF TodoFits
<1>8. CASE Head(handler.todo) \in Forgets
  <2>1. MarkFits'
    BY <1>1, <1>2, <1>6, <1>8 DEF MarkFits, Begun, SetupPhases, LockedPhases, Resets
  <2>2. ResetFits' /\ DeviceFits'
    BY <1>1, <1>6, <1>8 DEF ResetFits, DeviceFits
  <2>3. SessionShape'
    BY <1>1, <1>2, <1>4 DEF SessionShape
  <2> QED BY <1>7, <2>1, <2>2, <2>3
<1>9. CASE Head(handler.todo) \notin Forgets
  <2>1. /\ markers'.outstanding = markers.outstanding \/ markers'.outstanding = TRUE
        /\ markers'.warning = markers.warning \/ markers'.warning = TRUE
    BY <1>4, <1>9 DEF Forgets
  <2>2. ASSUME Head(handler.todo) = Mark("outstanding") PROVE markers'.outstanding = TRUE
    <3>1. Goal = "outstanding" /\ Head(handler.todo).do = "mark"
      BY <2>2 DEF Mark, Goal
    <3> QED BY <1>1, <3>1 DEF SessionShape
  <2>3. MarkFits'
    BY <1>1, <1>2, <2>1, <2>2 DEF MarkFits
  <2>4. ResetFits' /\ DeviceFits'
    BY <1>1, <1>2, <1>5, <2>1 DEF ResetFits, DeviceFits
  <2>5. SessionShape'
    BY <1>1, <1>2, <1>4 DEF SessionShape
  <2> QED BY <1>7, <2>3, <2>4, <2>5
<1> QED BY <1>8, <1>9

(* An answer, or its absence.                                              *)
LEMMA AskKeeps ==
  ASSUME SessionInv, handler.todo # <<>>, Head(handler.todo).do = "ask",
         handler.op \notin Resets,
         \/ handler' = Rest \/ handler' = Quiet
         \/ /\ handler'.op = handler.op /\ DOMAIN handler' = {"op", "todo"}
            /\ handler'.todo \in Seq(WritesOf(handler.op)),
         UNCHANGED <<records, phase, markers, lease, opened, doomed>>,
         remote' = remote \/ (remote' = "live" /\ markers.outstanding)
  PROVE  SessionInv'
<1> USE DEF SessionInv
<1>1. /\ Head(handler.todo) # Mark("outstanding") /\ Head(handler.todo) # Del("settings")
      /\ handler.op \in Resets => Head(handler.todo) # Ask("answer")
  BY DEF Mark, Del, Ask, Goal
<1>2. \/ handler'.op = "none" /\ handler'.todo = <<>> /\ handler.op \notin Resets
      \/ handler'.op = handler.op /\ handler'.todo \in Seq(WritesOf(handler.op))
  BY QuietFits, HeadFits
<1>3. DOMAIN handler' = {"op", "todo"} /\ handler.op # "none"
  BY QuietFits, HeadFits
<1>4. remote' # remote => Allowed(handler.op, remote') = Allowed(handler.op, remote)
  BY DEF Allowed
<1>5. TodoFits'
  <2>1. CASE handler'.op = "none" /\ handler'.todo = <<>>
    BY <2>1 DEF TodoFits, Handlers
  <2>2. CASE handler'.op = handler.op /\ handler'.todo \in Seq(WritesOf(handler.op))
    <3>1. handler'.todo \in Seq(Allowed(handler'.op, remote'))
      BY <1>4, <2>2 DEF WritesOf
    <3> QED BY <1>3, <2>2, <3>1 DEF TodoFits, WritesOf
  <2> QED BY <1>2, <2>1, <2>2
<1>6. MarkFits'
  BY <1>1, <1>2 DEF MarkFits, Handlers
<1>7. ResetFits'
  BY <1>1, <1>2 DEF ResetFits
<1>8. SessionShape' /\ DeviceFits'
  BY <1>3 DEF SessionShape, DeviceFits
<1> QED BY <1>5, <1>6, <1>7, <1>8

LEMMA AskStepsKeep ==
  ASSUME SessionInv, Consents \/ TelegramAnswers \/ TelegramFails \/ FetchesSubscription
  PROVE  SessionInv'
<1>0. Authorises => markers.outstanding /\ handler.op \notin Resets
  BY DEF Authorises, SessionInv, MarkFits, Handlers, Resets
<1>1. ASSUME handler.todo # <<>>, Head(handler.todo).do = "ask", Goal # "answer"
      PROVE  handler.op \notin Resets
  BY <1>1, HeadFits DEF WritesOf, Allowed, Goal
<1>2. CASE Consents
  <2>1. /\ handler.todo # <<>> /\ Head(handler.todo).do = "ask" /\ Goal = "consent"
        /\ UNCHANGED <<records, phase, markers, doomed, lease, opened, remote>>
    BY <1>2 DEF Consents, Pending
  <2>2. CASE handler' = Rest
    BY <1>1, <2>1, <2>2, AskKeeps
  <2>3. CASE handler' # Rest /\ handler.op = "select_chats"
    <3>1. handler' = [handler EXCEPT !.todo = <<Del("upload_key"), Del("upload_public_key")>>]
      BY <1>2, <2>3 DEF Consents
    <3>2. <<Del("upload_key"), Del("upload_public_key")>> \in Seq(WritesOf(handler.op))
      BY WritesAllowed DEF Records
    <3>3. /\ handler'.op = handler.op /\ DOMAIN handler' = {"op", "todo"}
          /\ handler'.todo \in Seq(WritesOf(handler.op))
      BY <3>1, <3>2 DEF SessionInv, SessionShape
    <3> QED BY <1>1, <2>1, <2>3, <3>3, AskKeeps
  <2>4. CASE handler' # Rest /\ handler.op # "select_chats"
    <3>1. handler' = Quiet /\ ~lease
      BY <1>2, <2>4 DEF Consents
    <3> QED BY <1>1, <2>1, <3>1, AskKeeps
  <2> QED BY <2>2, <2>3, <2>4
<1>3. CASE TelegramAnswers
  <2>1. /\ handler.todo # <<>> /\ Head(handler.todo).do = "ask" /\ Goal = "telegram"
        /\ UNCHANGED <<records, phase, markers, lease, opened, doomed>> /\ handler' = Rest
        /\ remote' = remote \/ (remote' = "live" /\ Authorises)
    BY <1>3 DEF TelegramAnswers, Pending
  <2> QED BY <1>0, <1>1, <2>1, AskKeeps
<1>4. CASE TelegramFails
  <2>1. /\ handler.todo # <<>> /\ Head(handler.todo).do = "ask" /\ Goal = "telegram"
        /\ UNCHANGED <<records, phase, markers, lease, opened, doomed>>
        /\ remote' = remote \/ (remote' = "live" /\ Authorises)
    BY <1>4 DEF TelegramFails, Pending
  <2>2. handler.op \notin Resets
    BY <1>1, <2>1
  <2>3. CASE handler.op = "extend_chats"
    <3>1. <<Phase("chat_locked")>> \in Seq(WritesOf(handler.op))
      BY <2>3, WritesAllowed DEF LockedPhases, Resets
    <3>2. /\ handler'.op = handler.op /\ DOMAIN handler' = {"op", "todo"}
          /\ handler'.todo \in Seq(WritesOf(handler.op))
      BY <1>4, <2>3, <3>1 DEF TelegramFails, SessionInv, SessionShape
    <3> QED BY <1>0, <2>1, <2>2, <3>2, AskKeeps
  <2>4. CASE handler.op # "extend_chats"
    <3>1. handler' = Quiet
      BY <1>4, <2>4 DEF TelegramFails
    <3> QED BY <1>0, <2>1, <2>2, <3>1, AskKeeps
  <2> QED BY <2>3, <2>4
<1>5. CASE FetchesSubscription
  <2>1. /\ handler.todo # <<>> /\ Head(handler.todo).do = "ask" /\ handler.op = "configure"
        /\ UNCHANGED <<records, phase, markers, lease, opened, remote, doomed>>
        /\ handler' = Rest \/ handler' = Quiet
    BY <1>5 DEF FetchesSubscription, Pending
  <2> QED BY <2>1, AskKeeps DEF Resets
<1> QED BY <1>2, <1>3, <1>4, <1>5

(* The logout of a reset: the markers go only after Telegram's own answer. *)
LEMMA LogsOutKeeps == ASSUME SessionInv, LogsOut PROVE SessionInv'
<1> USE DEF SessionInv
<1>1. PICK confirmed \in BOOLEAN :
        /\ remote' \in IF confirmed THEN {"none"} ELSE {remote, "none"}
        /\ handler' = [handler EXCEPT !.todo = Ended(confirmed)]
  BY DEF LogsOut
<1>2. /\ handler.op = "revoke_and_reset" /\ doomed' = (doomed /\ remote' = "live")
      /\ UNCHANGED <<records, phase, markers, lease, opened>>
  BY DEF LogsOut
<1>3. /\ handler'.op = handler.op /\ handler'.todo = Ended(confirmed)
      /\ DOMAIN handler' = {"op", "todo"}
  BY <1>1 DEF SessionShape
<1>4. /\ \A r \in Records : Del(r) \in Allowed(handler.op, remote')
      /\ Clear("checkpoint") \in Allowed(handler.op, remote')
      /\ Mark("warning") \in Allowed(handler.op, remote')
      /\ confirmed => Forgets \subseteq Allowed(handler.op, remote')
  BY <1>1, <1>2, AllowedWrites DEF Resets
<1>5. /\ Ended(confirmed) \in Seq(Allowed(handler.op, remote')) /\ Ended(confirmed) # <<>>
      /\ Head(Ended(confirmed)) = Del("settings")
  BY <1>4, EndedFits
<1>6. TodoFits'
  BY <1>2, <1>3, <1>5 DEF TodoFits, WritesOf
<1>7. MarkFits' /\ ResetFits'
  BY <1>2, <1>3, <1>5 DEF MarkFits, ResetFits, Resets
<1>8. remote' \in {remote, "none"} /\ doomed' \in BOOLEAN
  BY <1>1, <1>2
<1>9. DeviceFits' /\ SessionShape'
  BY <1>2, <1>3, <1>8 DEF SessionShape, DeviceFits
<1> QED BY <1>6, <1>7, <1>9

-----------------------------------------------------------------------------
(* Steps that leave the handler alone, or end it.                          *)
LEMMA HandlerEndsKeeps ==
  ASSUME SessionInv, handler' = Quiet, UNCHANGED <<records, phase, markers, remote, doomed>>,
         lease' \in BOOLEAN, opened' \in BOOLEAN
  PROVE  SessionInv'
BY QuietFits
   DEF SessionInv, SessionShape, TodoFits, MarkFits, ResetFits, DeviceFits, Handlers, Resets

LEMMA HandlerStays ==
  ASSUME SessionInv, UNCHANGED handler, records' \subseteq Records, phase' \in {phase, "none"},
         markers' \in [outstanding : BOOLEAN, warning : BOOLEAN, checkpoint : BOOLEAN],
         markers'.outstanding = markers.outstanding, markers.warning => markers'.warning,
         lease' \in BOOLEAN, opened' \in BOOLEAN,
         \/ UNCHANGED <<remote, doomed>>
         \/ remote' = "none" /\ doomed' = FALSE
  PROVE  SessionInv'
<1> USE DEF SessionInv
<1>1. TodoFits'
  <2>1. Allowed(handler.op, remote) \subseteq Allowed(handler.op, remote')
    BY DEF Allowed
  <2>2. Seq(Allowed(handler.op, remote)) \subseteq Seq(Allowed(handler.op, remote'))
    BY <2>1, SeqGrows
  <2> QED BY <2>2 DEF TodoFits, WritesOf
<1>2. MarkFits'
  BY DEF MarkFits, Begun, SetupPhases, LockedPhases
<1>3. ResetFits'
  BY DEF ResetFits
<1>4. DeviceFits'
  BY DEF DeviceFits
<1>5. SessionShape'
  BY DEF SessionShape
<1> QED BY <1>1, <1>2, <1>3, <1>4, <1>5

LEMMA SessionStep == SessionInv /\ [SessionNext]_sessionVars => SessionInv'
<1> SUFFICES ASSUME SessionInv, [SessionNext]_sessionVars PROVE SessionInv'
  OBVIOUS
<1>0. SessionShape
  BY DEF SessionInv
<1>1. CASE SessionSetup
  BY <1>1, SetupKeeps
<1>2. CASE SessionEnd
  BY <1>2, EndKeeps
<1>3. CASE HandlerStep
  <2>1. CASE Finish
    BY <1>0, <2>1, HandlerEndsKeeps DEF Finish, SessionShape
  <2> QED BY <1>3, <2>1, WriteRecordKeeps, WriteSettingsKeeps, WriteMarkerKeeps, AskStepsKeep,
             LogsOutKeeps DEF HandlerStep
<1>4. CASE LeaseEnds
  BY <1>0, <1>4, HandlerStays DEF LeaseEnds, SessionShape
<1>5. CASE Crash
  BY <1>0, <1>5, HandlerEndsKeeps DEF Crash, SessionShape
<1>6. CASE Open
  <2>1. /\ markers' \in [outstanding : BOOLEAN, warning : BOOLEAN, checkpoint : BOOLEAN]
        /\ markers'.outstanding = markers.outstanding /\ (markers.warning => markers'.warning)
    BY <1>0, <1>6 DEF Open, SessionShape
  <2> QED BY <1>0, <1>6, <2>1, HandlerStays DEF Open, SessionShape
<1>7. CASE RestoreConfig
  BY <1>0, <1>7, HandlerStays DEF RestoreConfig, SessionShape
<1>8. CASE OwnerTerminates
  BY <1>0, <1>8, HandlerStays DEF OwnerTerminates, SessionShape
<1>9. CASE UNCHANGED sessionVars
  BY <1>0, <1>9, HandlerStays DEF sessionVars, SessionShape
<1> QED BY <1>1, <1>2, <1>3, <1>4, <1>5, <1>6, <1>7, <1>8, <1>9 DEF SessionNext

LEMMA SessionInvariance == SessionInit /\ [][SessionNext]_sessionVars => []SessionInv
BY SessionInitially, SessionStep, PTL

LEMMA SessionIsTyped == SessionInv => SessionTypeOK
<1> SUFFICES ASSUME SessionInv PROVE SessionTypeOK
  OBVIOUS
<1>1. \A i \in 1..Len(handler.todo) : handler.todo[i] \in WritesOf(handler.op)
  BY DEF SessionInv, TodoFits
<1> QED BY <1>1 DEF SessionInv, SessionShape, TodoFits, SessionTypeOK, WritesOf, Allowed

(* The records, the markers and the handlers keep their shape.             *)
THEOREM SessionTypes == SessionSpec => []SessionTypeOK
BY SessionIsTyped, SessionInvariance, PTL DEF SessionSpec

(* Whatever crashes, restores, lost answers and half-done resets come      *)
(* together, a device that Telegram holds for us is remembered on the      *)
(* disk, and a reset that found one blocks until it is gone.               *)
THEOREM TheDeviceIsNotForgotten == SessionSpec => []DeviceIsNotForgotten
<1>1. SessionInv => DeviceIsNotForgotten
  BY DEF SessionInv, DeviceFits, DeviceIsNotForgotten, SessionIsTracked, ResetIsRemembered
<1> QED BY <1>1, SessionInvariance, PTL DEF SessionSpec

-----------------------------------------------------------------------------
(***************************************************************************)
(* Route.                                                                  *)
(***************************************************************************)

(* A repair whose epoch is over, or is being ended, has been cancelled or  *)
(* has not read anything yet: a tick that is cancelled may still create    *)
(* one.                                                                    *)
EndedRepairsAreYoung ==
  /\ Repairing /\ repair.epoch # epoch => repair.at = "reading"
  /\ Revoked /\ Repairing /\ ~repair.cancelled => repair.at = "reading"
  /\ ~Revoked => ~repair.cancelled

EndsFit ==
  /\ Revoked => epoch < MaxEpochs
  /\ ends = "configure" => node = NoNode

(* Where the node and the child are while a repair holds run_lock.         *)
HoldingIsExclusive == repair.at \in Holding => tick = "idle"
ChildFollowsThePlace ==
  /\ repair.at \notin Holding => child \in {node, NoNode}
  /\ repair.at = "naming" => child = node
  /\ repair.at = "checking" => child = NoNode
  /\ repair.at \in {"restarting", "rechecking"} => child \in {node, NoNode} /\ node = repair.old

RouteInv ==
  RouteTypeOK /\ EndedRepairsAreYoung /\ EndsFit /\ HoldingIsExclusive /\ ChildFollowsThePlace

-----------------------------------------------------------------------------
LEMMA RouteInitially == RouteInit => RouteInv
<1> SUFFICES ASSUME RouteInit PROVE RouteInv
  OBVIOUS
<1>1. address \in [Hosts -> 0..MaxRotations]
  BY RouteAssumption DEF RouteInit
<1>2. PICK h \in Named : node = Current(h) /\ origin = h
  BY DEF RouteInit
<1>3. node \in Nodes /\ origin \in Named
  BY <1>1, <1>2 DEF Current, Nodes, Hosts
<1>4. /\ repair.at = "none" /\ repair.cancelled = FALSE
      /\ repair \in [at : Places, kind : {"manual", "reresolve"}, epoch : 0..MaxEpochs,
                     old : Nodes \cup {NoNode}, left : SUBSET Nodes,
                     tries : Nodes \cup {NoNode}, cancelled : BOOLEAN]
  BY RouteAssumption DEF RouteInit, NoRepair, Places
<1>5. /\ stall \in 0..StallTicks /\ epoch \in 0..MaxEpochs /\ faults \in 0..MaxFaults
      /\ child = NoNode /\ tick = "idle" /\ cooling = FALSE /\ ends = "none"
  BY RouteAssumption DEF RouteInit
<1>6. RouteTypeOK
  BY <1>1, <1>3, <1>4, <1>5 DEF RouteTypeOK
<1> QED BY <1>4, <1>5, <1>6 DEF RouteInv, EndedRepairsAreYoung, EndsFit, HoldingIsExclusive,
       ChildFollowsThePlace, Repairing, Revoked, Holding

(* The record of a repair, step by step.                                   *)
RepairRecord ==
  [at : Places, kind : {"manual", "reresolve"}, epoch : 0..MaxEpochs,
   old : Nodes \cup {NoNode}, left : SUBSET Nodes,
   tries : Nodes \cup {NoNode}, cancelled : BOOLEAN]

LEMMA NoRepairType == RouteTypeOK => NoRepair \in RepairRecord
BY RouteAssumption DEF RouteTypeOK, NoRepair, RepairRecord, Places, Holding

LEMMA CurrentType ==
  ASSUME RouteTypeOK, NEW h \in Hosts
  PROVE  Current(h) \in Nodes /\ OriginOf(Current(h)) \in Named \cup {"none"}
BY DEF RouteTypeOK, Current, Nodes, OriginOf

(* The end of a tick leaves the child and the node alone; a repair that it *)
(* creates has read nothing yet.                                           *)
LEMMA EndTickKeeps ==
  ASSUME RouteInv, NEW n \in 0..StallTicks, EndTick(n), child' \in {child, NoNode},
         faults' \in 0..MaxFaults, repair.at \notin Holding
  PROVE  RouteInv'
<1> USE DEF EndTick, Reresolves, RouteInv
<1>1. /\ repair.at # "none" => repair' = repair
      /\ repair' = repair \/ (repair'.at = "reading" /\ repair'.epoch = epoch /\ ~repair'.cancelled)
  BY DEF RouteTypeOK, NoRepair, Repairing
<1>2. repair' \in RepairRecord
  <2>1. CASE repair' = repair
    BY <2>1 DEF RouteTypeOK, RepairRecord
  <2>2. CASE repair' = [NoRepair EXCEPT !.at = "reading", !.kind = "reresolve", !.epoch = epoch]
    BY <2>2, NoRepairType DEF RouteTypeOK, RepairRecord, Places
  <2> QED BY <2>1, <2>2
<1>3. stall' \in 0..StallTicks /\ cooling' \in BOOLEAN
  <2>1. CASE Reresolves(n)
    BY <2>1, RouteAssumption DEF RouteTypeOK
  <2>2. CASE ~Reresolves(n)
    BY <2>2 DEF RouteTypeOK
  <2> QED BY <2>1, <2>2
<1>4. child' \in Nodes \cup {NoNode}
  BY DEF RouteTypeOK
<1>5. RouteTypeOK'
  BY <1>2, <1>3, <1>4 DEF RouteTypeOK, RepairRecord
<1>6. EndedRepairsAreYoung'
  BY <1>1 DEF EndedRepairsAreYoung, Repairing, Revoked
<1>7. EndsFit' /\ HoldingIsExclusive' /\ ChildFollowsThePlace'
  BY <1>1 DEF EndsFit, HoldingIsExclusive, ChildFollowsThePlace, Holding, Revoked
<1> QED BY <1>5, <1>6, <1>7

LEMMA TickStepKeeps == ASSUME RouteInv, TickStep, repair.at # "naming" PROVE RouteInv'
<1> USE DEF RouteInv
<1>0. /\ stall \in 0..StallTicks /\ faults \in 0..MaxFaults /\ 0 \in 0..StallTicks
      /\ (IF stall < StallTicks THEN stall + 1 ELSE stall) \in 0..StallTicks
      /\ Fault => faults' \in 0..MaxFaults
  BY RouteAssumption DEF RouteTypeOK, Fault
<1>1. CASE StartTick
  BY <1>1 DEF StartTick, RouteTypeOK, EndedRepairsAreYoung, EndsFit, HoldingIsExclusive,
              ChildFollowsThePlace, Repairing, Revoked
<1>2. CASE IdleTick
  <2>1. repair.at \notin Holding
    BY <1>2 DEF IdleTick, HoldingIsExclusive
  <2> QED BY <1>0, <1>2, <2>1, EndTickKeeps DEF IdleTick, NoFault
<1>3. CASE EnsureVpn
  <2>1. repair.at \notin Holding
    BY <1>3 DEF EnsureVpn, HoldingIsExclusive
  <2>2. CASE EndTick(stall) /\ UNCHANGED child /\ Fault
    BY <1>0, <2>1, <2>2, EndTickKeeps
  <2>3. CASE /\ child' = (IF child = NoNode THEN node ELSE child) /\ tick' = "talking"
             /\ NoFault /\ UNCHANGED <<address, node, origin, stall, cooling, repair, ends, epoch>>
    BY <2>1, <2>3 DEF NoFault, RouteTypeOK, EndedRepairsAreYoung, EndsFit, HoldingIsExclusive,
              ChildFollowsThePlace, Repairing, Revoked, Holding
  <2> QED BY <1>3, <2>2, <2>3 DEF EnsureVpn
<1>4. CASE Contact
  <2>1. repair.at \notin Holding
    BY <1>4 DEF Contact, HoldingIsExclusive
  <2> QED BY <1>0, <1>4, <2>1, EndTickKeeps DEF Contact, NoFault
<1>5. CASE CancelTick
  <2>1. repair.at \notin Holding
    BY <1>5 DEF CancelTick, HoldingIsExclusive
  <2> QED BY <1>0, <1>5, <2>1, EndTickKeeps DEF CancelTick, NoFault
<1> QED BY <1>1, <1>2, <1>3, <1>4, <1>5 DEF TickStep

-----------------------------------------------------------------------------
(* What all steps of a repair share: the record stays well formed, keeps   *)
(* its epoch and its cancellation or is given up, and a repair of an ended *)
(* epoch goes no further.                                                  *)
Proceeds ==
  /\ repair' \in RepairRecord
  /\ \/ repair' = NoRepair
     \/ /\ repair'.epoch = repair.epoch /\ repair'.cancelled = repair.cancelled
        /\ repair.at = "reading" => ~Stale /\ ~repair.cancelled

LEMMA RepairKeeps ==
  ASSUME RouteInv, Repairing, Keep, Proceeds,
         node' \in Nodes \cup {NoNode}, child' \in Nodes \cup {NoNode},
         origin' \in Named \cup {"none"}, cooling' \in BOOLEAN, faults' \in 0..MaxFaults,
         Stale => UNCHANGED node,
         repair'.at \in Holding => tick = "idle",
         ChildFollowsThePlace'
  PROVE  RouteInv'
<1> USE DEF RouteInv, Keep
<1>1. RouteTypeOK'
  BY DEF RouteTypeOK, Proceeds, RepairRecord
<1>2. EndedRepairsAreYoung'
  <2>1. CASE repair' = NoRepair
    <3>1. repair'.at = "none" /\ repair'.cancelled = FALSE
      BY <2>1 DEF NoRepair
    <3> QED BY <3>1 DEF EndedRepairsAreYoung, Repairing
  <2>2. CASE /\ repair'.epoch = repair.epoch /\ repair'.cancelled = repair.cancelled
             /\ repair.at = "reading" => ~Stale /\ ~repair.cancelled
    <3>1. /\ epoch' = epoch /\ ends' = ends /\ repair'.epoch = repair.epoch
          /\ repair'.cancelled = repair.cancelled
      BY <2>2
    <3>2. CASE repair.at = "reading"
      BY <2>2, <3>1, <3>2 DEF EndedRepairsAreYoung, Repairing, Revoked, Stale
    <3>3. CASE repair.at # "reading"
      BY <3>1, <3>3 DEF EndedRepairsAreYoung, Repairing, Revoked
    <3> QED BY <3>2, <3>3
  <2> QED BY <2>1, <2>2 DEF Proceeds
<1>3. EndsFit'
  BY DEF EndsFit, Stale, Revoked
<1>4. HoldingIsExclusive'
  BY DEF HoldingIsExclusive
<1> QED BY <1>1, <1>2, <1>3, <1>4

LEMMA RepairTypes ==
  ASSUME RouteInv
  PROVE  /\ repair \in RepairRecord /\ NoRepair \in RepairRecord
         /\ node \in Nodes \cup {NoNode} /\ child \in Nodes \cup {NoNode}
         /\ origin \in Named \cup {"none"} /\ cooling \in BOOLEAN /\ faults \in 0..MaxFaults
         /\ repair.old \in Nodes \cup {NoNode} /\ repair.tries \in Nodes \cup {NoNode}
         /\ repair.left \in SUBSET Nodes
         /\ Fault => faults' \in 0..MaxFaults
         /\ NoRepair.at = "none"
<1>1. repair \in RepairRecord /\ NoRepair \in RepairRecord /\ NoRepair.at = "none"
  BY NoRepairType DEF RouteInv, RouteTypeOK, RepairRecord, NoRepair
<1>2. Fault => faults' \in 0..MaxFaults
  BY RouteAssumption DEF RouteInv, RouteTypeOK, Fault
<1>3. /\ repair.old \in Nodes \cup {NoNode} /\ repair.tries \in Nodes \cup {NoNode}
      /\ repair.left \in SUBSET Nodes
  BY <1>1 DEF RepairRecord
<1> QED BY <1>1, <1>2, <1>3 DEF RouteInv, RouteTypeOK

LEMMA DoneKeeps ==
  ASSUME RouteInv, Repairing, Keep, Done, UNCHANGED <<node, origin>>, child' \in {node, NoNode},
         cooling' \in BOOLEAN, faults' \in 0..MaxFaults
  PROVE  RouteInv'
<1>1. Proceeds /\ repair'.at = "none"
  BY RepairTypes DEF Proceeds, Done
<1>2. ChildFollowsThePlace'
  BY <1>1 DEF ChildFollowsThePlace, Holding
<1> QED BY <1>1, <1>2, RepairKeeps, RepairTypes DEF Holding

LEMMA GotoProceeds ==
  ASSUME RouteInv, NEW p \in Places, Goto(p), repair.at # "reading"
  PROVE  Proceeds /\ repair'.at = p /\ repair'.old = repair.old
BY RepairTypes DEF Goto, Proceeds, RepairRecord

-----------------------------------------------------------------------------
(* Up to run_lock the repair only reads.                                   *)
LEMMA OfferProceeds ==
  ASSUME RouteInv, NEW offered \in SUBSET Nodes, Offer(offered), repair.at # "reading"
  PROVE  Proceeds /\ repair'.at \in {"none", "waiting"}
<1> USE DEF Offer, Done
<1>1. CASE Stale \/ repair.cancelled
  BY <1>1, RepairTypes DEF Proceeds
<1>2. CASE ~(Stale \/ repair.cancelled)
  BY <1>2, RepairTypes DEF Proceeds, RepairRecord, Places
<1> QED BY <1>1, <1>2

LEMMA WaitingKeeps ==
  ASSUME RouteInv, Repairing, Keep, Proceeds, repair.at \notin Holding, repair'.at \notin Holding,
         UNCHANGED <<node, origin, child>>, cooling' \in BOOLEAN, faults' \in 0..MaxFaults
  PROVE  RouteInv'
<1>1. ChildFollowsThePlace'
  BY DEF RouteInv, ChildFollowsThePlace, Holding
<1> QED BY <1>1, RepairKeeps, RepairTypes

LEMMA ReadingKeeps ==
  ASSUME RouteInv, ReadOrigin \/ Resolve \/ Fetch \/ NoRunLock
  PROVE  RouteInv'
<1> USE RepairTypes
<1>0. NoFault => faults' \in 0..MaxFaults
  BY DEF NoFault
<1>1. CASE ReadOrigin
  <2>1. Proceeds /\ repair'.at \in {"none", "resolving"}
    <3>1. CASE Done
      BY <3>1 DEF Done, Proceeds
    <3>2. CASE ~Stale /\ ~repair.cancelled
               /\ repair' = [repair EXCEPT !.at = "resolving", !.old = node]
      BY <3>2 DEF Proceeds, RepairRecord, Places
    <3> QED BY <1>1, <3>1, <3>2 DEF ReadOrigin
  <2> QED BY <1>0, <1>1, <2>1, WaitingKeeps DEF ReadOrigin, Holding, Repairing
<1>2. CASE Resolve
  <2>1. Proceeds /\ repair'.at \in {"none", "waiting"}
    <3>1. CASE Done
      BY <3>1 DEF Done, Proceeds
    <3>2. CASE origin # "none" /\ Offer({Current(origin)})
      <4>1. Current(origin) \in Nodes
        BY <3>2, CurrentType DEF RouteInv, Hosts
      <4> QED BY <1>2, <3>2, <4>1, OfferProceeds DEF Resolve
    <3> QED BY <1>2, <3>1, <3>2 DEF Resolve
  <2>2. cooling' \in BOOLEAN /\ faults' \in 0..MaxFaults
    BY <1>0, <1>2 DEF Resolve
  <2> QED BY <1>2, <2>1, <2>2, WaitingKeeps DEF Resolve, Holding, Repairing
<1>3. CASE Fetch
  <2>1. Proceeds /\ repair'.at \in {"none", "waiting"}
    <3>1. CASE Done
      BY <3>1 DEF Done, Proceeds
    <3>2. CASE \E offered \in SUBSET {Current(h) : h \in Hosts} : Offer(offered)
      <4>1. PICK offered \in SUBSET {Current(h) : h \in Hosts} : Offer(offered)
        BY <3>2
      <4>2. offered \in SUBSET Nodes
        BY CurrentType DEF RouteInv
      <4> QED BY <1>3, <4>1, <4>2, OfferProceeds DEF Fetch
    <3> QED BY <1>3, <3>1, <3>2 DEF Fetch
  <2> QED BY <1>0, <1>3, <2>1, WaitingKeeps DEF Fetch, Holding, Repairing
<1>4. CASE NoRunLock
  <2>1. Proceeds /\ repair'.at = "none" /\ cooling' \in BOOLEAN /\ faults' \in 0..MaxFaults
    BY <1>0, <1>4 DEF NoRunLock, Done, Proceeds
  <2> QED BY <1>4, <2>1, WaitingKeeps DEF NoRunLock, Holding, Repairing
<1> QED BY <1>1, <1>2, <1>3, <1>4

-----------------------------------------------------------------------------
(* From here to its end it holds run_lock, and no tick runs.               *)
LEMMA LockKeeps == ASSUME RouteInv, TakeRunLock PROVE RouteInv'
<1> USE RepairTypes DEF TakeRunLock
<1>1. CASE Done
  <2>1. child' = child /\ child \in {node, NoNode}
    BY <1>1 DEF Done, RouteInv, ChildFollowsThePlace, Holding
  <2> QED BY <1>1, <2>1, DoneKeeps DEF Repairing, NoFault
<1>2. CASE ~Done
  <2>1. /\ ~Stale /\ ~repair.cancelled
        /\ repair' = [repair EXCEPT !.at = "testing", !.old = node, !.left = @ \ {node}]
    BY <1>2
  <2>2. Proceeds /\ repair'.at = "testing"
    BY <2>1 DEF Proceeds, RepairRecord, Places, Holding
  <2>3. child' = NoNode
    BY <2>2
  <2>4. ChildFollowsThePlace'
    BY <2>2, <2>3 DEF ChildFollowsThePlace, Holding
  <2> QED BY <2>2, <2>3, <2>4, RepairKeeps DEF Repairing, NoFault
<1> QED BY <1>1, <1>2

LEMMA TestingKeeps ==
  ASSUME RouteInv, Repairing, Keep, Proceeds, repair.at \in Holding,
         repair'.at \in {"testing", "probing", "committing", "restoring"},
         UNCHANGED <<node, origin, cooling>>, child' \in Nodes \cup {NoNode},
         faults' \in 0..MaxFaults
  PROVE  RouteInv'
<1>1. ChildFollowsThePlace'
  BY DEF ChildFollowsThePlace, Holding
<1>2. tick = "idle"
  BY DEF RouteInv, HoldingIsExclusive
<1> QED BY <1>1, <1>2, RepairKeeps, RepairTypes

LEMMA TrialsKeep ==
  ASSUME RouteInv, TryNext \/ Probe \/ TestTimeout
  PROVE  RouteInv'
<1> USE RepairTypes
<1>0. NoFault => faults' \in 0..MaxFaults
  BY DEF NoFault
<1>1. CASE TryNext
  <2>1. CASE Goto("restoring") /\ UNCHANGED child /\ NoFault
    <3>1. Proceeds /\ repair'.at = "restoring"
      BY <1>1, <2>1, GotoProceeds DEF TryNext, Places, Holding
    <3> QED BY <1>0, <1>1, <2>1, <3>1, TestingKeeps DEF TryNext, Holding, Repairing
  <2>2. CASE \E c \in repair.left :
               /\ repair' = [repair EXCEPT !.at = "probing", !.tries = c, !.left = @ \ {c}]
               /\ \/ child' = c /\ NoFault
                  \/ child' = NoNode /\ Fault
    <3>1. PICK c \in repair.left :
               /\ repair' = [repair EXCEPT !.at = "probing", !.tries = c, !.left = @ \ {c}]
               /\ \/ child' = c /\ NoFault
                  \/ child' = NoNode /\ Fault
      BY <2>2
    <3>2. c \in Nodes
      OBVIOUS
    <3>3. Proceeds /\ repair'.at = "probing"
      BY <1>1, <3>1, <3>2 DEF TryNext, Proceeds, RepairRecord, Places, Holding
    <3> QED BY <1>0, <1>1, <3>1, <3>2, <3>3, TestingKeeps DEF TryNext, Holding, Repairing
  <2> QED BY <1>1, <2>1, <2>2 DEF TryNext
<1>2. CASE Probe
  <2>1. \E p \in {"testing", "committing", "restoring"} : Goto(p)
    BY <1>2 DEF Probe, Goto
  <2>2. PICK p \in {"testing", "committing", "restoring"} : Goto(p)
    BY <2>1
  <2>3. Proceeds /\ repair'.at = p
    BY <1>2, <2>2, GotoProceeds DEF Probe, Places, Holding
  <2> QED BY <1>0, <1>2, <2>3, TestingKeeps DEF Probe, Holding, Repairing
<1>3. CASE TestTimeout
  <2>1. Proceeds /\ repair'.at = "restoring"
    BY <1>3, GotoProceeds DEF TestTimeout, Places, Holding
  <2> QED BY <1>0, <1>3, <2>1, TestingKeeps DEF TestTimeout, Holding, Repairing
<1> QED BY <1>1, <1>2, <1>3

LEMMA CommitsKeep ==
  ASSUME RouteInv, CommitNode \/ CommitOrigin
  PROVE  RouteInv'
<1> USE RepairTypes
<1>0. NoFault => faults' \in 0..MaxFaults
  BY DEF NoFault
<1>1. CASE CommitNode
  <2>1. CASE UNCHANGED node /\ \E p \in {"testing", "restoring"} : Goto(p)
    <3>1. PICK p \in {"testing", "restoring"} : Goto(p)
      BY <2>1
    <3>2. Proceeds /\ repair'.at = p
      BY <1>1, <3>1, GotoProceeds DEF CommitNode, Places, Holding
    <3> QED BY <1>0, <1>1, <2>1, <3>2, TestingKeeps DEF CommitNode, Holding, Repairing
  <2>2. CASE ~Stale /\ child = repair.tries /\ node' = repair.tries /\ Goto("naming")
    <3>1. Proceeds /\ repair'.at = "naming"
      BY <1>1, <2>2, GotoProceeds DEF CommitNode, Places, Holding
    <3>2. ChildFollowsThePlace'
      BY <1>1, <2>2, <3>1 DEF CommitNode, ChildFollowsThePlace, Holding
    <3>3. tick = "idle"
      BY <1>1 DEF CommitNode, RouteInv, HoldingIsExclusive, Holding
    <3> QED BY <1>0, <1>1, <2>2, <3>1, <3>2, <3>3, RepairKeeps DEF CommitNode, Repairing
  <2> QED BY <1>1, <2>1, <2>2 DEF CommitNode
<1>2. CASE CommitOrigin
  <2>1. repair' = NoRepair /\ Proceeds /\ repair'.at = "none"
    BY <1>2 DEF CommitOrigin, Done, Proceeds
  <2>2. ChildFollowsThePlace'
    BY <1>2, <2>1 DEF CommitOrigin, RouteInv, ChildFollowsThePlace, Holding
  <2>3. origin' \in Named \cup {"none"}
    BY <1>2 DEF CommitOrigin, OriginOf
  <2> QED BY <1>0, <1>2, <2>1, <2>2, <2>3, RepairKeeps DEF CommitOrigin, Repairing, Holding
<1> QED BY <1>1, <1>2

LEMMA RestoresKeep ==
  ASSUME RouteInv, Restore \/ RestoreNode \/ RestoreChild \/ RestoreEnds
  PROVE  RouteInv'
<1> USE RepairTypes
<1>0. /\ NoFault => faults' \in 0..MaxFaults
      /\ repair.at \in Holding => tick = "idle"
      /\ ChildFollowsThePlace
  BY DEF NoFault, RouteInv, HoldingIsExclusive
<1>1. CASE Restore
  <2>1. Proceeds /\ repair'.at = "checking"
    BY <1>1, GotoProceeds DEF Restore, Places, Holding
  <2>2. ChildFollowsThePlace'
    BY <1>1, <2>1 DEF Restore, ChildFollowsThePlace, Holding
  <2> QED BY <1>0, <1>1, <2>1, <2>2, RepairKeeps DEF Restore, Repairing, Holding
<1>2. CASE RestoreNode
  <2>1. CASE Done /\ UNCHANGED node
    BY <1>0, <1>2, <2>1, DoneKeeps DEF RestoreNode, ChildFollowsThePlace, Repairing
  <2>2. CASE ~Stale /\ node' = repair.old /\ Goto("restarting")
    <3>1. Proceeds /\ repair'.at = "restarting" /\ repair'.old = repair.old
      BY <1>2, <2>2, GotoProceeds DEF RestoreNode, Places, Holding
    <3>2. ChildFollowsThePlace'
      BY <1>0, <1>2, <2>2, <3>1 DEF RestoreNode, ChildFollowsThePlace, Holding
    <3> QED BY <1>0, <1>2, <2>2, <3>1, <3>2, RepairKeeps DEF RestoreNode, Repairing, Holding
  <2> QED BY <1>2, <2>1, <2>2 DEF RestoreNode
<1>3. CASE RestoreChild
  <2>1. Proceeds /\ repair'.at = "rechecking" /\ repair'.old = repair.old
    BY <1>3, GotoProceeds DEF RestoreChild, Places, Holding
  <2>2. ChildFollowsThePlace'
    BY <1>0, <1>3, <2>1 DEF RestoreChild, ChildFollowsThePlace, Holding
  <2> QED BY <1>0, <1>3, <2>1, <2>2, RepairKeeps DEF RestoreChild, Repairing, Holding
<1>4. CASE RestoreEnds
  <2>1. child' \in {node, NoNode}
    BY <1>0, <1>4 DEF RestoreEnds, ChildFollowsThePlace
  <2> QED BY <1>0, <1>4, <2>1, DoneKeeps DEF RestoreEnds, Repairing
<1> QED BY <1>1, <1>2, <1>3, <1>4

-----------------------------------------------------------------------------
(* The ends of epochs.                                                     *)
LEMMA EndEpochKeeps ==
  ASSUME RouteInv, NEW op \in {"other", "replace_vpn", "revoke_and_reset", "configure"},
         EndEpoch(op)
  PROVE  RouteInv'
<1> USE RepairTypes DEF EndEpoch
<1>1. /\ repair' \in RepairRecord /\ repair'.at = repair.at /\ repair'.epoch = repair.epoch
      /\ repair'.old = repair.old /\ repair'.cancelled = Repairing
  BY DEF RepairRecord, Repairing
<1>2. RouteTypeOK'
  BY <1>1 DEF RouteInv, RouteTypeOK, RepairRecord
<1>3. EndedRepairsAreYoung'
  BY <1>1 DEF RouteInv, EndedRepairsAreYoung, Repairing, Revoked
<1>4. EndsFit'
  BY DEF RouteInv, RouteTypeOK, EndsFit, Revoked
<1>5. HoldingIsExclusive' /\ ChildFollowsThePlace'
  BY <1>1 DEF RouteInv, HoldingIsExclusive, ChildFollowsThePlace
<1> QED BY <1>2, <1>3, <1>4, <1>5 DEF RouteInv

(* A new epoch: whoever ends the old one has waited for its repair, unless *)
(* that has read nothing yet.                                              *)
LEMMA NewEpochKeeps ==
  ASSUME RouteInv, Closed, ends' = "none", epoch' = epoch + 1,
         node' \in Nodes \cup {NoNode}, origin' \in Named \cup {"none"}, child' \in {node', NoNode},
         stall' \in 0..StallTicks, cooling' \in BOOLEAN, UNCHANGED <<address, tick, faults>>,
         \/ repair' = repair
         \/ repair' \in RepairRecord /\ repair'.at = "fetching" /\ repair'.epoch = epoch + 1
              /\ ~repair'.cancelled
  PROVE  RouteInv'
<1> USE DEF RouteInv
<1>1. epoch' \in 0..MaxEpochs
  BY RouteAssumption DEF RouteTypeOK, EndsFit, Closed
<1>2. /\ repair' \in RepairRecord /\ repair'.at \in {"none", "reading", "fetching"}
      /\ ~repair'.cancelled
      /\ repair'.at \in {"none", "reading"} \/ repair'.epoch = epoch'
  BY RepairTypes DEF EndedRepairsAreYoung, Closed, Repairing
<1>3. child' \in Nodes \cup {NoNode}
  OBVIOUS
<1>4. RouteTypeOK'
  BY <1>1, <1>2, <1>3 DEF RouteTypeOK, RepairRecord
<1>5. EndedRepairsAreYoung' /\ EndsFit'
  BY <1>2 DEF EndedRepairsAreYoung, EndsFit, Repairing, Revoked
<1>6. HoldingIsExclusive' /\ ChildFollowsThePlace'
  BY <1>2 DEF HoldingIsExclusive, ChildFollowsThePlace, Holding
<1> QED BY <1>4, <1>5, <1>6

LEMMA AdminKeeps == ASSUME RouteInv, AdminStep PROVE RouteInv'
<1> USE RepairTypes
<1>0. stall \in 0..StallTicks /\ 0 \in 0..StallTicks
  BY RouteAssumption DEF RouteInv, RouteTypeOK
<1>1. CASE \E op \in {"other", "replace_vpn", "revoke_and_reset", "configure"} : EndEpoch(op)
  BY <1>1, EndEpochKeeps
<1>2. CASE OtherOperation
  BY <1>0, <1>2, NewEpochKeeps DEF OtherOperation, FreshEpoch
<1>3. CASE ReplaceVpn
  <2>1. CASE repair' = repair
    BY <1>0, <1>3, <2>1, NewEpochKeeps DEF ReplaceVpn, FreshEpoch
  <2>2. CASE repair' = [NoRepair EXCEPT !.at = "fetching", !.epoch = epoch + 1]
    <3>1. epoch + 1 \in 0..MaxEpochs
      BY <1>3, RouteAssumption DEF ReplaceVpn, Closed, RouteInv, RouteTypeOK, EndsFit
    <3>2. /\ repair' \in RepairRecord /\ repair'.at = "fetching" /\ repair'.epoch = epoch + 1
          /\ ~repair'.cancelled
      BY <2>2, <3>1 DEF RepairRecord, NoRepair, Places
    <3> QED BY <1>0, <1>3, <3>2, NewEpochKeeps DEF ReplaceVpn, FreshEpoch
  <2> QED BY <1>3, <2>1, <2>2 DEF ReplaceVpn
<1>4. CASE RevokeRoute
  BY <1>0, <1>4, NewEpochKeeps DEF RevokeRoute, FreshEpoch
<1>5. CASE ConfigureRoute
  <2>1. PICK h \in Hosts : /\ node' = Current(h) /\ origin' = OriginOf(Current(h))
                           /\ child' = Current(h)
    BY <1>5 DEF ConfigureRoute
  <2>2. Current(h) \in Nodes /\ OriginOf(Current(h)) \in Named \cup {"none"}
    BY CurrentType DEF RouteInv
  <2> QED BY <1>0, <1>5, <2>1, <2>2, NewEpochKeeps DEF ConfigureRoute
<1> QED BY <1>1, <1>2, <1>3, <1>4, <1>5 DEF AdminStep

-----------------------------------------------------------------------------
(* The world and the crash.                                                *)
LEMMA WorldKeeps == ASSUME RouteInv, World, repair.at # "naming" PROVE RouteInv'
<1> USE RepairTypes DEF RouteInv
<1>1. CASE CooldownEnds
  <2>1. RouteTypeOK'
    BY <1>1 DEF CooldownEnds, RouteTypeOK
  <2> QED BY <1>1, <2>1 DEF CooldownEnds, EndedRepairsAreYoung, EndsFit, HoldingIsExclusive,
              ChildFollowsThePlace, Repairing, Revoked
<1>2. CASE ChildDies
  <2>1. /\ child' = NoNode /\ faults' \in 0..MaxFaults
        /\ UNCHANGED <<address, node, origin, tick, stall, cooling, repair, ends, epoch>>
    BY <1>2 DEF ChildDies
  <2>2. RouteTypeOK'
    BY <2>1 DEF RouteTypeOK
  <2>3. EndedRepairsAreYoung' /\ EndsFit' /\ HoldingIsExclusive'
    BY <2>1 DEF EndedRepairsAreYoung, EndsFit, HoldingIsExclusive, Repairing, Revoked
  <2>4. ChildFollowsThePlace'
    BY <2>1 DEF ChildFollowsThePlace
  <2> QED BY <2>2, <2>3, <2>4
<1>3. ASSUME NEW h \in Hosts, Rotate(h) PROVE RouteInv'
  <2>1. address' \in [Hosts -> 0..MaxRotations]
    BY <1>3, RouteAssumption DEF Rotate, RouteTypeOK
  <2> QED BY <1>3, <2>1 DEF Rotate, RouteTypeOK, EndedRepairsAreYoung, EndsFit,
              HoldingIsExclusive, ChildFollowsThePlace, Repairing, Revoked
<1> QED BY <1>1, <1>2, <1>3 DEF World

LEMMA CrashKeeps == ASSUME RouteInv, RouteCrash PROVE RouteInv'
<1> USE RepairTypes DEF RouteInv, RouteCrash
<1>1. epoch' \in 0..MaxEpochs /\ 0 \in 0..StallTicks /\ faults' \in 0..MaxFaults
  BY RouteAssumption DEF RouteTypeOK
<1>2. repair' \in RepairRecord /\ repair'.at = "none" /\ repair'.cancelled = FALSE
  BY DEF NoRepair
<1>3. RouteTypeOK'
  BY <1>1, <1>2 DEF RouteTypeOK, RepairRecord
<1> QED BY <1>2, <1>3 DEF EndedRepairsAreYoung, EndsFit, HoldingIsExclusive,
              ChildFollowsThePlace, Repairing, Revoked, Holding

LEMMA RouteStep == RouteInv /\ [RouteNext]_routeVars => RouteInv'
<1> SUFFICES ASSUME RouteInv, [RouteNext]_routeVars PROVE RouteInv'
  OBVIOUS
<1>1. CASE CommitOrigin
  BY <1>1, CommitsKeep
<1>2. CASE RouteCrash
  BY <1>2, CrashKeeps
<1>3. CASE repair.at # "naming" /\ TickStep
  BY <1>3, TickStepKeeps
<1>4. CASE RepairStep
  BY <1>4, ReadingKeeps, LockKeeps, TrialsKeep, CommitsKeep, RestoresKeep DEF RepairStep
<1>5. CASE AdminStep
  BY <1>5, AdminKeeps
<1>6. CASE repair.at # "naming" /\ World
  BY <1>6, WorldKeeps
<1>7. CASE UNCHANGED routeVars
  BY <1>7 DEF routeVars, RouteInv, RouteTypeOK, EndedRepairsAreYoung, EndsFit,
              HoldingIsExclusive, ChildFollowsThePlace, Repairing, Revoked
<1> QED BY <1>1, <1>2, <1>3, <1>4, <1>5, <1>6, <1>7 DEF RouteNext

LEMMA RouteInvariance == RouteInit /\ [][RouteNext]_routeVars => []RouteInv
BY RouteInitially, RouteStep, PTL

(* The route's state is well typed, whatever repairs, ticks, ends of       *)
(* epochs and crashes come together.                                       *)
THEOREM RouteTypes == RouteSpec => []RouteTypeOK
<1>1. RouteInv => RouteTypeOK
  BY DEF RouteInv
<1> QED BY <1>1, RouteInvariance, PTL DEF RouteSpec

(* A tick of run_once never talks to Telegram over a node that a repair of *)
(* the Collector still has on trial.                                       *)
THEOREM TicksUseTheStoredNodeOnly == RouteSpec => []TicksUseTheStoredNode
<1>1. RouteInv => TicksUseTheStoredNode
  BY DEF RouteInv, HoldingIsExclusive, ChildFollowsThePlace, TicksUseTheStoredNode
<1> QED BY <1>1, RouteInvariance, PTL DEF RouteSpec

(* A repair whose epoch has ended changes neither the stored node nor its  *)
(* origin, nor the child, and no child crosses the end of an epoch.        *)
THEOREM EndedRepairsChangeNothing == RouteSpec => EndedRepairsAreInert
<1> DEFINE Inert == /\ repair.at # "none" /\ repair.epoch # epoch /\ epoch' = epoch
                         => UNCHANGED <<node, origin>> /\ (repair' # repair => UNCHANGED child)
                    /\ epoch' # epoch => (child' = NoNode \/ node = NoNode)
<1>1. RouteInv /\ [RouteNext]_routeVars => [Inert]_routeVars
  <2> SUFFICES ASSUME RouteInv, RouteNext PROVE Inert
    OBVIOUS
  <2>1. ASSUME repair.at # "none", repair.epoch # epoch, epoch' = epoch
        PROVE  UNCHANGED <<node, origin>> /\ (repair' # repair => UNCHANGED child)
    <3>1. repair.at = "reading" /\ Stale
      BY <2>1 DEF RouteInv, EndedRepairsAreYoung, Repairing, Stale
    <3>2. CASE TickStep
      BY <2>1, <3>2 DEF TickStep, StartTick, IdleTick, EnsureVpn, Contact, CancelTick, EndTick,
                        Reresolves, Repairing
    <3>3. CASE RepairStep
      BY <3>1, <3>3 DEF RepairStep, ReadOrigin, Resolve, Fetch, TakeRunLock, NoRunLock, TryNext,
                        Probe, CommitNode, TestTimeout, Restore, RestoreNode, RestoreChild,
                        RestoreEnds
    <3>4. CASE AdminStep
      BY <2>1, <3>4 DEF AdminStep, EndEpoch, OtherOperation, ReplaceVpn, RevokeRoute,
                        ConfigureRoute, FreshEpoch, RouteInv, RouteTypeOK
    <3>5. CASE World
      BY <3>5 DEF World, CooldownEnds, ChildDies, Rotate
    <3>6. ~CommitOrigin /\ ~RouteCrash
      BY <2>1, <3>1 DEF CommitOrigin, RouteCrash, RouteInv, RouteTypeOK
    <3> QED BY <3>2, <3>3, <3>4, <3>5, <3>6 DEF RouteNext
  <2>2. ASSUME epoch' # epoch PROVE child' = NoNode \/ node = NoNode
    <3>1. ~TickStep
      BY <2>2 DEF TickStep, StartTick, IdleTick, EnsureVpn, Contact, CancelTick, EndTick
    <3>2. ~RepairStep /\ ~CommitOrigin
      BY <2>2 DEF RepairStep, ReadOrigin, Resolve, Fetch, TakeRunLock, NoRunLock, TryNext,
                  Probe, CommitNode, TestTimeout, Restore, RestoreNode, RestoreChild,
                  RestoreEnds, CommitOrigin, Keep
    <3>3. ~World
      BY <2>2 DEF World, CooldownEnds, ChildDies, Rotate
    <3>4. CASE AdminStep
      BY <2>2, <3>4 DEF AdminStep, EndEpoch, OtherOperation, ReplaceVpn, RevokeRoute,
                        ConfigureRoute, FreshEpoch, Closed, RouteInv, EndsFit
    <3>5. CASE RouteCrash
      BY <3>5 DEF RouteCrash
    <3> QED BY <3>1, <3>2, <3>3, <3>4, <3>5 DEF RouteNext
  <2> QED BY <2>1, <2>2
<1> QED BY <1>1, RouteInvariance, PTL DEF RouteSpec, EndedRepairsAreInert
=============================================================================

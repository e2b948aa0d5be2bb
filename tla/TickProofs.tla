----------------------------- MODULE TickProofs -----------------------------
(***************************************************************************)
(* Proofs about three parts of a tick: Morning, for every set of chats,    *)
(* both attempt limits and any number of days and restarts; ModelGrant,    *)
(* for every length of the grant and of a lease, every gap between the     *)
(* clocks and every suspend; and Collect, for every set of chats, every    *)
(* size of a row and of the prompt, every limit of a scan and any number   *)
(* of messages and days.                                                   *)
(***************************************************************************)
EXTENDS Morning, ModelGrant, Collect, FiniteSetTheorems, TLAPS

-----------------------------------------------------------------------------
(***************************************************************************)
(* Morning.                                                                *)
(***************************************************************************)

(* The counters hold the cost of the last key that was counted; keys of    *)
(* the same chats come in the order of their days, so a key that differs   *)
(* from the counters' has cost nothing yet.                                *)
Costs(d, attempt, ticks) == spent[d].attempt = attempt /\ spent[d].ticks = ticks

KeysInv ==
  /\ locked # {} /\ tries.key[1] \subseteq locked /\ readDone[1] \subseteq locked
  /\ tries.key[2] <= day
  /\ pass # NoPass => /\ pass.key[1] = locked /\ pass.key[2] <= day
                      /\ tries.key[1] = locked => tries.key[2] <= pass.key[2]
  /\ readDone[1] = locked => tries.key[1] = locked /\ readDone[2] <= tries.key[2]

CostInv ==
  /\ tries.key[1] # locked => \A d \in 0..MaxDays : Costs(d, 0, 0)
  /\ tries.key[1] = locked =>
       /\ Costs(tries.key[2], tries.attempt, tries.ticks)
       /\ \A d \in 0..MaxDays : d > tries.key[2] => Costs(d, 0, 0)
  /\ \A d \in 0..MaxDays : spent[d].attempt <= MaxAttempts /\ spent[d].ticks <= MaxTicks

EarnedInv ==
  /\ Exhausted(tries) => readDone = tries.key
  /\ tries.key = ReadAckKey /\ readDone = tries.key => locked \subseteq confirmed \/ Exhausted(tries)

Shapes ==
  /\ day \in 0..MaxDays /\ window \in BOOLEAN /\ owed \in BOOLEAN /\ routed \in BOOLEAN
  /\ locked \subseteq MorningChats /\ awaiting \subseteq locked /\ confirmed \subseteq locked
  /\ restarts \in 0..MaxRestarts
PassShape == pass \in [at : {"none", "issuing", "marking"}, key : MorningKeys, answered : BOOLEAN]
CountShapes ==
  /\ readDone \in MorningKeys
  /\ tries \in [key : MorningKeys, attempt : 0..MaxAttempts, ticks : 0..MaxTicks]
  /\ spent \in [0..MaxDays -> [attempt : Nat, ticks : Nat]]

MorningInv == Shapes /\ PassShape /\ CountShapes /\ KeysInv /\ CostInv /\ EarnedInv

-----------------------------------------------------------------------------
LEMMA Keys ==
  ASSUME NEW k \in MorningKeys
  PROVE  k = <<k[1], k[2]>> /\ k[1] \subseteq MorningChats /\ k[2] \in 0..MaxDays
BY DEF MorningKeys

LEMMA NoKeyIsAKey == NoKey \in MorningKeys /\ NoKey[1] = {} /\ NoKey[2] = 0
BY MorningAssumption DEF NoKey, MorningKeys

LEMMA NoPassShape ==
  /\ NoPass \in [at : {"none", "issuing", "marking"}, key : MorningKeys, answered : BOOLEAN]
  /\ NoPass.at = "none"
<1>1. FALSE \in BOOLEAN
  BY Zenon
<1> QED
  BY <1>1, NoKeyIsAKey DEF NoPass

LEMMA NothingShape ==
  /\ Nothing \in [key : MorningKeys, attempt : 0..MaxAttempts, ticks : 0..MaxTicks]
  /\ Nothing.key = NoKey /\ ~Exhausted(Nothing)
BY NoKeyIsAKey, MorningAssumption DEF Nothing, Exhausted

LEMMA NoCostShape ==
  /\ NoCost \in [0..MaxDays -> [attempt : Nat, ticks : Nat]]
  /\ \A d \in 0..MaxDays : NoCost[d].attempt = 0 /\ NoCost[d].ticks = 0
BY DEF NoCost

LEMMA MorningInitially == MorningInit => MorningInv
<1> SUFFICES ASSUME MorningInit PROVE MorningInv
  OBVIOUS
<1>1. locked # {} /\ locked \subseteq MorningChats
  BY MorningAssumption DEF MorningInit
<1>2. Shapes
  <2>1. window \in BOOLEAN /\ owed \in BOOLEAN /\ routed \in BOOLEAN
    BY Zenon DEF MorningInit
  <2> QED
    BY <1>1, <2>1, MorningAssumption DEF MorningInit, Shapes
<1>3. PassShape /\ CountShapes
  BY NoPassShape, NothingShape, NoCostShape, NoKeyIsAKey DEF MorningInit, PassShape, CountShapes
<1>4. KeysInv
  BY <1>1, NothingShape, NoKeyIsAKey, MorningAssumption DEF MorningInit, KeysInv
<1>5. CostInv
  BY <1>1, NothingShape, NoKeyIsAKey, NoCostShape, MorningAssumption
  DEF MorningInit, CostInv, Costs
<1>6. EarnedInv
  BY <1>1, NothingShape, NoKeyIsAKey DEF MorningInit, EarnedInv, ReadAckKey
<1> QED
  BY <1>2, <1>3, <1>4, <1>5, <1>6 DEF MorningInv

(* A step that leaves the counters, their day and their chats alone.       *)
LEMMA CountersKept ==
  ASSUME MorningInv, UNCHANGED <<day, locked, readDone, tries, spent>>, confirmed \subseteq confirmed',
         Shapes', PassShape',
         pass' # NoPass => pass'.key = ReadAckKey \/ (pass # NoPass /\ pass'.key = pass.key)
  PROVE  MorningInv'
<1> USE DEF MorningInv
<1>1. CountShapes'
  BY DEF CountShapes
<1>2. KeysInv'
  BY DEF KeysInv, ReadAckKey, Shapes
<1>3. CostInv'
  BY DEF CostInv, Costs
<1>4. EarnedInv'
  BY DEF EarnedInv, ReadAckKey, Exhausted
<1> QED
  BY <1>1, <1>2, <1>3, <1>4

-----------------------------------------------------------------------------
LEMMA PassKeeps ==
  ASSUME MorningInv, StartPass \/ RunDigest \/ MarkIsDone \/ CancelPass
  PROVE  MorningInv'
<1>1. CASE StartPass
  <2>1. PassShape'
    <3>1. FALSE \in BOOLEAN
      BY Zenon
    <3>2. ReadAckKey \in MorningKeys
      BY DEF MorningInv, Shapes, ReadAckKey, MorningKeys
    <3> QED
      BY <1>1, <3>1, <3>2 DEF StartPass, PassShape
  <2>2. Shapes'
    BY <1>1 DEF StartPass, MorningInv, Shapes
  <2>3. pass'.key = ReadAckKey
    BY <1>1 DEF StartPass
  <2> QED
    BY <1>1, <2>1, <2>2, <2>3, CountersKept DEF StartPass
<1>2. CASE RunDigest
  <2>1. PICK heard \in {FALSE, routed}, outcome \in {"accepted", "refused", "broken"} :
          /\ owed' = (owed /\ (outcome # "accepted" \/ pass.key[2] # day))
          /\ pass' = IF outcome = "broken" THEN NoPass
                     ELSE [pass EXCEPT !.at = "marking", !.answered = heard]
    BY <1>2 DEF RunDigest
  <2>2. heard \in BOOLEAN /\ pass # NoPass
    BY <1>2, NoPassShape DEF RunDigest, MorningInv, Shapes
  <2>3. PassShape' /\ (pass' # NoPass => pass'.key = pass.key)
    BY <2>1, <2>2, NoPassShape DEF MorningInv, PassShape
  <2>4. owed' \in BOOLEAN
    <3>1. CASE owed'
      BY Zenon, <2>1, <3>1
    <3>2. CASE ~owed'
      BY Zenon, <2>1, <3>2
    <3> QED
      BY <3>1, <3>2
  <2>5. Shapes'
    BY <1>2, <2>4 DEF RunDigest, MorningInv, Shapes
  <2> QED
    BY <1>2, <2>2, <2>3, <2>5, CountersKept DEF RunDigest
<1>3. CASE MarkIsDone
  <2>1. PassShape' /\ Shapes'
    BY <1>3, NoPassShape DEF MarkIsDone, MorningInv, PassShape, Shapes
  <2> QED
    BY <1>3, <2>1, CountersKept DEF MarkIsDone
<1>4. CASE CancelPass
  <2>1. PassShape' /\ Shapes'
    BY <1>4, NoPassShape DEF CancelPass, MorningInv, PassShape, Shapes
  <2> QED
    BY <1>4, <2>1, CountersKept DEF CancelPass
<1> QED
  BY <1>1, <1>2, <1>3, <1>4

(* What a pass over a key does to the counters.                            *)
LEMMA CountedShape ==
  ASSUME MorningInv, pass # NoPass, readDone # pass.key, NEW answered \in BOOLEAN,
         NEW inc, inc = IF answered THEN 1 ELSE 0
  PROVE  LET t == Counted(pass.key, answered)
         IN /\ t \in [key : MorningKeys, attempt : 0..MaxAttempts, ticks : 0..MaxTicks]
            /\ t.key = pass.key
            /\ t.attempt = spent[pass.key[2]].attempt + inc
            /\ t.ticks = spent[pass.key[2]].ticks + 1
<1> DEFINE d == pass.key[2]
<1>0. /\ pass.key \in MorningKeys /\ tries.key \in MorningKeys /\ readDone \in MorningKeys
      /\ tries.attempt \in 0..MaxAttempts /\ tries.ticks \in 0..MaxTicks
  BY DEF MorningInv, PassShape, CountShapes
<1>1. pass.key[1] = locked /\ d \in 0..MaxDays /\ pass.key = <<locked, d>>
  BY <1>0, Keys DEF MorningInv, KeysInv
<1>2. inc \in {0, 1}
  OBVIOUS
<1>3. CASE tries.key = pass.key
  <2>1. ~Exhausted(tries)
    BY <1>3 DEF MorningInv, EarnedInv
  <2>2. tries.attempt + inc \in 0..MaxAttempts /\ tries.ticks + 1 \in 0..MaxTicks
    BY <2>1, <1>0, <1>2, MorningAssumption DEF Exhausted
  <2>3. Costs(d, tries.attempt, tries.ticks)
    BY <1>1, <1>3 DEF MorningInv, CostInv
  <2>4. Counted(pass.key, answered) =
          [tries EXCEPT !.ticks = tries.ticks + 1, !.attempt = tries.attempt + inc]
    BY <1>3 DEF Counted, MorningInv, CountShapes
  <2> QED
    BY <2>2, <2>3, <2>4, <1>3, <1>0 DEF Costs, MorningInv, CountShapes
<1>4. CASE tries.key # pass.key
  <2>1. Costs(d, 0, 0)
    <3>1. CASE tries.key[1] # locked
      BY <1>1, <3>1 DEF MorningInv, CostInv
    <3>2. CASE tries.key[1] = locked
      <4>1. tries.key[2] # d
        BY <1>0, <1>1, <1>4, <3>2, Keys
      <4>2. tries.key[2] <= d
        BY <3>2 DEF MorningInv, KeysInv
      <4>3. d > tries.key[2]
        BY <4>1, <4>2, <1>0, <1>1, Keys, MorningAssumption
      <4> QED
        BY <4>3, <3>2, <1>1 DEF MorningInv, CostInv
    <3> QED
      BY <3>1, <3>2
  <2>2. Counted(pass.key, answered) = [key |-> pass.key, attempt |-> inc, ticks |-> 1]
    <3>1. [Nothing EXCEPT !.key = pass.key] = [key |-> pass.key, attempt |-> 0, ticks |-> 0]
      BY DEF Nothing
    <3>2. 0 + 1 = 1 /\ 0 + inc = inc
      BY <1>2
    <3> DEFINE fresh == [key |-> pass.key, attempt |-> 0, ticks |-> 0]
    <3>3. Counted(pass.key, answered) =
            [fresh EXCEPT !.ticks = fresh.ticks + 1, !.attempt = fresh.attempt + inc]
      BY <1>4, <3>1 DEF Counted
    <3>4. fresh.ticks + 1 = 1 /\ fresh.attempt + inc = inc
      BY <3>2
    <3> QED
      BY <3>3, <3>4
  <2> QED
    BY <2>1, <2>2, <1>0, <1>2, MorningAssumption DEF Costs
<1> QED
  BY <1>3, <1>4

LEMMA MarkKeeps ==
  ASSUME MorningInv, RunMorningReadAck
  PROVE  MorningInv'
<1> DEFINE d == pass.key[2]
<1>1. PICK unconfirmed \in SUBSET locked, heard \in BOOLEAN :
        LET answered == pass.answered \/ heard
            counted == Counted(pass.key, answered)
        IN /\ tries' = counted
           /\ readDone' = IF unconfirmed = {} \/ Exhausted(counted) THEN pass.key ELSE readDone
           /\ confirmed' = IF pass.key[2] = day THEN confirmed \cup (locked \ unconfirmed)
                           ELSE confirmed
           /\ spent' = [spent EXCEPT ![pass.key[2]] =
                          [attempt |-> @.attempt + IF answered THEN 1 ELSE 0, ticks |-> @.ticks + 1]]
  BY DEF RunMorningReadAck
<1>2. PICK answered \in BOOLEAN : answered = (pass.answered \/ heard)
  <2>1. CASE pass.answered \/ heard
    BY <2>1
  <2>2. CASE ~(pass.answered \/ heard)
    BY <2>2
  <2> QED
    BY <2>1, <2>2
<1>3. PICK inc : inc = IF answered THEN 1 ELSE 0
  OBVIOUS
<1>4. pass # NoPass /\ readDone # pass.key /\ pass' = NoPass
      /\ UNCHANGED <<day, window, owed, locked, awaiting, routed, restarts>>
  BY NoPassShape DEF RunMorningReadAck
<1>5. /\ tries' \in [key : MorningKeys, attempt : 0..MaxAttempts, ticks : 0..MaxTicks]
      /\ tries'.key = pass.key
      /\ tries'.attempt = spent[d].attempt + inc /\ tries'.ticks = spent[d].ticks + 1
  BY <1>1, <1>2, <1>3, <1>4, CountedShape
<1>6. spent' = [spent EXCEPT ![d] = [attempt |-> tries'.attempt, ticks |-> tries'.ticks]]
  BY <1>1, <1>2, <1>3, <1>5
<1>7. readDone' = IF unconfirmed = {} \/ Exhausted(tries') THEN pass.key ELSE readDone
  BY <1>1
<1>8. pass.key \in MorningKeys /\ pass.key[1] = locked /\ d \in 0..MaxDays /\ d <= day
      /\ pass.key = <<locked, d>>
  BY <1>4, Keys DEF MorningInv, PassShape, KeysInv
<1>9. /\ \A e \in 0..MaxDays : e # d => spent'[e] = spent[e]
      /\ spent'[d].attempt = tries'.attempt /\ spent'[d].ticks = tries'.ticks
      /\ spent' \in [0..MaxDays -> [attempt : Nat, ticks : Nat]]
  BY <1>5, <1>6, <1>8, MorningAssumption DEF MorningInv, CountShapes
<1>10. Shapes' /\ PassShape'
  BY <1>1, <1>4, NoPassShape DEF MorningInv, Shapes, PassShape
<1>11. CountShapes'
  BY <1>5, <1>7, <1>8, <1>9 DEF MorningInv, CountShapes
<1>12. KeysInv'
  <2>1. locked' # {} /\ tries'.key[1] = locked' /\ tries'.key[2] = d /\ d <= day' /\ pass' = NoPass
    BY <1>4, <1>5, <1>8 DEF MorningInv, KeysInv
  <2>2. CASE readDone' = pass.key
    BY <1>4, <1>8, <2>1, <2>2, MorningAssumption DEF KeysInv
  <2>3. CASE readDone' = readDone
    <3>1. readDone[1] \subseteq locked /\ readDone[2] \in 0..MaxDays /\ tries.key[2] \in 0..MaxDays
      BY Keys DEF MorningInv, KeysInv, CountShapes
    <3>2. readDone[1] = locked => readDone[2] <= tries.key[2] /\ tries.key[2] <= d
      BY <1>4 DEF MorningInv, KeysInv
    <3>3. readDone[1] = locked => readDone[2] <= d
      BY <1>8, <3>1, <3>2, MorningAssumption
    <3> QED
      BY <1>4, <2>1, <2>3, <3>1, <3>3 DEF KeysInv
  <2> QED
    BY <1>7, <2>2, <2>3
<1>13. CostInv'
  <2>1. tries'.key[1] = locked /\ tries'.key[2] = d
    BY <1>5, <1>8
  <2>2. \A e \in 0..MaxDays : e > d => Costs(e, 0, 0)
    <3>1. CASE tries.key[1] # locked
      BY <3>1 DEF MorningInv, CostInv
    <3>2. CASE tries.key[1] = locked
      <4>1. tries.key[2] \in 0..MaxDays /\ tries.key[2] <= d
        BY <1>4, <3>2, Keys DEF MorningInv, KeysInv, CountShapes
      <4>2. \A e \in 0..MaxDays : e > d => e > tries.key[2]
        BY <1>8, <4>1, MorningAssumption
      <4> QED
        BY <3>2, <4>2 DEF MorningInv, CostInv
    <3> QED
      BY <3>1, <3>2
  <2>3. \A e \in 0..MaxDays : e > d => spent'[e].attempt = 0 /\ spent'[e].ticks = 0
    <3>1. \A e \in 0..MaxDays : e > d => e # d
      BY <1>8, MorningAssumption
    <3> QED
      BY <2>2, <3>1, <1>9 DEF Costs
  <2>4. \A e \in 0..MaxDays : spent'[e].attempt <= MaxAttempts /\ spent'[e].ticks <= MaxTicks
    <3>1. spent'[d].attempt <= MaxAttempts /\ spent'[d].ticks <= MaxTicks
      <4>1. tries'.attempt \in 0..MaxAttempts /\ tries'.ticks \in 0..MaxTicks
        BY <1>5
      <4>2. tries'.attempt <= MaxAttempts /\ tries'.ticks <= MaxTicks
        BY <4>1, MorningAssumption
      <4> QED
        BY <1>9, <4>2
    <3>2. \A e \in 0..MaxDays : spent[e].attempt <= MaxAttempts /\ spent[e].ticks <= MaxTicks
      BY DEF MorningInv, CostInv
    <3> QED
      BY <1>9, <3>1, <3>2
  <2> QED
    BY <1>4, <1>8, <1>9, <2>1, <2>3, <2>4 DEF CostInv, Costs
<1>14. EarnedInv'
  <2>1. Exhausted(tries') => readDone' = tries'.key
    BY <1>5, <1>7
  <2>2. ASSUME tries'.key = ReadAckKey', readDone' = tries'.key, ~Exhausted(tries')
        PROVE  locked' \subseteq confirmed'
    <3>1. d = day /\ unconfirmed = {}
      BY <1>4, <1>5, <1>7, <1>8, <2>2 DEF ReadAckKey
    <3> QED
      BY <1>1, <1>4, <3>1
  <2> QED
    BY <2>1, <2>2 DEF EarnedInv, Exhausted
<1> QED
  BY <1>10, <1>11, <1>12, <1>13, <1>14 DEF MorningInv

-----------------------------------------------------------------------------
(* The owner, the calendar, the route and the process.                     *)
LEMMA AddChatKeeps ==
  ASSUME MorningInv, NEW c \in MorningChats, AddChat(c)
  PROVE  MorningInv'
<1>1. /\ locked' = locked \cup {c} /\ c \notin locked /\ pass = NoPass /\ spent' = NoCost
      /\ UNCHANGED <<day, window, owed, routed, pass, readDone, tries, confirmed, restarts>>
      /\ awaiting' = {c}
  BY DEF AddChat
<1>2. Shapes' /\ PassShape' /\ CountShapes'
  BY <1>1, NoCostShape DEF MorningInv, Shapes, PassShape, CountShapes
<1>3. tries.key[1] # locked' /\ readDone[1] # locked'
  BY <1>1 DEF MorningInv, KeysInv
<1>4. KeysInv'
  BY <1>1, <1>3 DEF MorningInv, KeysInv
<1>5. CostInv'
  BY <1>1, <1>3, NoCostShape, MorningAssumption DEF CostInv, Costs
<1>6. EarnedInv'
  BY <1>1, <1>3 DEF MorningInv, EarnedInv, ReadAckKey, Exhausted
<1> QED
  BY <1>2, <1>4, <1>5, <1>6 DEF MorningInv

LEMMA WindowKeeps ==
  ASSUME MorningInv, MorningWindow
  PROVE  MorningInv'
<1>1. CASE ~window /\ window' = TRUE /\ UNCHANGED <<day, owed, confirmed>>
  <2>1. window' \in BOOLEAN
    BY Zenon, <1>1
  <2>2. Shapes' /\ PassShape'
    BY <1>1, <2>1 DEF MorningWindow, MorningInv, Shapes, PassShape
  <2> QED
    BY <1>1, <2>2, CountersKept DEF MorningWindow
<1>2. CASE /\ window /\ day < MaxDays
           /\ window' = FALSE /\ day' = day + 1 /\ owed' = TRUE /\ confirmed' = {}
  <2>1. window' \in BOOLEAN /\ owed' \in BOOLEAN
    BY Zenon, <1>2
  <2>2. UNCHANGED <<locked, awaiting, routed, pass, readDone, tries, spent, restarts>>
    BY DEF MorningWindow
  <2>3. Shapes' /\ PassShape' /\ CountShapes'
    BY <1>2, <2>1, <2>2, MorningAssumption DEF MorningInv, Shapes, PassShape, CountShapes
  <2>4. KeysInv'
    <3>1. pass # NoPass => pass.key[2] \in 0..MaxDays
      BY Keys DEF MorningInv, PassShape
    <3>2. tries.key[2] \in 0..MaxDays
      BY Keys DEF MorningInv, CountShapes
    <3> QED
      BY <1>2, <2>2, <3>1, <3>2, MorningAssumption DEF MorningInv, KeysInv, Shapes
  <2>5. CostInv'
    BY <2>2 DEF MorningInv, CostInv, Costs
  <2>6. EarnedInv'
    <3>1. tries.key[2] \in 0..MaxDays /\ tries.key[2] <= day /\ day \in 0..MaxDays
      BY Keys DEF MorningInv, CountShapes, KeysInv, Shapes
    <3>2. tries'.key # ReadAckKey'
      BY <1>2, <2>2, <3>1, MorningAssumption DEF ReadAckKey
    <3>3. Exhausted(tries)' => readDone' = tries'.key
      BY <2>2 DEF MorningInv, EarnedInv, Exhausted
    <3> QED
      BY <3>2, <3>3 DEF EarnedInv
  <2> QED
    BY <2>3, <2>4, <2>5, <2>6 DEF MorningInv
<1> QED
  BY <1>1, <1>2 DEF MorningWindow, WindowMoves

LEMMA MorningWorldKeeps ==
  ASSUME MorningInv, Baseline \/ RouteChanges \/ MorningRestart
  PROVE  MorningInv'
<1>1. CASE Baseline
  <2>1. Shapes' /\ PassShape'
    BY <1>1 DEF Baseline, MorningInv, Shapes, PassShape
  <2> QED
    BY <1>1, <2>1, CountersKept DEF Baseline
<1>2. CASE RouteChanges
  <2>1. routed' \in BOOLEAN
    BY Zenon, <1>2 DEF RouteChanges
  <2>2. Shapes' /\ PassShape'
    BY <1>2, <2>1 DEF RouteChanges, MorningInv, Shapes, PassShape
  <2> QED
    BY <1>2, <2>2, CountersKept DEF RouteChanges
<1>3. CASE MorningRestart
  <2>1. Shapes' /\ PassShape' /\ CountShapes'
    BY <1>3, NoPassShape, NothingShape, NoCostShape, NoKeyIsAKey, MorningAssumption
    DEF MorningRestart, MorningInv, Shapes, PassShape, CountShapes
  <2>2. locked' = locked /\ locked # {} /\ day' = day /\ day \in 0..MaxDays
    BY <1>3 DEF MorningRestart, MorningInv, KeysInv, Shapes
  <2>3. pass' = NoPass /\ readDone' = NoKey /\ tries' = Nothing /\ spent' = NoCost
    BY <1>3 DEF MorningRestart
  <2>4. KeysInv'
    BY <2>2, <2>3, NothingShape, NoKeyIsAKey, MorningAssumption DEF KeysInv
  <2>5. CostInv'
    BY <2>2, <2>3, NothingShape, NoKeyIsAKey, NoCostShape, MorningAssumption DEF CostInv, Costs
  <2>6. EarnedInv'
    BY <2>2, <2>3, NothingShape, NoKeyIsAKey DEF EarnedInv, ReadAckKey
  <2> QED
    BY <2>1, <2>4, <2>5, <2>6 DEF MorningInv
<1> QED
  BY <1>1, <1>2, <1>3

LEMMA MorningNextKeeps == MorningInv /\ [MorningNext]_morningVars => MorningInv'
<1> SUFFICES ASSUME MorningInv, [MorningNext]_morningVars PROVE MorningInv'
  OBVIOUS
<1>1. CASE StartPass \/ RunDigest \/ MarkIsDone \/ CancelPass
  BY <1>1, PassKeeps
<1>2. CASE RunMorningReadAck
  BY <1>2, MarkKeeps
<1>3. CASE \E c \in MorningChats : AddChat(c)
  BY <1>3, AddChatKeeps
<1>4. CASE MorningWindow
  BY <1>4, WindowKeeps
<1>5. CASE Baseline \/ RouteChanges \/ MorningRestart
  BY <1>5, MorningWorldKeeps
<1>6. CASE UNCHANGED morningVars
  <2>1. Shapes' /\ PassShape'
    BY <1>6 DEF morningVars, MorningInv, Shapes, PassShape
  <2> QED
    BY <1>6, <2>1, CountersKept DEF morningVars
<1> QED
  BY <1>1, <1>2, <1>3, <1>4, <1>5, <1>6 DEF MorningNext

-----------------------------------------------------------------------------
(* The mark of a day costs no more passes than the code's two limits, and  *)
(* the day is given up unconfirmed only when one of them is spent,         *)
(* whatever the calendar, the route, the owner and restarts do.            *)
THEOREM MorningMarksAreBounded == MorningSpec => []MorningIsBoundedAndEarned
<1>1. MorningInv => MorningIsBoundedAndEarned
  <2> SUFFICES ASSUME MorningInv, readDone = ReadAckKey, ~(locked \subseteq confirmed)
               PROVE  spent[day].attempt = MaxAttempts \/ spent[day].ticks = MaxTicks
    BY DEF MorningInv, CostInv, MorningIsBoundedAndEarned
  <2>1. readDone[1] = locked /\ readDone[2] = day /\ day \in 0..MaxDays
    BY DEF ReadAckKey, MorningInv, Shapes
  <2>2. tries.key \in MorningKeys /\ tries.key[1] = locked /\ day <= tries.key[2]
        /\ tries.key[2] <= day
    BY <2>1 DEF MorningInv, KeysInv, CountShapes
  <2>3. tries.key[2] = day
    BY <2>1, <2>2, Keys, MorningAssumption
  <2>4. tries.key = ReadAckKey
    BY <2>2, <2>3, Keys DEF ReadAckKey
  <2>5. Exhausted(tries)
    BY <2>4 DEF MorningInv, EarnedInv
  <2>6. tries.attempt \in 0..MaxAttempts /\ tries.ticks \in 0..MaxTicks
    BY DEF MorningInv, CountShapes
  <2>7. tries.attempt = MaxAttempts \/ tries.ticks = MaxTicks
    BY <2>5, <2>6, MorningAssumption DEF Exhausted
  <2>8. Costs(tries.key[2], tries.attempt, tries.ticks)
    BY <2>2 DEF MorningInv, CostInv
  <2> QED
    BY <2>3, <2>7, <2>8 DEF Costs
<1> QED
  BY <1>1, MorningInitially, MorningNextKeeps, PTL DEF MorningSpec

(* Every variable keeps its shape, for every value of the constants.       *)
THEOREM MorningTypesHold == MorningSpec => []MorningTypeOK
<1>1. MorningInv => MorningTypeOK
  BY DEF MorningInv, Shapes, PassShape, CountShapes, MorningTypeOK
<1> QED
  BY <1>1, MorningInitially, MorningNextKeeps, PTL DEF MorningSpec

-----------------------------------------------------------------------------
(***************************************************************************)
(* ModelGrant.                                                             *)
(***************************************************************************)

(* What has been sent at each place of the caller and of the worker.       *)
Prompts == [model : Models, answer : Answers \cup {"none"}]
Rejected == Len(sent) = 1 /\ sent[1] = [model |-> "primary", answer |-> "refused"]

GrantShape ==
  /\ grant \in [left : 0..MaxLeft, awake : 0..MaxLeft, asleep : 0..MaxNap]
  /\ jobLease \in [expires : Nat, active : BOOLEAN]
  /\ jobLease.expires <= grant.left
AskShape ==
  /\ ask \in [at : {"idle", "collecting", "granted", "waiting", "refused", "done", "over"},
              model : Models, chosen : Models]
  /\ helper \in {"idle", "mailbox", "tunnel", "connecting", "sent"}
  /\ reply \in Answers \cup {"none"} /\ ended \in BOOLEAN

SentInv ==
  /\ sent \in Seq(Prompts)
  /\ ask.at \in {"idle", "collecting"} => sent = <<>> /\ helper = "idle"
  /\ ask.at \in {"refused", "granted"} => Rejected /\ helper = "idle"
  /\ ask.at = "granted" => ask.model = "fallback"
  /\ helper \in {"mailbox", "tunnel", "connecting"} =>
       sent = <<>> \/ (Rejected /\ ask.model = "fallback")
  /\ helper = "sent" => /\ sent # <<>>
                        /\ ask.model # "fallback" => Len(sent) = 1 /\ sent[1].model = ask.model
  /\ Asking /\ reply # "none" => helper = "idle"
  /\ Asking /\ reply = "refused" /\ ask.model # "fallback" => Rejected

GrantInv == GrantShape /\ AskShape /\ SentInv

-----------------------------------------------------------------------------
LEMMA GrantInitially == GrantInit => GrantInv
<1> SUFFICES ASSUME GrantInit PROVE GrantInv
  OBVIOUS
<1>1. FALSE \in BOOLEAN
  BY Zenon
<1>2. GrantShape
  BY <1>1, ModelGrantAssumption DEF GrantInit, GrantShape, NoLease
<1>3. AskShape
  BY <1>1 DEF GrantInit, AskShape, NoAsk, Models
<1>4. SentInv
  BY DEF GrantInit, SentInv, NoAsk, Asking
<1> QED
  BY <1>2, <1>3, <1>4 DEF GrantInv

(* A grant and a lease cut from it.                                        *)
LEMMA TakeGrantKeeps ==
  ASSUME GrantInv, NEW left \in 1..MaxLeft, NEW model \in Models, TakeGrant(left, model)
  PROVE  GrantInv'
<1>1. FALSE \in BOOLEAN
  BY Zenon
<1>2. GrantShape'
  BY <1>1, ModelGrantAssumption DEF TakeGrant, GrantShape, NoLease
<1>3. AskShape'
  BY DEF TakeGrant, GrantInv, AskShape
<1>4. SentInv'
  BY DEF TakeGrant, SentInv, Asking
<1> QED
  BY <1>2, <1>3, <1>4 DEF GrantInv

LEMMA AskModelKeeps ==
  ASSUME GrantInv, AskModel
  PROVE  GrantInv'
<1>1. TRUE \in BOOLEAN
  BY Zenon
<1>2. GrantShape'
  <2>1. grant.left \in Nat /\ grant.awake \in Nat /\ grant' = grant
    BY ModelGrantAssumption DEF AskModel, GrantInv, GrantShape
  <2>2. CASE UNCHANGED jobLease
    BY <2>1, <2>2 DEF GrantInv, GrantShape
  <2>3. CASE /\ SecondsLeft # 0
             /\ jobLease' = [expires |-> grant.awake + Lesser(Budget, SecondsLeft), active |-> TRUE]
    <3>1. SecondsLeft = grant.left - grant.awake /\ SecondsLeft \in Nat
      BY <2>1, <2>3 DEF SecondsLeft
    <3>2. Lesser(Budget, SecondsLeft) \in Nat /\ Lesser(Budget, SecondsLeft) <= SecondsLeft
      BY <3>1, ModelGrantAssumption DEF Lesser
    <3>3. grant.awake + Lesser(Budget, SecondsLeft) \in Nat
          /\ grant.awake + Lesser(Budget, SecondsLeft) <= grant.left
      BY <2>1, <3>1, <3>2
    <3> QED
      BY <1>1, <2>1, <2>3, <3>3 DEF GrantInv, GrantShape
  <2> QED
    BY <2>2, <2>3 DEF AskModel
<1>3. AskShape'
  BY DEF AskModel, OverWith, GrantInv, AskShape
<1>4. SentInv'
  BY DEF AskModel, OverWith, GrantInv, AskShape, SentInv, Asking, Rejected
<1> QED
  BY <1>2, <1>3, <1>4 DEF GrantInv

-----------------------------------------------------------------------------
(* The worker's steps leave the caller and the grant alone.                *)
LEMMA HelperKeeps ==
  ASSUME GrantInv, HelperAdvances \/ SendPrompt \/ ReplyArrives \/ HelperStops
  PROVE  GrantInv'
<1>1. GrantShape'
  BY DEF HelperAdvances, SendPrompt, ReplyArrives, HelperStops, GrantInv, GrantShape
<1>2. AskShape'
  BY DEF HelperAdvances, HelperSteps, SendPrompt, ReplyArrives, HelperStops, GrantInv, AskShape,
         Answers
<1>3. SentInv'
  <2>1. CASE HelperAdvances
    BY <2>1 DEF HelperAdvances, HelperSteps, GrantInv, SentInv, Asking, Rejected
  <2>2. CASE SendPrompt
    <3> DEFINE prompt == [model |-> ask.model, answer |-> "none"]
    <3>1. prompt \in Prompts /\ sent \in Seq(Prompts)
      BY DEF Prompts, GrantInv, AskShape, SentInv
    <3>2. sent' = Append(sent, prompt) /\ helper = "connecting" /\ helper' = "sent"
          /\ UNCHANGED <<ask, reply>>
      BY <2>2 DEF SendPrompt
    <3>3. sent' \in Seq(Prompts) /\ sent' # <<>>
      BY <3>1, <3>2
    <3>4. ask.model # "fallback" => Len(sent') = 1 /\ sent'[1].model = ask.model
      <4>1. ask.model # "fallback" => sent = <<>>
        BY <3>2 DEF GrantInv, SentInv
      <4>2. sent = <<>> => Len(sent') = 1 /\ sent'[1] = prompt
        BY <3>1, <3>2
      <4> QED
        BY <4>1, <4>2
    <3> QED
      BY <3>2, <3>3, <3>4 DEF GrantInv, SentInv, Asking
  <2>3. CASE ReplyArrives
    <3>1. /\ helper = "sent" /\ helper' = "idle" /\ reply' \in Answers /\ UNCHANGED ask
          /\ sent' = [sent EXCEPT ![Len(sent)].answer = reply'] /\ ask.at = "waiting"
      BY <2>3 DEF ReplyArrives, Asking
    <3>2. sent \in Seq(Prompts) /\ Len(sent) \in 1..Len(sent)
      BY <3>1 DEF GrantInv, SentInv
    <3>3. [sent[Len(sent)] EXCEPT !.answer = reply'] \in Prompts
      <4>1. sent[Len(sent)] \in Prompts
        BY <3>2
      <4> QED
        BY <3>1, <4>1 DEF Prompts
    <3>4. sent' \in Seq(Prompts) /\ Len(sent') = Len(sent)
      BY <3>1, <3>2, <3>3
    <3>5. reply' = "refused" /\ ask.model # "fallback" =>
            Len(sent) = 1 /\ sent'[1] = [model |-> "primary", answer |-> "refused"]
      <4>1. SUFFICES ASSUME reply' = "refused", ask.model # "fallback"
                     PROVE  Len(sent) = 1
                            /\ sent'[1] = [model |-> "primary", answer |-> "refused"]
        OBVIOUS
      <4>2. Len(sent) = 1 /\ sent[1].model = ask.model /\ ask.model = "primary"
        BY <3>1, <4>1 DEF GrantInv, SentInv, AskShape, Models
      <4>3. sent'[1] = [sent[1] EXCEPT !.answer = "refused"] /\ sent[1] \in Prompts
        <5>1. sent[1] \in Prompts /\ 1 \in DOMAIN sent
          BY <3>2, <4>2
        <5> QED
          BY <3>1, <4>1, <4>2, <5>1
      <4> QED
        BY <4>2, <4>3 DEF Prompts
    <3> QED
      BY <3>1, <3>4, <3>5 DEF GrantInv, SentInv, Asking, Rejected
  <2>4. CASE HelperStops
    BY <2>4 DEF HelperStops, GrantInv, SentInv, Asking, Rejected
  <2> QED
    BY <2>1, <2>2, <2>3, <2>4
<1> QED
  BY <1>1, <1>2, <1>3 DEF GrantInv

-----------------------------------------------------------------------------
(* The caller, the end of the epoch and the clocks.                        *)
LEMMA GrantOthersKeep ==
  ASSUME GrantInv,
         \/ LeaseRunsOut \/ TakeReply \/ BeforeFallback \/ GrantEpochEnds \/ GrantEpochBegins
         \/ TimePasses \/ HostSleeps
  PROVE  GrantInv'
<1>1. GrantShape'
  <2>1. FALSE \in BOOLEAN
    BY Zenon
  <2>2. CASE LeaseRunsOut \/ TakeReply \/ GrantEpochEnds
    BY <2>1, <2>2 DEF LeaseRunsOut, TakeReply, GrantEpochEnds, GrantInv, GrantShape
  <2>3. CASE BeforeFallback \/ GrantEpochBegins
    BY <2>3 DEF BeforeFallback, GrantEpochBegins, GrantInv, GrantShape
  <2>4. CASE TimePasses \/ HostSleeps
    BY <2>4, ModelGrantAssumption DEF TimePasses, HostSleeps, GrantInv, GrantShape
  <2> QED
    BY <2>2, <2>3, <2>4
<1>2. AskShape'
  <2>1. FALSE \in BOOLEAN /\ TRUE \in BOOLEAN
    BY Zenon
  <2>2. CASE LeaseRunsOut \/ TakeReply \/ BeforeFallback
    BY <2>2 DEF LeaseRunsOut, TakeReply, BeforeFallback, OverWith, GrantInv, AskShape, Models
  <2>3. CASE GrantEpochEnds
    BY <2>1, <2>3 DEF GrantEpochEnds, OverWith, GrantInv, AskShape
  <2>4. CASE GrantEpochBegins
    BY <2>1, <2>4 DEF GrantEpochBegins, GrantInv, AskShape
  <2>5. CASE TimePasses \/ HostSleeps
    BY <2>5 DEF TimePasses, HostSleeps, GrantInv, AskShape
  <2> QED
    BY <2>2, <2>3, <2>4, <2>5
<1>3. SentInv'
  <2>1. CASE LeaseRunsOut
    BY <2>1 DEF LeaseRunsOut, OverWith, GrantInv, AskShape, SentInv, Asking, Rejected
  <2>2. CASE TakeReply
    BY <2>2 DEF TakeReply, OverWith, MayFallBack, GrantInv, AskShape, SentInv, Asking, Rejected
  <2>3. CASE BeforeFallback
    BY <2>3 DEF BeforeFallback, GrantInv, AskShape, SentInv, Asking, Rejected
  <2>4. CASE GrantEpochEnds
    BY <2>4 DEF GrantEpochEnds, OverWith, GrantInv, AskShape, SentInv, Asking, Rejected
  <2>5. CASE GrantEpochBegins \/ TimePasses \/ HostSleeps
    BY <2>5 DEF GrantEpochBegins, TimePasses, HostSleeps, GrantInv, SentInv, Asking, Rejected
  <2> QED
    BY <2>1, <2>2, <2>3, <2>4, <2>5
<1> QED
  BY <1>1, <1>2, <1>3 DEF GrantInv

LEMMA GrantNextKeeps == GrantInv /\ [GrantNext]_grantVars => GrantInv'
<1> SUFFICES ASSUME GrantInv, [GrantNext]_grantVars PROVE GrantInv'
  OBVIOUS
<1>1. CASE UNCHANGED grantVars
  BY <1>1 DEF grantVars, GrantInv, GrantShape, AskShape, SentInv, Asking, Rejected
<1>2. CASE GrantNext
  BY <1>2, TakeGrantKeeps, AskModelKeeps, HelperKeeps, GrantOthersKeep DEF GrantNext
<1> QED
  BY <1>1, <1>2

-----------------------------------------------------------------------------
(* What a step sends, and what it accepts.                                 *)
LEMMA SendsAreGranted ==
  ASSUME GrantInv, SendPrompt
  PROVE  /\ Real < grant.left
         /\ sent # <<>> => /\ Len(sent) = 1
                          /\ sent[1] = [model |-> "primary", answer |-> "refused"]
                          /\ ask.model = "fallback"
<1>1. Real < jobLease.expires /\ helper = "connecting"
  BY DEF SendPrompt, LeaseAlive
<1>2. Real < grant.left
  BY <1>1, ModelGrantAssumption DEF GrantInv, GrantShape, Real
<1> QED
  BY <1>1, <1>2 DEF GrantInv, SentInv, Rejected

LEMMA AnswersAreGranted ==
  ASSUME GrantInv, TakeReply, ask'.at = "done"
  PROVE  Real < grant.left + Drift /\ ~ended /\ reply \in {"digest", "quiet"}
<1>1. ~ended /\ SecondsLeft # 0 /\ reply \in {"digest", "quiet"}
  BY DEF TakeReply, OverWith, GrantInv, AskShape
<1>2. ~(grant.asleep > Drift) /\ ~(grant.awake >= grant.left)
  BY <1>1 DEF SecondsLeft, SuspendSeen
<1>3. grant.asleep \in Nat /\ grant.awake \in Nat /\ grant.left \in Nat
  BY ModelGrantAssumption DEF GrantInv, GrantShape
<1> QED
  BY <1>1, <1>2, <1>3, ModelGrantAssumption DEF Real

(* Only SendPrompt makes the prompts more, and only TakeReply ends an ask  *)
(* with an answer.                                                         *)
LEMMA OtherStepsSendNothing ==
  ASSUME GrantInv, [GrantNext]_grantVars
  PROVE  /\ Len(sent') > Len(sent) => SendPrompt
         /\ ask'.at = "done" /\ ask.at # "done" => TakeReply
<1>0. sent \in Seq(Prompts) /\ Len(sent) \in Nat
  BY DEF GrantInv, SentInv
<1>1. CASE \E left \in 1..MaxLeft, model \in Models : TakeGrant(left, model)
  BY <1>0, <1>1 DEF TakeGrant
<1>2. CASE AskModel
  BY <1>0, <1>2 DEF AskModel, OverWith, GrantInv, AskShape
<1>3. CASE HelperAdvances \/ HelperStops
  BY <1>0, <1>3 DEF HelperAdvances, HelperStops
<1>4. CASE ReplyArrives
  BY <1>0, <1>4 DEF ReplyArrives
<1>5. CASE LeaseRunsOut
  BY <1>0, <1>5 DEF LeaseRunsOut, OverWith, GrantInv, AskShape
<1>6. CASE BeforeFallback
  BY <1>0, <1>6 DEF BeforeFallback, GrantInv, AskShape
<1>7. CASE GrantEpochEnds
  BY <1>0, <1>7 DEF GrantEpochEnds, OverWith, GrantInv, AskShape
<1>8. CASE GrantEpochBegins \/ TimePasses \/ HostSleeps \/ UNCHANGED grantVars
  BY <1>0, <1>8 DEF GrantEpochBegins, TimePasses, HostSleeps, grantVars
<1>9. CASE SendPrompt
  BY <1>9 DEF SendPrompt
<1>10. CASE TakeReply
  BY <1>0, <1>10 DEF TakeReply
<1> QED
  BY <1>1, <1>2, <1>3, <1>4, <1>5, <1>6, <1>7, <1>8, <1>9, <1>10 DEF GrantNext

(* Whatever the length of the grant, however long the host sleeps: no      *)
(* prompt leaves after the grant is over, a second one leaves only to the  *)
(* fallback after a refusal, and an answer is used only in its own epoch   *)
(* and in time.                                                            *)
THEOREM EveryPromptIsGranted == GrantSpec => PromptsAreGranted
<1>1. GrantInv /\ [GrantNext]_grantVars =>
        /\ Len(sent') > Len(sent) =>
             /\ Real < grant.left
             /\ sent # <<>> => /\ Len(sent) = 1 /\ sent[1] = [model |-> "primary", answer |-> "refused"]
                              /\ ask.model = "fallback"
        /\ ask'.at = "done" /\ ask.at # "done" =>
             Real < grant.left + Drift /\ ~ended /\ reply \in {"digest", "quiet"}
  BY SendsAreGranted, AnswersAreGranted, OtherStepsSendNothing
<1> QED
  BY <1>1, GrantInitially, GrantNextKeeps, PTL DEF GrantSpec, PromptsAreGranted

(* Types, for every value of the constants.                                *)
THEOREM GrantTypesHold == GrantSpec => []GrantTypeOK
<1>1. GrantInv => GrantTypeOK
  <2> SUFFICES ASSUME GrantInv PROVE GrantTypeOK
    OBVIOUS
  <2>1. \A i \in 1..Len(sent) : sent[i] \in Prompts
    BY DEF GrantInv, SentInv
  <2> QED
    BY <2>1 DEF GrantInv, GrantShape, AskShape, Prompts, GrantTypeOK
<1> QED
  BY <1>1, GrantInitially, GrantNextKeeps, PTL DEF GrantSpec

-----------------------------------------------------------------------------
(***************************************************************************)
(* Collect.                                                                *)
(***************************************************************************)

Row == [day : 0..FinalDay, size : RowSizes]
LongShapes ==
  /\ logs \in [Feeds -> Seq(Row)] /\ today \in 0..FinalDay
  /\ joined \in [Feeds -> Never..FinalDay] /\ cursors \in [Feeds -> Nat]
  /\ issued \in Never..FinalDay /\ opening \in Never..FinalDay
  /\ told \in [Feeds -> SUBSET Nat]
RunShapes ==
  /\ stage \in {"idle", "first", "refill", "prompt"}
  /\ todo \subseteq LockedFeeds /\ exhausted \subseteq LockedFeeds
  /\ feed \in Feeds /\ fetching \in BOOLEAN /\ budget \in Nat /\ last \in Nat
  /\ cutoff \in [Feeds -> Nat] /\ lower \in [Feeds -> Nat] /\ through \in [Feeds -> Nat]
  /\ used \in [Feeds -> Nat] /\ selected \in [Feeds -> SUBSET Nat]
  /\ cutTo \in [Feeds -> Nat] /\ sold \in Nat /\ refill \in Nat

(* The logs are in the order of their days, and the cursors are in them.   *)
LogInv ==
  /\ \A c \in Feeds : \A i \in Ids(c) : logs[c][i].day <= today
  /\ \A c \in Feeds : \A i, j \in Ids(c) : i <= j => logs[c][i].day <= logs[c][j].day
  /\ \A c \in Feeds : joined[c] <= today /\ cursors[c] <= Len(logs[c]) /\ told[c] \subseteq Ids(c)

(* A zero cursor beside a checkpoint is that of a chat whose first message *)
(* came with the last issue or after it, or that was chosen since.         *)
HistoryInv ==
  /\ opening = Never <=> issued = Never
  /\ issued <= today
  /\ issued = Never => \A c \in Feeds : cursors[c] = 0
  /\ issued # Never =>
       \A c \in LockedFeeds : cursors[c] = 0 =>
         \A i \in Ids(c) : logs[c][i].day < joined[c] \/ logs[c][i].day >= issued

FetchIsOpen(c) == fetching /\ feed = c
IsScanned(c) == c \in LockedFeeds /\ (stage = "first" => c \notin todo)
PlaceOfRun ==
  /\ stage = "idle" => todo = {} /\ exhausted = {} /\ ~fetching /\ sold = 0 /\ used = Zero
  /\ stage # "idle" => issued < today /\ LockedFeeds # {}
  /\ stage = "first" => exhausted \cap todo = {}
  /\ stage = "refill" => exhausted # {} /\ todo \subseteq exhausted
  /\ stage = "prompt" => todo = {}
  /\ fetching => /\ stage \in {"first", "refill"} /\ feed \in LockedFeeds /\ feed \notin todo
                 /\ stage = "first" => feed \notin exhausted
                 /\ stage = "refill" => feed \in exhausted

(* What lies behind the range of a chat: text that is older than the       *)
(* window, text that was selected, and no text.                            *)
RangeInv(c) ==
  /\ cursors[c] <= lower[c] /\ lower[c] <= through[c] /\ through[c] <= cutoff[c]
  /\ \A i \in cursors[c] + 1 .. lower[c] : logs[c][i].day < NotBefore
  /\ \A i \in lower[c] + 1 .. Len(logs[c]) : logs[c][i].day >= NotBefore
  /\ \A i \in lower[c] + 1 .. through[c] : logs[c][i].size = 0 \/ i \in selected[c]
  /\ through[c] = 0 => used[c] = 0
  /\ through[c] = 0 /\ ~FetchIsOpen(c) =>
       cutoff[c] = 0 \/ (c \in exhausted /\ (stage = "first" \/ c \in todo))
ScanInv ==
  stage # "idle" =>
    /\ \A c \in Feeds :
         /\ cutoff[c] <= Len(logs[c]) /\ cursors[c] <= cutoff[c]
         /\ \A i \in cutoff[c] + 1 .. Len(logs[c]) : logs[c][i].day = today
         /\ IsScanned(c) => RangeInv(c)
         /\ ~IsScanned(c) => used[c] = 0
    /\ fetching => last <= cutoff[feed] /\ (last = 0 => cutoff[feed] = 0)

(* A chat that wanted more has rows that fill its share, or a first row    *)
(* that was cut to fit a share, or the next row would exceed it.           *)
Wanting(c) ==
  /\ through[c] < cutoff[c] /\ logs[c][through[c] + 1].size > 0
  /\ WithRow(used[c], logs[c][through[c] + 1].size) > Share
Served(c) == used[c] > 0 /\ (used[c] >= Share \/ cutTo[c] >= Share)
CrowdInv ==
  /\ \A c \in exhausted : Served(c) \/ Wanting(c)
  /\ fetching /\ stage = "first" => budget = Share
  /\ fetching /\ stage = "refill" /\ used[feed] = 0 => budget >= Share

(* What is sold and what is still promised fit the prompt together.        *)
Unspent == IF fetching THEN budget - used[feed] ELSE 0
Seated == RowFeeds \cup exhausted
BudgetInv ==
  /\ fetching => used[feed] <= budget
  /\ stage = "first" =>
       sold + Unspent + Cardinality(todo) * Share + Cardinality(DeferredFeeds) * Share
         + Newlines(Cardinality(LockedFeeds)) <= RowSpace
  /\ stage = "refill" =>
       sold + Unspent + Cardinality(todo) * refill + Cardinality(todo \cap DeferredFeeds) * Share
         + Newlines(Cardinality(Seated)) <= RowSpace
  /\ stage = "prompt" => sold + Newlines(Cardinality(Seated)) <= RowSpace

(* What the run keeps of a chat is within its log.                         *)
WithinLogs ==
  \A c \in Feeds : /\ cutoff[c] <= Len(logs[c]) /\ lower[c] <= Len(logs[c])
                   /\ through[c] <= Len(logs[c]) /\ selected[c] \subseteq Ids(c)

LongInv == LongShapes /\ LogInv /\ HistoryInv /\ TextIsReadOrReported
RunInv == RunShapes /\ PlaceOfRun /\ ScanInv /\ CrowdInv /\ BudgetInv
CollectInv == LongInv /\ RunInv

-----------------------------------------------------------------------------
LEMMA Division ==
  ASSUME NEW a \in Nat, NEW n \in Nat, n > 0
  PROVE  a \div n \in Nat /\ n * (a \div n) <= a
OBVIOUS

LEMMA FeedSets ==
  ASSUME NEW S \in SUBSET Feeds
  PROVE  IsFiniteSet(S) /\ Cardinality(S) \in Nat /\ Cardinality(S) <= Cardinality(Feeds)
         /\ (S # {} => Cardinality(S) > 0)
<1>1. IsFiniteSet(Feeds) BY CollectAssumption
<1>2. IsFiniteSet(S) /\ Cardinality(S) <= Cardinality(Feeds) BY <1>1, FS_Subset
<1> QED BY <1>2, FS_CardinalityType, FS_EmptySet

(* One feed less, and what it was promised is free.                        *)
LEMMA FeedLeaves ==
  ASSUME NEW S \in SUBSET Feeds, NEW c \in S, NEW q \in Nat
  PROVE  /\ Cardinality(S \ {c}) = Cardinality(S) - 1 /\ Cardinality(S \ {c}) \in Nat
         /\ Cardinality(S) * q = Cardinality(S \ {c}) * q + q
<1>1. /\ Cardinality(S \ {c}) = Cardinality(S) - 1 /\ Cardinality(S \ {c}) \in Nat
      /\ Cardinality(S) \in Nat
  BY FeedSets, FS_RemoveElement
<1>2. \A n, m \in Nat : m = n - 1 => n * q = m * q + q
  OBVIOUS
<1> QED BY <1>1, <1>2

LEMMA FeedComes ==
  ASSUME NEW S \in SUBSET Feeds, NEW c \in Feeds, c \notin S, NEW q \in Nat
  PROVE  Cardinality(S \cup {c}) * q = Cardinality(S) * q + q
<1> DEFINE T == S \cup {c}
<1>1. T \ {c} = S /\ T \in SUBSET Feeds /\ c \in T
  OBVIOUS
<1> HIDE DEF T
<1>2. Cardinality(T) * q = Cardinality(T \ {c}) * q + q BY <1>1, FeedLeaves
<1> QED BY <1>1, <1>2 DEF T

LEMMA NewlinesGrow ==
  ASSUME NEW m \in Nat, NEW n \in Nat, m <= n
  PROVE  Newlines(m) \in Nat /\ Newlines(n) \in Nat /\ Newlines(m) <= Newlines(n)
BY DEF Newlines, AtLeastZero

(* The equal shares and the separators fit the prompt, whichever of the    *)
(* two bounds decides the share.                                           *)
LEMMA SharesFit ==
  ASSUME LockedFeeds # {}
  PROVE  /\ Share \in Nat /\ Share > 0
         /\ Cardinality(LockedFeeds) * Share + Newlines(Cardinality(LockedFeeds)) <= RowSpace
<1> DEFINE n == Cardinality(LockedFeeds)
<1>1. LockedFeeds \in SUBSET Feeds BY DEF LockedFeeds
<1>2. /\ n \in Nat /\ n > 0 /\ n <= Cardinality(Feeds)
      /\ Cardinality(Feeds) \in Nat
  BY <1>1, FeedSets
<1> HIDE DEF n
<1>3. LeastShare \in Nat /\ LeastShare > 0 /\ RowSpace \in Nat BY CollectAssumption
<1>4. n * LeastShare + n - 1 <= RowSpace
  <2>1. \A k, m, q \in Nat : k <= m => k * q <= m * q
    OBVIOUS
  <2>2. n * LeastShare <= Cardinality(Feeds) * LeastShare
    BY <2>1, <1>2, <1>3
  <2>3. n * LeastShare \in Nat /\ Cardinality(Feeds) * LeastShare \in Nat
    BY <1>2, <1>3
  <2> QED BY <2>2, <2>3, <1>2, <1>3, LeastSharesFit
<1>5. Newlines(n) = n - 1 /\ RowSpace - Newlines(n) \in Nat
  <2>1. n * LeastShare \in Nat BY <1>2, <1>3
  <2> QED BY <1>2, <1>3, <1>4, <2>1 DEF Newlines, AtLeastZero
<1> DEFINE q == (RowSpace - Newlines(n)) \div n
<1>6. q \in Nat /\ n * q <= RowSpace - Newlines(n) BY <1>2, <1>5, Division
<1>7. Share = Larger(LeastShare, q) BY DEF Share, n
<1> HIDE DEF q
<1>8. CASE LeastShare > q
  <2>1. Share = LeastShare BY <1>7, <1>8 DEF Larger
  <2> QED BY <2>1, <1>2, <1>3, <1>4, <1>5 DEF n
<1>9. CASE ~(LeastShare > q)
  <2>1. Share = q BY <1>7, <1>9 DEF Larger
  <2>2. n * q \in Nat BY <1>2, <1>6
  <2> QED BY <2>1, <2>2, <1>9, <1>2, <1>3, <1>5, <1>6 DEF n
<1> QED BY <1>8, <1>9

LEMMA Window ==
  ASSUME LongShapes
  PROVE  /\ NotBefore \in Int /\ NotBefore < today
         /\ issued = Never => NotBefore = today - Lookback
         /\ issued # Never /\ issued < today => NotBefore <= issued
BY CollectAssumption DEF LongShapes, NotBefore, DigestLookback, AtLeastZero, Never

(* Share and window are those of the gate as long as nobody joins and the  *)
(* day and the checkpoint stay.                                            *)
LEMMA SameShare ==
  ASSUME UNCHANGED joined
  PROVE  LockedFeeds' = LockedFeeds /\ Share' = Share
BY DEF LockedFeeds, Share

LEMMA SameWindow ==
  ASSUME UNCHANGED <<today, issued>>
  PROVE  NotBefore' = NotBefore
BY DEF NotBefore, DigestLookback

LEMMA LockedAreFeeds == LockedFeeds \subseteq Feeds
BY DEF LockedFeeds

LEMMA SameLong ==
  ASSUME LongInv, UNCHANGED longVars
  PROVE  LongInv'
BY DEF LongInv, LongShapes, LogInv, HistoryInv, TextIsReadOrReported, longVars, Ids, LockedFeeds, Row

(* A run that is over leaves nothing to relate.                            *)
LEMMA NothingRuns ==
  ASSUME stage = "idle", todo = {}, feed \in Feeds, fetching = FALSE, budget = 0, last = 0,
         cutoff = Zero, lower = Zero, through = Zero, used = Zero,
         selected = [c \in Feeds |-> {}], cutTo = Zero, exhausted = {}, sold = 0, refill = 0
  PROVE  RunInv
<1>1. RunShapes BY DEF RunShapes, Zero
<1>2. PlaceOfRun BY DEF PlaceOfRun
<1>3. ScanInv /\ CrowdInv /\ BudgetInv BY DEF ScanInv, CrowdInv, BudgetInv
<1> QED BY <1>1, <1>2, <1>3 DEF RunInv

LEMMA NoFeedIsAFeed == NoFeed \in Feeds
BY CollectAssumption DEF NoFeed

LEMMA EndRunFits ==
  ASSUME EndRun
  PROVE  RunInv'
<1>1. RunShapes' BY NoFeedIsAFeed DEF RunShapes, Zero, EndRun
<1>2. PlaceOfRun' BY DEF PlaceOfRun, EndRun, Zero
<1>3. ScanInv' /\ CrowdInv' /\ BudgetInv' BY DEF ScanInv, CrowdInv, BudgetInv, EndRun
<1> QED BY <1>1, <1>2, <1>3 DEF RunInv

LEMMA CollectInitially == CollectInit => CollectInv
<1> SUFFICES ASSUME CollectInit PROVE CollectInv
  OBVIOUS
<1>1. LongShapes
  <2>1. <<>> \in Seq(Row) OBVIOUS
  <2> QED BY <2>1, CollectAssumption DEF CollectInit, LongShapes, Zero, Never
<1>2. \A c \in Feeds : Ids(c) = {} /\ cursors[c] = 0 /\ Len(logs[c]) = 0
  BY DEF CollectInit, Ids
<1>3. LogInv
  BY <1>2 DEF CollectInit, LogInv, Never
<1>4. HistoryInv /\ TextIsReadOrReported
  BY <1>2 DEF CollectInit, HistoryInv, TextIsReadOrReported, Never
<1>5. RunInv
  BY NothingRuns, NoFeedIsAFeed DEF CollectInit
<1> QED BY <1>1, <1>3, <1>4, <1>5 DEF CollectInv, LongInv

(* The open fetch: what it reads next is in the log and in the window.     *)
LEMMA NextMessage ==
  ASSUME CollectInv, Scanning
  PROVE  /\ feed \in LockedFeeds /\ feed \in Feeds /\ IsScanned(feed)
         /\ At \in Ids(feed) /\ At = through[feed] + 1 /\ At <= cutoff[feed]
         /\ Message.day >= NotBefore /\ Message.size \in Nat /\ Message.day \in 0..FinalDay
         /\ IsText <=> Message.size > 0
<1>1. fetching /\ feed \in LockedFeeds /\ feed \in Feeds /\ stage # "idle" /\ IsScanned(feed)
  BY LockedAreFeeds DEF CollectInv, RunInv, PlaceOfRun, Scanning, IsScanned
<1>2. /\ RangeInv(feed) /\ last <= cutoff[feed] /\ cutoff[feed] <= Len(logs[feed])
  BY <1>1 DEF CollectInv, RunInv, ScanInv
<1>3. /\ through[feed] \in Nat /\ last \in Nat /\ cutoff[feed] \in Nat /\ lower[feed] \in Nat
      /\ logs[feed] \in Seq(Row) /\ through[feed] < last
  BY <1>1 DEF CollectInv, RunInv, RunShapes, LongInv, LongShapes, Scanning
<1>4. At \in Ids(feed) /\ At <= cutoff[feed] /\ At \in lower[feed] + 1 .. Len(logs[feed])
  BY <1>2, <1>3 DEF At, Ids, RangeInv
<1>5. Message \in Row
  BY <1>3, <1>4 DEF Message, Ids
<1>6. Message.day >= NotBefore
  BY <1>2, <1>4 DEF RangeInv, Message
<1> QED BY <1>1, <1>4, <1>5, <1>6, CollectAssumption DEF At, Row, IsText

LEMMA PassOverKeeps ==
  ASSUME CollectInv, PassOver
  PROVE  CollectInv'
<1> DEFINE f == feed
<1>0. /\ Scanning /\ UNCHANGED longVars
      /\ through' = [through EXCEPT ![f] = At]
      /\ UNCHANGED <<stage, todo, feed, fetching, budget, last, cutoff, lower, used, selected,
                     cutTo, exhausted, sold, refill>>
  BY DEF PassOver
<1>1. /\ f \in LockedFeeds /\ f \in Feeds /\ IsScanned(f) /\ At \in Ids(f) /\ At = through[f] + 1
      /\ At <= cutoff[f] /\ Message.size = 0
  BY <1>0, NextMessage DEF PassOver
<1>2. LockedFeeds' = LockedFeeds /\ Share' = Share /\ NotBefore' = NotBefore
  BY <1>0, SameShare, SameWindow DEF longVars
<1>3. through[f] \in Nat /\ through'[f] = At /\ \A c \in Feeds : c # f => through'[c] = through[c]
  BY <1>0, <1>1 DEF CollectInv, RunInv, RunShapes
<1>4. RunShapes'
  BY <1>0, <1>1, <1>2, <1>3 DEF CollectInv, RunInv, RunShapes
<1>5. PlaceOfRun'
  BY <1>0, <1>2 DEF CollectInv, RunInv, PlaceOfRun, longVars
<1>6. ScanInv'
  <2>1. stage # "idle" /\ ScanInv /\ fetching
    BY <1>0 DEF CollectInv, RunInv, PlaceOfRun, Scanning
  <2>2. ASSUME NEW c \in Feeds, IsScanned(c) PROVE RangeInv(c)'
    <3>1. RangeInv(c) BY <2>1, <2>2 DEF ScanInv
    <3>2. CASE c # f
      BY <3>1, <3>2, <1>0, <1>2, <1>3 DEF RangeInv, FetchIsOpen, longVars
    <3>3. CASE c = f
      <4>1. lower[f] \in Nat /\ through[f] \in Nat
        BY <1>1 DEF CollectInv, RunInv, RunShapes
      <4>2. \A i \in lower[f] + 1 .. At : i = At \/ i \in lower[f] + 1 .. through[f]
        BY <4>1, <1>1
      <4> QED BY <3>1, <3>3, <4>1, <4>2, <1>0, <1>1, <1>2, <1>3 DEF RangeInv, FetchIsOpen, longVars, Message
    <3> QED BY <3>2, <3>3
  <2> QED BY <2>1, <2>2, <1>0, <1>2 DEF ScanInv, IsScanned, longVars
<1>7. CrowdInv'
  <2>1. ASSUME NEW c \in exhausted PROVE (Served(c) \/ Wanting(c))'
    <3>1. Served(c) \/ Wanting(c) BY DEF CollectInv, RunInv, CrowdInv
    <3>2. CASE c = f
      <4>1. ~Wanting(f) BY <1>1 DEF Wanting, Message
      <4> QED BY <3>1, <3>2, <4>1, <1>0, <1>2 DEF Served
    <3>3. CASE c # f
      <4>1. c \in Feeds BY LockedAreFeeds DEF CollectInv, RunInv, RunShapes
      <4> QED BY <3>1, <3>3, <4>1, <1>0, <1>2, <1>3 DEF Wanting, Served, WithRow, longVars
    <3> QED BY <3>2, <3>3
  <2> QED BY <2>1, <1>0, <1>2 DEF CollectInv, RunInv, CrowdInv
<1>8. BudgetInv'
  BY <1>0, <1>2 DEF CollectInv, RunInv, BudgetInv, Unspent, Seated, RowFeeds, DeferredFeeds
<1> QED BY <1>0, <1>4, <1>5, <1>6, <1>7, <1>8, SameLong DEF CollectInv, RunInv

LEMMA TakeRowKeeps ==
  ASSUME CollectInv, TakeRow
  PROVE  CollectInv'
<1> DEFINE f == feed
<1>0. PICK total \in Totals :
      /\ Scanning /\ IsText /\ (Fits \/ MayBeCut) /\ UNCHANGED longVars
      /\ used' = [used EXCEPT ![f] = total] /\ sold' = sold + total - used[f]
      /\ through' = [through EXCEPT ![f] = At]
      /\ selected' = [selected EXCEPT ![f] = @ \cup {At}]
      /\ cutTo' = IF Fits THEN cutTo ELSE [cutTo EXCEPT ![f] = budget]
      /\ UNCHANGED <<stage, todo, feed, fetching, budget, last, cutoff, lower, exhausted, refill>>
  BY DEF TakeRow
<1>1. /\ f \in LockedFeeds /\ f \in Feeds /\ IsScanned(f) /\ At \in Ids(f) /\ At = through[f] + 1
      /\ At <= cutoff[f] /\ Message.size \in Nat /\ Message.size > 0
  BY <1>0, NextMessage
<1>2. LockedFeeds' = LockedFeeds /\ Share' = Share /\ NotBefore' = NotBefore
  BY <1>0, SameShare, SameWindow DEF longVars
<1>3. /\ through[f] \in Nat /\ used[f] \in Nat /\ budget \in Nat /\ sold \in Nat /\ lower[f] \in Nat
      /\ fetching /\ stage \in {"first", "refill"} /\ LockedFeeds # {}
  BY <1>0, <1>1 DEF CollectInv, RunInv, RunShapes, PlaceOfRun, Scanning
<1>4. /\ through'[f] = At /\ used'[f] = total /\ selected'[f] = selected[f] \cup {At}
      /\ \A c \in Feeds : c # f => /\ through'[c] = through[c] /\ used'[c] = used[c]
                                   /\ selected'[c] = selected[c] /\ cutTo'[c] = cutTo[c]
      /\ cutTo'[f] = IF Fits THEN cutTo[f] ELSE budget
  BY <1>0, <1>1 DEF CollectInv, RunInv, RunShapes
<1>5. Share \in Nat /\ Share > 0
  BY <1>3, SharesFit
<1>6. /\ total \in Nat /\ total > 0 /\ total <= budget /\ used[f] <= total
      /\ f \in exhausted => total >= Share \/ cutTo'[f] >= Share
  <2>1. used[f] <= budget BY <1>3 DEF CollectInv, RunInv, BudgetInv
  <2>2. CASE Fits
    <3>1. /\ WithRow(used[f], Message.size) \in Nat /\ WithRow(used[f], Message.size) > 0
          /\ WithRow(used[f], Message.size) >= used[f]
      BY <1>1, <1>3 DEF WithRow
    <3>2. f \in exhausted => Served(f) \/ WithRow(used[f], Message.size) > Share
      BY <1>1 DEF CollectInv, RunInv, CrowdInv, Wanting, Message
    <3>3. total = WithRow(used[f], Message.size) BY <2>2 DEF Totals
    <3>4. cutTo'[f] = cutTo[f] BY <2>2, <1>4
    <3>5. total \in Nat /\ total > 0 /\ total <= budget /\ used[f] <= total
      BY <2>2, <3>1, <3>3, <1>3 DEF Fits
    <3> QED BY <3>2, <3>3, <3>4, <3>5, <1>3, <1>5 DEF Served
  <2>3. CASE ~Fits
    <3>1. stage = "refill" /\ used[f] = 0 BY <2>3, <1>0 DEF MayBeCut
    <3>2. budget >= Share BY <3>1, <1>3 DEF CollectInv, RunInv, CrowdInv
    <3>3. total \in 1..budget BY <2>3 DEF Totals
    <3>4. cutTo'[f] = budget BY <2>3, <1>4
    <3> QED BY <3>1, <3>2, <3>3, <3>4, <1>3
  <2> QED BY <2>2, <2>3
<1>7. RunShapes'
  <2>1. sold' \in Nat BY <1>0, <1>3, <1>6
  <2> QED BY <2>1, <1>0, <1>1, <1>2, <1>3, <1>6 DEF CollectInv, RunInv, RunShapes
<1>8. PlaceOfRun'
  BY <1>0, <1>2, <1>3 DEF CollectInv, RunInv, PlaceOfRun, longVars
<1>9. ScanInv'
  <2>1. stage # "idle" /\ ScanInv
    BY <1>3 DEF CollectInv, RunInv
  <2>2. ASSUME NEW c \in Feeds, IsScanned(c) PROVE RangeInv(c)'
    <3>1. RangeInv(c) BY <2>1, <2>2 DEF ScanInv
    <3>2. CASE c # f
      BY <3>1, <3>2, <1>0, <1>2, <1>4 DEF RangeInv, FetchIsOpen, longVars
    <3>3. CASE c = f
      <4>2. \A i \in lower[f] + 1 .. At : i = At \/ i \in lower[f] + 1 .. through[f]
        BY <1>1, <1>3
      <4> QED BY <3>1, <3>3, <4>2, <1>0, <1>1, <1>2, <1>3, <1>4 DEF RangeInv, FetchIsOpen, longVars
    <3> QED BY <3>2, <3>3
  <2>3. \A c \in Feeds : ~IsScanned(c) => c # f BY <1>1
  <2> QED BY <2>1, <2>2, <2>3, <1>0, <1>2, <1>4 DEF ScanInv, IsScanned, longVars
<1>10. CrowdInv'
  <2>1. ASSUME NEW c \in exhausted PROVE (Served(c) \/ Wanting(c))'
    <3>1. Served(c) \/ Wanting(c) BY DEF CollectInv, RunInv, CrowdInv
    <3>2. CASE c = f BY <3>2, <1>2, <1>4, <1>6 DEF Served
    <3>3. CASE c # f
      <4>1. c \in Feeds BY LockedAreFeeds DEF CollectInv, RunInv, RunShapes
      <4> QED BY <3>1, <3>3, <4>1, <1>0, <1>2, <1>4 DEF Wanting, Served, WithRow, longVars
    <3> QED BY <3>2, <3>3
  <2> QED BY <2>1, <1>0, <1>2, <1>4, <1>6 DEF CollectInv, RunInv, CrowdInv
<1>11. BudgetInv'
  <2>1. /\ used'[f] <= budget /\ fetching' /\ budget' = budget /\ used[f] <= budget
        /\ sold' + Unspent' = sold + Unspent
    <3>1. used[f] <= budget BY <1>3 DEF CollectInv, RunInv, BudgetInv
    <3> QED BY <3>1, <1>0, <1>3, <1>4, <1>6 DEF Unspent
  <2>2. CASE stage = "first"
    <3>1. f \notin exhausted BY <1>3, <2>2 DEF CollectInv, RunInv, PlaceOfRun
    <3>2. exhausted \subseteq Feeds BY LockedAreFeeds DEF CollectInv, RunInv, RunShapes
    <3>3. DeferredFeeds' = DeferredFeeds BY <1>0, <1>4, <3>1, <3>2 DEF DeferredFeeds
    <3> QED BY <2>1, <2>2, <3>3, <1>0, <1>2 DEF CollectInv, RunInv, BudgetInv
  <2>3. CASE stage = "refill"
    <3>1. f \in exhausted /\ f \notin todo BY <1>3, <2>3 DEF CollectInv, RunInv, PlaceOfRun
    <3>2. exhausted \subseteq Feeds /\ todo \subseteq Feeds /\ LockedFeeds \subseteq Feeds
      BY LockedAreFeeds DEF CollectInv, RunInv, RunShapes
    <3>3. (todo \cap DeferredFeeds)' = todo \cap DeferredFeeds
      BY <1>0, <1>4, <3>1, <3>2 DEF DeferredFeeds
    <3>4. Seated' = Seated
      BY <1>0, <1>2, <1>4, <3>1, <3>2 DEF Seated, RowFeeds
    <3> QED BY <2>1, <2>3, <3>3, <3>4, <1>0, <1>2 DEF CollectInv, RunInv, BudgetInv
  <2> QED BY <2>2, <2>3, <1>3
<1> QED BY <1>0, <1>7, <1>8, <1>9, <1>10, <1>11, SameLong DEF CollectInv, RunInv

LEMMA EndFetchKeeps ==
  ASSUME CollectInv, EndFetch
  PROVE  CollectInv'
<1> DEFINE f == feed
           refused == Scanning /\ IsText /\ ~Fits /\ ~MayBeCut
<1>0. /\ fetching /\ fetching' = FALSE /\ feed' = NoFeed /\ budget' = 0 /\ last' = 0
      /\ UNCHANGED longVars
      /\ UNCHANGED <<stage, todo, cutoff, lower, through, used, selected, cutTo, sold, refill>>
      /\ exhausted' = IF refused /\ stage = "first" THEN exhausted \cup {f} ELSE exhausted
      /\ refused \/ ~Scanning
  BY DEF EndFetch
<1>1. /\ f \in LockedFeeds /\ f \in Feeds /\ IsScanned(f) /\ stage \in {"first", "refill"} /\ f \notin todo
      /\ LockedFeeds # {} /\ NoFeed \in Feeds
  BY <1>0, LockedAreFeeds, NoFeedIsAFeed DEF CollectInv, RunInv, PlaceOfRun, IsScanned
<1>2. LockedFeeds' = LockedFeeds /\ Share' = Share /\ NotBefore' = NotBefore
  BY <1>0, SameShare, SameWindow DEF longVars
<1>3. /\ through[f] \in Nat /\ used[f] \in Nat /\ budget \in Nat /\ sold \in Nat /\ last \in Nat
      /\ exhausted \in SUBSET Feeds /\ todo \in SUBSET Feeds /\ exhausted' \in SUBSET Feeds
      /\ Share \in Nat /\ Share > 0 /\ used[f] <= budget
  <2>1. used[f] <= budget BY <1>0 DEF CollectInv, RunInv, BudgetInv
  <2>2. Share \in Nat /\ Share > 0 BY <1>1, SharesFit
  <2> QED BY <2>1, <2>2, <1>0, <1>1, LockedAreFeeds DEF CollectInv, RunInv, RunShapes
<1>4. refused =>
        /\ Wanting(f) \/ stage = "refill"
        /\ stage = "first" \/ used[f] > 0
  <2> SUFFICES ASSUME refused PROVE /\ Wanting(f) \/ stage = "refill"
                                    /\ stage = "first" \/ used[f] > 0
    OBVIOUS
  <2>1. /\ At = through[f] + 1 /\ At <= cutoff[f] /\ Message.size > 0 /\ Message.size \in Nat
    BY NextMessage
  <2>2. stage = "first" => budget = Share BY <1>0 DEF CollectInv, RunInv, CrowdInv
  <2>3. WithRow(used[f], Message.size) > budget
    BY <1>3, <2>1 DEF Fits, WithRow
  <2>4. cutoff[f] \in Nat BY <1>1 DEF CollectInv, RunInv, RunShapes
  <2>5. stage = "first" => Wanting(f)
    BY <2>1, <2>2, <2>3, <2>4, <1>3 DEF Wanting, Message
  <2> QED BY <2>5, <1>1, <1>3 DEF MayBeCut
<1>5. RunShapes'
  BY <1>0, <1>1, <1>2 DEF CollectInv, RunInv, RunShapes
<1>6. PlaceOfRun'
  BY <1>0, <1>1, <1>2 DEF CollectInv, RunInv, PlaceOfRun, longVars
<1>7. ScanInv'
  <2>1. stage # "idle" /\ ScanInv
    BY <1>1 DEF CollectInv, RunInv
  <2>2. ASSUME NEW c \in Feeds, IsScanned(c) PROVE RangeInv(c)'
    <3>1. RangeInv(c) BY <2>1, <2>2 DEF ScanInv
    <3>2. CASE c # f
      BY <3>1, <3>2, <1>0, <1>2 DEF RangeInv, FetchIsOpen, longVars
    <3>3. CASE c = f
      <4>1. through[f] = 0 => cutoff[f] = 0 \/ (f \in exhausted' /\ stage = "first")
        <5> SUFFICES ASSUME through[f] = 0
                     PROVE  cutoff[f] = 0 \/ (f \in exhausted' /\ stage = "first")
          OBVIOUS
        <5>1. CASE ~Scanning
          <6>1. last = 0 BY <5>1, <1>0, <1>3 DEF Scanning
          <6> QED BY <6>1, <2>1, <1>0 DEF ScanInv
        <5>2. CASE refused
          <6>1. used[f] = 0 BY <3>1, <3>3 DEF RangeInv
          <6> QED BY <6>1, <5>2, <1>0, <1>4
        <5> QED BY <5>1, <5>2, <1>0
      <4> QED BY <3>1, <3>3, <4>1, <1>0, <1>2 DEF RangeInv, longVars
    <3> QED BY <3>2, <3>3
  <2> QED BY <2>1, <2>2, <1>0, <1>2 DEF ScanInv, IsScanned, longVars
<1>8. CrowdInv'
  <2>1. ASSUME NEW c \in exhausted' PROVE (Served(c) \/ Wanting(c))'
    <3>1. Served(c) \/ Wanting(c)
      BY <1>0, <1>4 DEF CollectInv, RunInv, CrowdInv
    <3> QED BY <3>1, <1>0, <1>2 DEF Wanting, Served, WithRow, longVars
  <2> QED BY <2>1, <1>0, <1>2 DEF CollectInv, RunInv, CrowdInv
<1>9. BudgetInv'
  <2>1. Unspent' = 0 /\ Unspent = budget - used[f] /\ Unspent \in Nat /\ ~fetching'
    BY <1>0, <1>3 DEF Unspent
  <2>2. CASE stage = "first"
    <3>1. f \notin exhausted /\ budget = Share
      BY <1>0, <2>2 DEF CollectInv, RunInv, PlaceOfRun, CrowdInv
    <3>2. sold + Unspent + Cardinality(todo) * Share + Cardinality(DeferredFeeds) * Share
            + Newlines(Cardinality(LockedFeeds)) <= RowSpace
      BY <2>2 DEF CollectInv, RunInv, BudgetInv
    <3>3. sold + Cardinality(todo) * Share + Cardinality(DeferredFeeds') * Share
            + Newlines(Cardinality(LockedFeeds)) <= RowSpace
      <4>1. DeferredFeeds \in SUBSET Feeds /\ f \notin DeferredFeeds
        BY <1>3, <3>1 DEF DeferredFeeds
      <4>2. /\ Cardinality(todo) * Share \in Nat /\ Cardinality(DeferredFeeds) * Share \in Nat
            /\ Newlines(Cardinality(LockedFeeds)) \in Nat /\ RowSpace \in Nat
        <5>1. Cardinality(todo) \in Nat /\ Cardinality(DeferredFeeds) \in Nat
              /\ Cardinality(LockedFeeds) \in Nat
          BY <4>1, <1>3, FeedSets, LockedAreFeeds
        <5> QED BY <5>1, <1>3, NewlinesGrow, CollectAssumption
      <4>3. CASE DeferredFeeds' = DeferredFeeds
        BY <4>3, <4>2, <3>2, <2>1, <1>3
      <4>4. CASE DeferredFeeds' = DeferredFeeds \cup {f} /\ used[f] = 0
        <5>1. Cardinality(DeferredFeeds') * Share = Cardinality(DeferredFeeds) * Share + Share
          BY <4>1, <4>4, <1>1, <1>3, FeedComes
        <5> QED BY <5>1, <4>4, <4>2, <3>2, <2>1, <1>3, <3>1
      <4>5. \/ DeferredFeeds' = DeferredFeeds
            \/ DeferredFeeds' = DeferredFeeds \cup {f} /\ used[f] = 0
        BY <1>0 DEF DeferredFeeds
      <4> QED BY <4>3, <4>4, <4>5
    <3> QED BY <2>1, <2>2, <3>3, <1>0, <1>2, <1>3 DEF BudgetInv
  <2>3. CASE stage = "refill"
    <3>1. exhausted' = exhausted /\ DeferredFeeds' = DeferredFeeds /\ Seated' = Seated
      BY <1>0, <1>2, <2>3 DEF DeferredFeeds, Seated, RowFeeds
    <3>2. /\ sold + Unspent + Cardinality(todo) * refill + Cardinality(todo \cap DeferredFeeds) * Share
             + Newlines(Cardinality(Seated)) <= RowSpace
          /\ refill \in Nat
      BY <2>3 DEF CollectInv, RunInv, BudgetInv, RunShapes
    <3>3. /\ Cardinality(todo) * refill \in Nat /\ Cardinality(todo \cap DeferredFeeds) * Share \in Nat
          /\ Newlines(Cardinality(Seated)) \in Nat /\ RowSpace \in Nat
      <4>1. Seated \in SUBSET Feeds /\ todo \cap DeferredFeeds \in SUBSET Feeds
        BY <1>3, LockedAreFeeds DEF Seated, RowFeeds
      <4>2. Cardinality(todo) \in Nat /\ Cardinality(todo \cap DeferredFeeds) \in Nat
            /\ Cardinality(Seated) \in Nat
        BY <4>1, <1>3, FeedSets
      <4> QED BY <4>2, <3>2, <1>3, NewlinesGrow, CollectAssumption
    <3>4. sold + Cardinality(todo) * refill + Cardinality(todo \cap DeferredFeeds) * Share
            + Newlines(Cardinality(Seated)) <= RowSpace
      BY <3>2, <3>3, <2>1, <1>3
    <3> QED BY <2>1, <2>3, <3>1, <3>4, <1>0, <1>2, <1>3 DEF BudgetInv
  <2> QED BY <2>2, <2>3, <1>1
<1> QED BY <1>0, <1>5, <1>6, <1>7, <1>8, <1>9, SameLong DEF CollectInv, RunInv

LEMMA StartIssueKeeps ==
  ASSUME CollectInv, StartIssue
  PROVE  CollectInv'
<1>0. /\ stage = "idle" /\ LockedFeeds # {} /\ issued < today /\ stage' = "first"
      /\ todo' = LockedFeeds /\ cutoff' = [c \in Feeds |-> Len(logs[c])]
      /\ UNCHANGED <<longVars, scanVars, lower, exhausted, refill>>
  BY DEF StartIssue
<1>1. /\ exhausted = {} /\ ~fetching /\ sold = 0 /\ used = Zero /\ RunShapes /\ LongShapes
  BY <1>0 DEF CollectInv, RunInv, PlaceOfRun, LongInv
<1>2. LockedFeeds' = LockedFeeds /\ Share' = Share
  BY <1>0, SameShare DEF longVars
<1>3. RunShapes'
  BY <1>0, <1>1, <1>2 DEF RunShapes, LongShapes, scanVars
<1>4. PlaceOfRun'
  BY <1>0, <1>1, <1>2 DEF PlaceOfRun, longVars, scanVars
<1>5. ScanInv'
  <2>1. \A c \in Feeds : /\ Len(logs[c]) \in Nat /\ cursors[c] <= Len(logs[c])
                         /\ \A i \in Len(logs[c]) + 1 .. Len(logs[c]) : FALSE
    BY <1>1 DEF CollectInv, LongInv, LogInv, LongShapes
  <2> QED BY <2>1, <1>0, <1>1, <1>2 DEF ScanInv, IsScanned, longVars, scanVars, Zero
<1>6. CrowdInv'
  BY <1>0, <1>1 DEF CrowdInv, scanVars
<1>7. BudgetInv'
  <2>1. DeferredFeeds' = {} /\ Unspent' = 0 BY <1>0, <1>1 DEF DeferredFeeds, Unspent, scanVars
  <2>2. Share \in Nat /\ Cardinality({}) * Share = 0
        /\ Cardinality(LockedFeeds) * Share + Newlines(Cardinality(LockedFeeds)) <= RowSpace
    BY <1>0, SharesFit, FS_EmptySet
  <2>3. Cardinality(LockedFeeds) * Share \in Nat /\ Newlines(Cardinality(LockedFeeds)) \in Nat
    BY <2>2, FeedSets, LockedAreFeeds, NewlinesGrow
  <2> QED BY <2>1, <2>2, <2>3, <1>0, <1>1, <1>2 DEF BudgetInv, scanVars
<1> QED BY <1>0, <1>3, <1>4, <1>5, <1>6, <1>7, SameLong DEF CollectInv, RunInv

LEMMA BeginScanKeeps ==
  ASSUME CollectInv, NEW c \in Feeds, BeginScan(c)
  PROVE  CollectInv'
<1>0. PICK b \in 0..Len(logs[c]) :
        /\ IsBoundary(c, b)
        /\ lower' = [lower EXCEPT ![c] = Effective(c, b)]
        /\ through' = [through EXCEPT ![c] = Effective(c, b)]
        /\ OpenFetch(c, Effective(c, b), Share)
  BY DEF BeginScan
<1> DEFINE from == Effective(c, b)
<1>1. /\ stage = "first" /\ ~fetching /\ c \in todo
      /\ UNCHANGED <<longVars, stage, cutoff, used, selected, cutTo, exhausted, sold, refill>>
      /\ feed' = c /\ fetching' = TRUE /\ todo' = todo \ {c} /\ budget' = Share
      /\ last' = Smaller(cutoff[c], from + MaxScan)
  BY <1>0 DEF BeginScan, OpenFetch, IsNextFeed
<1>2. /\ c \in LockedFeeds /\ c \notin exhausted /\ used[c] = 0 /\ LockedFeeds # {} /\ stage # "idle"
      /\ issued < today /\ ~IsScanned(c) /\ exhausted \subseteq Feeds /\ todo \subseteq Feeds
  <2>1. c \in LockedFeeds /\ c \notin exhausted /\ ~IsScanned(c) /\ stage # "idle"
    BY <1>1 DEF CollectInv, RunInv, RunShapes, PlaceOfRun, IsScanned
  <2> QED BY <2>1, LockedAreFeeds DEF CollectInv, RunInv, RunShapes, PlaceOfRun, ScanInv
<1>3. LockedFeeds' = LockedFeeds /\ Share' = Share /\ NotBefore' = NotBefore
  BY <1>1, SameShare, SameWindow DEF longVars
<1>4. /\ Share \in Nat /\ Share > 0 /\ NotBefore \in Int /\ NotBefore < today
  BY <1>2, SharesFit, Window DEF CollectInv, LongInv
<1>5. /\ cursors[c] \in Nat /\ cutoff[c] \in Nat /\ Len(logs[c]) \in Nat /\ cutoff[c] <= Len(logs[c])
      /\ cursors[c] <= cutoff[c] /\ today \in Nat
      /\ \A i \in Ids(c) : logs[c][i].day \in Nat
  <2>1. /\ cursors[c] \in Nat /\ cutoff[c] \in Nat /\ logs[c] \in Seq(Row) /\ today \in Nat
    BY CollectAssumption DEF CollectInv, RunInv, RunShapes, LongInv, LongShapes
  <2>2. \A i \in Ids(c) : logs[c][i] \in Row BY <2>1 DEF Ids
  <2>3. \A i \in Ids(c) : logs[c][i].day \in Nat BY <2>2, CollectAssumption DEF Row
  <2> QED BY <2>1, <2>3, <1>2 DEF CollectInv, RunInv, ScanInv
<1>6. b <= cutoff[c]
  <2> SUFFICES ASSUME b > cutoff[c] PROVE FALSE
    BY <1>5
  <2>1. b \in cutoff[c] + 1 .. Len(logs[c]) /\ b # 0 BY <1>5
  <2>2. logs[c][b].day = today BY <2>1, <1>2 DEF CollectInv, RunInv, ScanInv
  <2>3. logs[c][b].day < NotBefore BY <1>0, <2>1 DEF IsBoundary
  <2> QED BY <2>2, <2>3, <1>4, <1>5
<1>7. /\ from \in Nat /\ from <= cutoff[c] /\ cursors[c] <= from /\ b <= from
      /\ last' \in Nat /\ last' <= cutoff[c] /\ (last' = 0 => cutoff[c] = 0)
      /\ (from = cursors[c] \/ from = b)
  BY <1>1, <1>5, <1>6, CollectAssumption DEF Effective, Larger, Smaller
<1>8. /\ \A i \in cursors[c] + 1 .. from : logs[c][i].day < NotBefore
      /\ \A i \in from + 1 .. Len(logs[c]) : logs[c][i].day >= NotBefore
  <2>1. ASSUME NEW i \in cursors[c] + 1 .. from PROVE logs[c][i].day < NotBefore
    <3>1. from = b /\ b # 0 /\ i <= b /\ i \in Ids(c) /\ b \in Ids(c) BY <1>5, <1>6, <1>7 DEF Ids
    <3>2. logs[c][b].day < NotBefore BY <1>0, <3>1 DEF IsBoundary
    <3>3. logs[c][i].day <= logs[c][b].day BY <3>1 DEF CollectInv, LongInv, LogInv
    <3> QED BY <3>1, <3>2, <3>3, <1>4, <1>5
  <2>2. ASSUME NEW i \in from + 1 .. Len(logs[c]) PROVE logs[c][i].day >= NotBefore
    <3>1. i \in b + 1 .. Len(logs[c]) BY <1>5, <1>7
    <3> QED BY <3>1, <1>0 DEF IsBoundary
  <2> QED BY <2>1, <2>2
<1> HIDE DEF from
<1>9. /\ lower'[c] = from /\ through'[c] = from
      /\ \A d \in Feeds : d # c => lower'[d] = lower[d] /\ through'[d] = through[d]
  BY <1>0 DEF CollectInv, RunInv, RunShapes, from
<1>10. RunShapes'
  BY <1>0, <1>1, <1>2, <1>3, <1>4, <1>7 DEF CollectInv, RunInv, RunShapes, from
<1>11. PlaceOfRun'
  BY <1>1, <1>2, <1>3 DEF CollectInv, RunInv, PlaceOfRun, longVars
<1>12. ScanInv'
  <2>1. ScanInv BY DEF CollectInv, RunInv
  <2>2. ASSUME NEW d \in Feeds, IsScanned(d)' PROVE RangeInv(d)'
    <3>1. CASE d = c
      <4>1. \A i \in from + 1 .. from : FALSE BY <1>7
      <4> QED BY <3>1, <4>1, <1>1, <1>2, <1>3, <1>7, <1>8, <1>9 DEF RangeInv, FetchIsOpen, longVars
    <3>2. CASE d # c
      <4>1. IsScanned(d) BY <2>2, <3>2, <1>1, <1>3 DEF IsScanned
      <4>2. RangeInv(d) BY <4>1, <2>1, <1>2 DEF ScanInv
      <4> QED BY <4>2, <3>2, <1>1, <1>2, <1>3, <1>9 DEF RangeInv, FetchIsOpen, longVars
    <3> QED BY <3>1, <3>2
  <2>3. \A d \in Feeds : ~IsScanned(d)' => ~IsScanned(d) BY <1>1, <1>3 DEF IsScanned
  <2> QED BY <2>1, <2>2, <2>3, <1>1, <1>2, <1>7 DEF ScanInv, longVars
<1>13. CrowdInv'
  <2>1. ASSUME NEW d \in exhausted PROVE (Served(d) \/ Wanting(d))'
    <3>1. Served(d) \/ Wanting(d) BY DEF CollectInv, RunInv, CrowdInv
    <3>2. d \in Feeds /\ d # c BY <1>2
    <3> QED BY <3>1, <3>2, <1>1, <1>3, <1>9 DEF Wanting, Served, WithRow, longVars
  <2> QED BY <2>1, <1>1, <1>3 DEF CrowdInv
<1>14. BudgetInv'
  <2>1. Unspent = 0 /\ Unspent' = Share /\ DeferredFeeds' = DeferredFeeds
    BY <1>1, <1>2, <1>4 DEF Unspent, DeferredFeeds
  <2>2. Cardinality(todo) * Share = Cardinality(todo') * Share + Share
        /\ Cardinality(todo') \in Nat /\ Cardinality(todo) \in Nat
    BY <1>1, <1>2, <1>4, FeedLeaves, FeedSets
  <2>3. sold + Unspent + Cardinality(todo) * Share + Cardinality(DeferredFeeds) * Share
          + Newlines(Cardinality(LockedFeeds)) <= RowSpace
    BY <1>1 DEF CollectInv, RunInv, BudgetInv
  <2>4. /\ Cardinality(DeferredFeeds) * Share \in Nat /\ sold \in Nat
        /\ Newlines(Cardinality(LockedFeeds)) \in Nat /\ Cardinality(todo') * Share \in Nat
    <3>1. DeferredFeeds \in SUBSET Feeds BY <1>2 DEF DeferredFeeds
    <3>2. Cardinality(DeferredFeeds) \in Nat /\ Cardinality(LockedFeeds) \in Nat
      BY <3>1, FeedSets, LockedAreFeeds
    <3>3. Newlines(Cardinality(LockedFeeds)) \in Nat BY <3>2, NewlinesGrow
    <3>4. sold \in Nat BY DEF CollectInv, RunInv, RunShapes
    <3> QED BY <3>2, <3>3, <3>4, <2>2, <1>4
  <2>5. sold + Unspent' + Cardinality(todo') * Share + Cardinality(DeferredFeeds) * Share
          + Newlines(Cardinality(LockedFeeds)) <= RowSpace
    BY <2>1, <2>2, <2>3, <2>4, <1>4, CollectAssumption
  <2> QED BY <2>1, <2>5, <1>1, <1>2, <1>3, <1>4 DEF BudgetInv
<1> QED BY <1>1, <1>10, <1>11, <1>12, <1>13, <1>14, SameLong DEF CollectInv, RunInv

LEMMA StartRefillKeeps ==
  ASSUME CollectInv, StartRefill
  PROVE  CollectInv'
<1>0. /\ stage = "first" /\ ~fetching /\ todo = {} /\ exhausted # {}
      /\ stage' = "refill" /\ todo' = exhausted
      /\ refill' = AtLeastZero(FreeRows) \div Cardinality(exhausted)
      /\ UNCHANGED <<longVars, scanVars, cutoff, lower, exhausted>>
  BY DEF StartRefill, PassIsOver
<1>1. /\ exhausted \in SUBSET Feeds /\ LockedFeeds # {} /\ sold \in Nat /\ RowSpace \in Nat
      /\ RowFeeds \in SUBSET Feeds /\ RowFeeds \subseteq LockedFeeds /\ exhausted \subseteq LockedFeeds
      /\ \A c \in Feeds : used[c] \in Nat
  BY <1>0, LockedAreFeeds, CollectAssumption DEF CollectInv, RunInv, RunShapes, PlaceOfRun, RowFeeds
<1>2. LockedFeeds' = LockedFeeds /\ Share' = Share /\ NotBefore' = NotBefore
  BY <1>0, SameShare, SameWindow DEF longVars
<1>3. Share \in Nat /\ Share > 0
  BY <1>1, SharesFit
<1> DEFINE n == Cardinality(exhausted)
           d == Cardinality(DeferredFeeds)
           rows == Newlines(Cardinality(Seated))
<1>4. /\ n \in Nat /\ n > 0 /\ d \in Nat /\ d * Share \in Nat
      /\ Cardinality(Seated) \in Nat /\ Cardinality(Seated) <= Cardinality(LockedFeeds)
      /\ Cardinality(LockedFeeds) \in Nat
  <2>1. DeferredFeeds \in SUBSET Feeds /\ Seated \in SUBSET Feeds /\ Seated \subseteq LockedFeeds
    BY <1>1 DEF DeferredFeeds, Seated
  <2>2. n \in Nat /\ n > 0 /\ d \in Nat /\ Cardinality(Seated) \in Nat
    BY <2>1, <1>1, <1>0, FeedSets
  <2>3. IsFiniteSet(LockedFeeds) /\ Cardinality(LockedFeeds) \in Nat BY FeedSets, LockedAreFeeds
  <2>4. Cardinality(Seated) <= Cardinality(LockedFeeds) BY <2>1, <2>3, FS_Subset
  <2> QED BY <2>2, <2>3, <2>4, <1>3
<1>5. rows \in Nat /\ sold + d * Share + rows <= RowSpace
  <2>1. rows \in Nat /\ rows <= Newlines(Cardinality(LockedFeeds))
        /\ Newlines(Cardinality(LockedFeeds)) \in Nat
    BY <1>4, NewlinesGrow
  <2>2. /\ sold + Unspent + Cardinality(todo) * Share + d * Share + Newlines(Cardinality(LockedFeeds)) <= RowSpace
        /\ Unspent = 0 /\ Cardinality(todo) = 0
    BY <1>0, FS_EmptySet DEF CollectInv, RunInv, BudgetInv, Unspent
  <2>3. 0 * Share = 0 BY <1>3
  <2> QED BY <2>1, <2>2, <2>3, <1>1, <1>4
<1>6. FreeRows = RowSpace - sold - rows - d * Share
  <2>1. RowFeeds \cup DeferredFeeds = Seated
    BY <1>1 DEF RowFeeds, DeferredFeeds, Seated
  <2> QED BY <2>1 DEF FreeRows
<1>7. refill' \in Nat /\ n * refill' \in Nat /\ n * refill' <= RowSpace - sold - rows - d * Share
  <2> DEFINE free == RowSpace - sold - rows - d * Share
  <2>1. free \in Nat /\ AtLeastZero(FreeRows) = free
    BY <1>1, <1>4, <1>5, <1>6 DEF AtLeastZero
  <2> HIDE DEF free
  <2>2. free \div n \in Nat /\ n * (free \div n) <= free BY <2>1, <1>4, Division
  <2>3. \A k, m \in Nat : k * m \in Nat
    OBVIOUS
  <2>4. n * (free \div n) \in Nat BY <2>2, <2>3, <1>4
  <2> QED BY <2>1, <2>2, <2>4, <1>0 DEF free
<1> HIDE DEF n, d, rows
<1>8. RunShapes'
  BY <1>0, <1>2, <1>7 DEF CollectInv, RunInv, RunShapes, scanVars
<1>9. PlaceOfRun'
  BY <1>0, <1>2 DEF CollectInv, RunInv, PlaceOfRun, longVars, scanVars
<1>10. ScanInv'
  <2>1. \A c \in Feeds : IsScanned(c)' => IsScanned(c) BY <1>0, <1>2 DEF IsScanned
  <2>2. \A c \in Feeds : ~IsScanned(c)' => ~IsScanned(c) BY <1>0, <1>2 DEF IsScanned
  <2>3. \A c \in Feeds : RangeInv(c) => RangeInv(c)'
    BY <1>0, <1>2 DEF RangeInv, FetchIsOpen, longVars, scanVars
  <2> QED BY <2>1, <2>2, <2>3, <1>0, <1>2 DEF CollectInv, RunInv, ScanInv, longVars, scanVars
<1>11. CrowdInv'
  <2>1. \A c \in exhausted : (Served(c) \/ Wanting(c))'
    BY <1>0, <1>2 DEF CollectInv, RunInv, CrowdInv, Wanting, Served, WithRow, longVars, scanVars
  <2> QED BY <2>1, <1>0, <1>2 DEF CrowdInv, scanVars
<1>12. BudgetInv'
  <2>1. /\ Unspent' = 0 /\ (todo \cap DeferredFeeds)' = DeferredFeeds /\ Seated' = Seated /\ ~fetching'
        /\ sold' = sold
    BY <1>0, <1>2 DEF Unspent, DeferredFeeds, Seated, RowFeeds, scanVars
  <2>2. n * refill' \in Nat BY <1>7
  <2>3. sold + n * refill' + d * Share + rows <= RowSpace
    BY <2>2, <1>1, <1>4, <1>5, <1>7
  <2>4. sold + 0 + Cardinality(exhausted) * refill' + Cardinality(DeferredFeeds) * Share
          + Newlines(Cardinality(Seated)) <= RowSpace
    BY <2>2, <2>3, <1>1, <1>4, <1>5 DEF n, d, rows
  <2> QED BY <2>1, <2>4, <1>0, <1>2 DEF BudgetInv
<1> QED BY <1>0, <1>8, <1>9, <1>10, <1>11, <1>12, SameLong DEF CollectInv, RunInv

(* A chat leaves the list of the refill, with what it is given.            *)
LEMMA RefillOfOne ==
  ASSUME CollectInv, NEW c \in Feeds, stage = "refill", ~fetching, c \in todo
  PROVE  /\ c \in exhausted /\ c \in LockedFeeds /\ LockedFeeds # {} /\ RangeInv(c) /\ IsScanned(c)
         /\ Share \in Nat /\ Share > 0 /\ Extra(c) \in Nat /\ used[c] \in Nat /\ refill \in Nat
         /\ sold + Extra(c) + Cardinality(todo \ {c}) * refill
              + Cardinality((todo \ {c}) \cap DeferredFeeds) * Share
              + Newlines(Cardinality(Seated)) <= RowSpace
<1>1. /\ c \in exhausted /\ c \in LockedFeeds /\ LockedFeeds # {} /\ IsScanned(c)
      /\ used[c] \in Nat /\ refill \in Nat /\ sold \in Nat
      /\ todo \in SUBSET Feeds /\ exhausted \in SUBSET Feeds
  BY LockedAreFeeds DEF CollectInv, RunInv, RunShapes, PlaceOfRun, IsScanned
<1>2. RangeInv(c) BY <1>1 DEF CollectInv, RunInv, ScanInv
<1>3. Share \in Nat /\ Share > 0 BY <1>1, SharesFit
<1>4. Extra(c) \in Nat /\ Extra(c) = refill + (IF used[c] = 0 THEN Share ELSE 0)
  BY <1>1, <1>3 DEF Extra
<1> DEFINE D == todo \cap DeferredFeeds
           rest == Cardinality(todo \ {c}) * refill
           kept == Cardinality((todo \ {c}) \cap DeferredFeeds) * Share
           rows == Newlines(Cardinality(Seated))
<1>5. sold + Cardinality(todo) * refill + Cardinality(D) * Share + rows <= RowSpace
  <2>1. Unspent = 0 BY DEF Unspent
  <2>2. sold + Unspent + Cardinality(todo) * refill + Cardinality(D) * Share + rows <= RowSpace
    BY DEF CollectInv, RunInv, BudgetInv
  <2> QED BY <2>1, <2>2, <1>1
<1>6. Cardinality(todo) * refill = rest + refill /\ rest \in Nat
  <2>1. Cardinality(todo \ {c}) \in Nat BY <1>1, FeedSets
  <2> QED BY <2>1, <1>1, FeedLeaves
<1>7. /\ D \in SUBSET Feeds /\ (todo \ {c}) \cap DeferredFeeds \in SUBSET Feeds /\ Seated \in SUBSET Feeds
  BY <1>1, LockedAreFeeds DEF Seated, RowFeeds
<1>8. kept \in Nat /\ rows \in Nat /\ Cardinality(D) * Share \in Nat
  <2>1. /\ Cardinality((todo \ {c}) \cap DeferredFeeds) \in Nat /\ Cardinality(Seated) \in Nat
        /\ Cardinality(D) \in Nat
    BY <1>7, FeedSets
  <2> QED BY <2>1, <1>3, NewlinesGrow
<1>9. Cardinality(D) * Share = kept + (IF used[c] = 0 THEN Share ELSE 0)
  <2>1. CASE used[c] = 0
    <3>1. c \in D /\ (todo \ {c}) \cap DeferredFeeds = D \ {c}
      BY <2>1, <1>1 DEF DeferredFeeds
    <3>2. Cardinality(D) * Share = Cardinality(D \ {c}) * Share + Share
      BY <3>1, <1>7, <1>3, FeedLeaves
    <3> QED BY <3>1, <3>2, <2>1
  <2>2. CASE used[c] # 0
    <3>1. (todo \ {c}) \cap DeferredFeeds = D BY <2>2 DEF DeferredFeeds
    <3>2. kept = Cardinality(D) * Share BY <3>1
    <3> QED BY <3>2, <2>2, <1>8
  <2> QED BY <2>1, <2>2
<1> HIDE DEF D, rest, kept, rows
<1>10. sold + Extra(c) + rest + kept + rows <= RowSpace
  BY <1>1, <1>3, <1>4, <1>5, <1>6, <1>8, <1>9, CollectAssumption
<1> QED BY <1>1, <1>2, <1>3, <1>4, <1>10 DEF rest, kept, rows

LEMMA BeginRefillKeeps ==
  ASSUME CollectInv, NEW c \in Feeds, BeginRefill(c)
  PROVE  CollectInv'
<1>0. /\ stage = "refill" /\ ~fetching /\ c \in todo /\ Extra(c) > 0
      /\ UNCHANGED <<longVars, stage, cutoff, lower, through, used, selected, cutTo, exhausted, sold, refill>>
      /\ feed' = c /\ fetching' = TRUE /\ todo' = todo \ {c} /\ budget' = used[c] + Extra(c)
      /\ last' = Smaller(cutoff[c], through[c] + MaxScan)
  BY DEF BeginRefill, OpenFetch, IsNextFeed
<1>1. /\ c \in exhausted /\ c \in LockedFeeds /\ LockedFeeds # {} /\ RangeInv(c) /\ IsScanned(c)
      /\ Share \in Nat /\ Share > 0 /\ Extra(c) \in Nat /\ used[c] \in Nat /\ refill \in Nat
      /\ sold + Extra(c) + Cardinality(todo \ {c}) * refill
           + Cardinality((todo \ {c}) \cap DeferredFeeds) * Share
           + Newlines(Cardinality(Seated)) <= RowSpace
  BY <1>0, RefillOfOne
<1>2. LockedFeeds' = LockedFeeds /\ Share' = Share /\ NotBefore' = NotBefore
  BY <1>0, SameShare, SameWindow DEF longVars
<1>3. /\ cutoff[c] \in Nat /\ through[c] \in Nat /\ through[c] <= cutoff[c]
      /\ last' \in Nat /\ last' <= cutoff[c] /\ (last' = 0 => cutoff[c] = 0)
  <2>1. cutoff[c] \in Nat /\ through[c] \in Nat /\ through[c] <= cutoff[c]
    BY <1>1 DEF RangeInv, CollectInv, RunInv, RunShapes
  <2> QED BY <2>1, <1>0, CollectAssumption DEF Smaller
<1>4. RunShapes'
  BY <1>0, <1>1, <1>2, <1>3 DEF CollectInv, RunInv, RunShapes
<1>5. PlaceOfRun'
  BY <1>0, <1>1, <1>2 DEF CollectInv, RunInv, PlaceOfRun, longVars
<1>6. ScanInv'
  <2>1. \A d \in Feeds : IsScanned(d)' <=> IsScanned(d) BY <1>0, <1>2 DEF IsScanned
  <2>2. ASSUME NEW d \in Feeds, RangeInv(d) PROVE RangeInv(d)'
    <3>1. CASE d = c BY <3>1, <2>2, <1>0, <1>2 DEF RangeInv, FetchIsOpen, longVars
    <3>2. CASE d # c BY <3>2, <2>2, <1>0, <1>2 DEF RangeInv, FetchIsOpen, longVars
    <3> QED BY <3>1, <3>2
  <2> QED BY <2>1, <2>2, <1>0, <1>2, <1>3 DEF CollectInv, RunInv, ScanInv, longVars
<1>7. CrowdInv'
  <2>1. \A d \in exhausted : (Served(d) \/ Wanting(d))'
    BY <1>0, <1>2 DEF CollectInv, RunInv, CrowdInv, Wanting, Served, WithRow, longVars
  <2>2. used[c] = 0 => budget' >= Share BY <1>0, <1>1 DEF Extra
  <2> QED BY <2>1, <2>2, <1>0, <1>2 DEF CrowdInv
<1>8. BudgetInv'
  <2>1. /\ Unspent' = Extra(c) /\ (todo \cap DeferredFeeds)' = (todo \ {c}) \cap DeferredFeeds
        /\ Seated' = Seated /\ used[c] <= budget'
    BY <1>0, <1>1, <1>2 DEF Unspent, DeferredFeeds, Seated, RowFeeds
  <2> QED BY <2>1, <1>0, <1>1, <1>2 DEF BudgetInv
<1> QED BY <1>0, <1>4, <1>5, <1>6, <1>7, <1>8, SameLong DEF CollectInv, RunInv

LEMMA NothingToRefillKeeps ==
  ASSUME CollectInv, NEW c \in Feeds, NothingToRefill(c)
  PROVE  CollectInv'
<1>0. /\ stage = "refill" /\ ~fetching /\ c \in todo /\ Extra(c) = 0 /\ todo' = todo \ {c}
      /\ UNCHANGED <<longVars, scanVars, stage, cutoff, lower, exhausted, refill>>
  BY DEF NothingToRefill, IsNextFeed
<1>1. /\ c \in exhausted /\ RangeInv(c) /\ Share \in Nat /\ Share > 0 /\ used[c] \in Nat /\ refill \in Nat
      /\ sold + Extra(c) + Cardinality(todo \ {c}) * refill
           + Cardinality((todo \ {c}) \cap DeferredFeeds) * Share
           + Newlines(Cardinality(Seated)) <= RowSpace
  BY <1>0, RefillOfOne
<1>2. LockedFeeds' = LockedFeeds /\ Share' = Share /\ NotBefore' = NotBefore
  BY <1>0, SameShare, SameWindow DEF longVars
<1>3. used[c] # 0 /\ through[c] # 0
  BY <1>0, <1>1 DEF Extra, RangeInv
<1>4. RunShapes' /\ PlaceOfRun'
  BY <1>0, <1>2 DEF CollectInv, RunInv, RunShapes, PlaceOfRun, longVars, scanVars
<1>5. ScanInv'
  <2>1. \A d \in Feeds : IsScanned(d)' <=> IsScanned(d) BY <1>0, <1>2 DEF IsScanned
  <2>2. ASSUME NEW d \in Feeds, RangeInv(d) PROVE RangeInv(d)'
    <3>1. CASE d = c BY <3>1, <2>2, <1>0, <1>2, <1>3 DEF RangeInv, FetchIsOpen, longVars, scanVars
    <3>2. CASE d # c BY <3>2, <2>2, <1>0, <1>2 DEF RangeInv, FetchIsOpen, longVars, scanVars
    <3> QED BY <3>1, <3>2
  <2> QED BY <2>1, <2>2, <1>0, <1>2 DEF CollectInv, RunInv, ScanInv, longVars, scanVars
<1>6. CrowdInv'
  <2>1. \A d \in exhausted : (Served(d) \/ Wanting(d))'
    BY <1>0, <1>2 DEF CollectInv, RunInv, CrowdInv, Wanting, Served, WithRow, longVars, scanVars
  <2> QED BY <2>1, <1>0, <1>2 DEF CrowdInv, scanVars
<1>7. BudgetInv'
  <2>1. /\ Unspent' = 0 /\ (todo \cap DeferredFeeds)' = (todo \ {c}) \cap DeferredFeeds
        /\ Seated' = Seated /\ ~fetching'
    BY <1>0, <1>2 DEF Unspent, DeferredFeeds, Seated, RowFeeds, scanVars
  <2> QED BY <2>1, <1>0, <1>1, <1>2 DEF BudgetInv, scanVars
<1> QED BY <1>0, <1>4, <1>5, <1>6, <1>7, SameLong DEF CollectInv, RunInv

LEMMA CompletePromptKeeps ==
  ASSUME CollectInv, CompletePrompt
  PROVE  CollectInv'
<1>0. /\ ~fetching /\ todo = {} /\ stage' = "prompt"
      /\ stage = "refill" \/ (stage = "first" /\ exhausted = {})
      /\ UNCHANGED <<longVars, scanVars, todo, cutoff, lower, exhausted, refill>>
  BY DEF CompletePrompt, PassIsOver
<1>1. LockedFeeds' = LockedFeeds /\ Share' = Share /\ NotBefore' = NotBefore
  BY <1>0, SameShare, SameWindow DEF longVars
<1>2. RunShapes' /\ PlaceOfRun'
  BY <1>0, <1>1 DEF CollectInv, RunInv, RunShapes, PlaceOfRun, longVars, scanVars
<1>3. ScanInv'
  <2>1. \A c \in Feeds : IsScanned(c)' <=> IsScanned(c) BY <1>0, <1>1 DEF IsScanned
  <2>2. \A c \in Feeds : RangeInv(c) => RangeInv(c)'
    BY <1>0, <1>1 DEF RangeInv, FetchIsOpen, longVars, scanVars
  <2> QED BY <2>1, <2>2, <1>0, <1>1 DEF CollectInv, RunInv, ScanInv, longVars, scanVars
<1>4. CrowdInv'
  <2>1. \A c \in exhausted : (Served(c) \/ Wanting(c))'
    BY <1>0, <1>1 DEF CollectInv, RunInv, CrowdInv, Wanting, Served, WithRow, longVars, scanVars
  <2> QED BY <2>1, <1>0, <1>1 DEF CrowdInv, scanVars
<1>5. sold + Newlines(Cardinality(Seated)) <= RowSpace
  <2>1. /\ sold \in Nat /\ refill \in Nat /\ Unspent = 0 /\ Cardinality({}) = 0 /\ LockedFeeds # {}
        /\ RowSpace \in Nat
    BY <1>0, FS_EmptySet, CollectAssumption DEF CollectInv, RunInv, RunShapes, PlaceOfRun, Unspent
  <2>2. Share \in Nat BY <2>1, SharesFit
  <2>3. 0 * Share = 0 /\ 0 * refill = 0 BY <2>1, <2>2
  <2>4. Seated \in SUBSET Feeds /\ Seated \subseteq LockedFeeds
    BY LockedAreFeeds DEF Seated, RowFeeds, CollectInv, RunInv, RunShapes
  <2>5. /\ Newlines(Cardinality(Seated)) \in Nat /\ Newlines(Cardinality(LockedFeeds)) \in Nat
        /\ Newlines(Cardinality(Seated)) <= Newlines(Cardinality(LockedFeeds))
    <3>1. IsFiniteSet(LockedFeeds) /\ Cardinality(LockedFeeds) \in Nat /\ Cardinality(Seated) \in Nat
      BY <2>4, FeedSets, LockedAreFeeds
    <3>2. Cardinality(Seated) <= Cardinality(LockedFeeds) BY <3>1, <2>4, FS_Subset
    <3> QED BY <3>1, <3>2, NewlinesGrow
  <2>6. CASE stage = "refill"
    <3>1. todo \cap DeferredFeeds = {} BY <1>0
    <3>2. sold + 0 + 0 * refill + 0 * Share + Newlines(Cardinality(Seated)) <= RowSpace
      BY <2>1, <2>6, <3>1, <1>0 DEF CollectInv, RunInv, BudgetInv
    <3> QED BY <3>2, <2>1, <2>3, <2>5
  <2>7. CASE stage = "first" /\ exhausted = {}
    <3>1. DeferredFeeds = {} BY <2>7 DEF DeferredFeeds
    <3>2. sold + 0 + 0 * Share + 0 * Share + Newlines(Cardinality(LockedFeeds)) <= RowSpace
      BY <2>1, <2>7, <3>1, <1>0 DEF CollectInv, RunInv, BudgetInv
    <3> QED BY <3>2, <2>1, <2>3, <2>5
  <2> QED BY <2>6, <2>7, <1>0
<1>6. BudgetInv'
  <2>1. Seated' = Seated BY <1>0, <1>1 DEF Seated, RowFeeds, scanVars
  <2> QED BY <2>1, <1>0, <1>5 DEF BudgetInv, scanVars
<1> QED BY <1>0, <1>2, <1>3, <1>4, <1>6, SameLong DEF CollectInv, RunInv

LEMMA AcceptedKeeps ==
  ASSUME CollectInv, Accepted
  PROVE  CollectInv'
<1>0. /\ stage = "prompt" /\ EndRun /\ UNCHANGED <<logs, today, joined>>
      /\ cursors' = [c \in Feeds |-> IF c \in LockedFeeds THEN through[c] ELSE 0]
      /\ told' = [c \in Feeds |-> told[c] \cup IF c \in LockedFeeds THEN Told(c) ELSE {}]
      /\ issued' = today /\ opening' = IF opening = Never THEN today ELSE opening
  BY DEF Accepted
<1>1. /\ issued < today /\ todo = {} /\ ~fetching /\ LongShapes /\ LogInv /\ HistoryInv
      /\ TextIsReadOrReported /\ RunShapes /\ today \in Nat
      /\ LockedFeeds' = LockedFeeds
  BY <1>0, CollectAssumption
  DEF CollectInv, RunInv, PlaceOfRun, LongInv, LongShapes, LockedFeeds
<1>2. ASSUME NEW c \in Feeds
      PROVE  /\ cursors[c] \in Nat /\ lower[c] \in Nat /\ through[c] \in Nat /\ cutoff[c] \in Nat
             /\ Len(logs[c]) \in Nat /\ cutoff[c] <= Len(logs[c])
             /\ \A i \in cutoff[c] + 1 .. Len(logs[c]) : logs[c][i].day = today
             /\ c \in LockedFeeds => RangeInv(c)
  <2>1. logs[c] \in Seq(Row) BY <1>1 DEF LongShapes
  <2>2. Len(logs[c]) \in Nat BY <2>1
  <2> QED BY <2>2, <1>0, <1>1 DEF LongShapes, RunShapes, CollectInv, RunInv, ScanInv, IsScanned
<1>3. ASSUME NEW c \in Feeds
      PROVE  /\ cursors'[c] \in Nat /\ cursors'[c] <= Len(logs[c])
             /\ told'[c] \in SUBSET Nat /\ told'[c] \subseteq Ids(c)
  <2>1. c \in LockedFeeds => through[c] <= Len(logs[c])
    BY <1>2 DEF RangeInv
  <2>2. c \in LockedFeeds => Told(c) \subseteq Ids(c) /\ Told(c) \subseteq Nat
    BY <1>2, <2>1 DEF Told, Ids
  <2>3. told[c] \subseteq Ids(c) /\ told[c] \in SUBSET Nat BY <1>1 DEF LogInv, LongShapes
  <2> QED BY <1>0, <1>2, <2>1, <2>2, <2>3
<1>4. LongShapes'
  <2>1. cursors' \in [Feeds -> Nat] /\ told' \in [Feeds -> SUBSET Nat]
    <3>1. \A c \in Feeds : /\ (IF c \in LockedFeeds THEN through[c] ELSE 0) \in Nat
                           /\ told[c] \cup (IF c \in LockedFeeds THEN Told(c) ELSE {}) \in SUBSET Nat
      BY <1>0, <1>3
    <3> QED BY <3>1, <1>0
  <2>2. issued' \in Never..FinalDay /\ opening' \in Never..FinalDay
    BY <1>0, <1>1, CollectAssumption DEF LongShapes, Never
  <2> QED BY <2>1, <2>2, <1>0, <1>1 DEF LongShapes, Row
<1>5. LogInv'
  BY <1>0, <1>1, <1>3 DEF LogInv, Ids
<1>6. HistoryInv'
  <2>1. today # Never BY <1>1 DEF Never
  <2>2. ASSUME NEW c \in LockedFeeds, cursors'[c] = 0, NEW i \in Ids(c)
        PROVE  logs[c][i].day >= today
    <3>1. c \in Feeds /\ through[c] = 0 BY <2>2, <1>0, LockedAreFeeds
    <3>2. RangeInv(c) /\ ~FetchIsOpen(c) BY <3>1, <1>1, <1>2 DEF FetchIsOpen
    <3>3. cutoff[c] = 0 BY <3>1, <3>2, <1>0, <1>1 DEF RangeInv
    <3>4. i \in cutoff[c] + 1 .. Len(logs[c]) BY <3>1, <3>3, <1>2 DEF Ids
    <3> QED BY <3>1, <3>4, <1>1, <1>2
  <2>3. issued' = today /\ today' = today /\ issued' # Never /\ opening' # Never
    BY <2>1, <1>0
  <2>4. issued' <= today' BY <2>3, <1>1
  <2>5. \A c \in LockedFeeds' : cursors'[c] = 0 =>
          \A i \in Ids(c)' : logs'[c][i].day >= issued'
    BY <2>2, <2>3, <1>0, <1>1 DEF Ids
  <2> QED BY <2>3, <2>4, <2>5 DEF HistoryInv
<1>7. TextIsReadOrReported'
  <2> SUFFICES ASSUME NEW c \in Feeds, NEW i \in 1..cursors'[c]
               PROVE  \/ logs[c][i].size = 0 \/ i \in told'[c] \/ logs[c][i].day < joined[c]
                      \/ logs[c][i].day < opening' - Lookback
    BY <1>0 DEF TextIsReadOrReported
  <2>1. /\ c \in LockedFeeds /\ cursors'[c] = through[c] /\ RangeInv(c)
        /\ told'[c] = told[c] \cup Told(c) /\ i \in 1..through[c]
    BY <1>0, <1>2
  <2>2. i \in Ids(c) /\ logs[c][i].day \in Nat
    <3>1. through[c] <= Len(logs[c]) BY <1>2, <2>1 DEF RangeInv
    <3>2. i \in Ids(c) BY <3>1, <2>1, <1>2 DEF Ids
    <3>3. logs[c] \in Seq(Row) BY <1>1 DEF LongShapes
    <3>4. logs[c][i] \in Row BY <3>2, <3>3 DEF Ids
    <3> QED BY <3>2, <3>4, CollectAssumption DEF Row
  <2>3. CASE i \in 1..cursors[c]
    <3>1. \/ logs[c][i].size = 0 \/ i \in told[c] \/ logs[c][i].day < joined[c]
          \/ logs[c][i].day < opening - Lookback
      BY <2>3, <1>1 DEF TextIsReadOrReported
    <3>2. cursors[c] # 0 BY <2>3, <1>2
    <3>3. opening # Never BY <3>2, <1>1 DEF HistoryInv
    <3> QED BY <3>1, <3>3, <2>1, <1>0
  <2>4. CASE i \in cursors[c] + 1 .. lower[c]
    <3>1. logs[c][i].day < NotBefore BY <2>1, <2>4 DEF RangeInv
    <3>2. CASE cursors[c] # 0
      <4>1. SkipIsAnnounced(c) BY <3>2, <2>4, <1>2 DEF SkipIsAnnounced
      <4>2. i \in Told(c) BY <4>1, <2>1, <2>4, <1>2 DEF Told
      <4> QED BY <4>2, <2>1
    <3>3. CASE cursors[c] = 0 /\ issued = Never
      <4>1. NotBefore = today - Lookback BY <3>3, <1>1, Window
      <4>2. opening' = today BY <3>3, <1>0, <1>1 DEF HistoryInv
      <4> QED BY <3>1, <4>1, <4>2
    <3>4. CASE cursors[c] = 0 /\ issued # Never
      <4>1. NotBefore <= issued /\ NotBefore \in Int BY <3>4, <1>1, Window
      <4>2. logs[c][i].day < joined[c] \/ logs[c][i].day >= issued
        BY <3>4, <2>1, <2>2, <1>1 DEF HistoryInv
      <4>3. issued \in Int BY <1>1, CollectAssumption DEF LongShapes, Never
      <4> QED BY <4>1, <4>2, <4>3, <3>1, <2>2
    <3> QED BY <3>2, <3>3, <3>4
  <2>5. CASE i \in lower[c] + 1 .. through[c]
    <3>1. logs[c][i].size = 0 \/ i \in selected[c] BY <2>1, <2>5 DEF RangeInv
    <3>2. i \in cursors[c] + 1 .. through[c] BY <2>1, <2>5, <1>2 DEF RangeInv
    <3> QED BY <3>1, <3>2, <2>1 DEF Told
  <2>6. \/ i \in 1..cursors[c] \/ i \in cursors[c] + 1 .. lower[c] \/ i \in lower[c] + 1 .. through[c]
    BY <2>1, <1>2
  <2> QED BY <2>3, <2>4, <2>5, <2>6
<1> QED BY <1>0, <1>4, <1>5, <1>6, <1>7, EndRunFits DEF CollectInv, LongInv

LEMMA DropIssueKeeps ==
  ASSUME CollectInv, DropIssue
  PROVE  CollectInv'
BY EndRunFits, SameLong DEF CollectInv, DropIssue

(* A message more changes no place of a log that a cursor or a range names. *)
LEMMA PostKeeps ==
  ASSUME CollectInv, NEW c \in Feeds, NEW size \in RowSizes, Post(c, size)
  PROVE  CollectInv'
<1> DEFINE row == [day |-> today, size |-> size]
<1>0. /\ logs' = [logs EXCEPT ![c] = Append(@, row)]
      /\ UNCHANGED <<today, joined, cursors, issued, opening, told, scanVars, stage, todo, cutoff, lower,
                     exhausted, refill>>
  BY DEF Post
<1>1. /\ LongShapes /\ LogInv /\ HistoryInv /\ TextIsReadOrReported /\ RunShapes
      /\ today \in Nat /\ row \in Row /\ row.day = today
  <2>1. LongShapes /\ LogInv /\ HistoryInv /\ TextIsReadOrReported /\ RunShapes
    BY DEF CollectInv, LongInv, RunInv
  <2>2. today \in 0..FinalDay BY <2>1 DEF LongShapes
  <2> QED BY <2>1, <2>2, CollectAssumption DEF Row
<1>2. LockedFeeds' = LockedFeeds /\ Share' = Share /\ NotBefore' = NotBefore
  BY <1>0, SameShare, SameWindow
<1>3. ASSUME NEW e \in Feeds
      PROVE  /\ logs[e] \in Seq(Row) /\ logs'[e] \in Seq(Row) /\ Len(logs[e]) \in Nat
             /\ Len(logs'[e]) \in {Len(logs[e]), Len(logs[e]) + 1}
             /\ \A i \in 1..Len(logs[e]) : logs'[e][i] = logs[e][i]
             /\ \A i \in Len(logs[e]) + 1 .. Len(logs'[e]) : logs'[e][i].day = today
  <2>1. logs[e] \in Seq(Row) /\ Len(logs[e]) \in Nat BY <1>1 DEF LongShapes
  <2>2. CASE e = c
    <3>1. logs'[e] = Append(logs[e], row) BY <2>2, <1>0, <1>1 DEF LongShapes
    <3>2. /\ Append(logs[e], row) \in Seq(Row) /\ Len(Append(logs[e], row)) = Len(logs[e]) + 1
          /\ Append(logs[e], row)[Len(logs[e]) + 1] = row
          /\ \A i \in 1..Len(logs[e]) : Append(logs[e], row)[i] = logs[e][i]
      <4> HIDE DEF row
      <4> QED BY <2>1, <1>1
    <3> HIDE DEF row
    <3>3. \A i \in Len(logs[e]) + 1 .. Len(logs'[e]) : i = Len(logs[e]) + 1
      BY <3>1, <3>2, <2>1
    <3> QED BY <3>1, <3>2, <3>3, <2>1, <1>1
  <2>3. CASE e # c
    <3>1. logs'[e] = logs[e] BY <2>3, <1>0, <1>1 DEF LongShapes
    <3>2. \A i \in Len(logs[e]) + 1 .. Len(logs[e]) : FALSE BY <2>1
    <3> QED BY <3>1, <3>2, <2>1
  <2> QED BY <2>2, <2>3
<1> HIDE DEF row
<1>4. LongShapes'
  <2>1. logs' \in [Feeds -> Seq(Row)]
    <3>1. DOMAIN logs' = Feeds /\ logs' = [e \in Feeds |-> logs'[e]]
      BY <1>0, <1>1 DEF LongShapes
    <3> QED BY <3>1, <1>3
  <2> QED BY <2>1, <1>0, <1>1 DEF LongShapes, Row
<1>5. ASSUME NEW e \in Feeds, NEW i \in 1..Len(logs'[e])
      PROVE  \/ i \in Ids(e) /\ logs'[e][i] = logs[e][i]
             \/ i \notin Ids(e) /\ i = Len(logs[e]) + 1 /\ logs'[e][i].day = today
  <2>1. i \in 1..Len(logs[e]) \/ i = Len(logs[e]) + 1 BY <1>3
  <2>2. i = Len(logs[e]) + 1 => i \notin 1..Len(logs[e]) /\ i \in Len(logs[e]) + 1 .. Len(logs'[e])
    BY <1>3
  <2> QED BY <2>1, <2>2, <1>3 DEF Ids
<1>6. LogInv'
  <2>1. ASSUME NEW e \in Feeds, NEW i \in 1..Len(logs'[e]) PROVE logs'[e][i].day <= today
    BY <1>5, <1>1 DEF LogInv
  <2>2. ASSUME NEW e \in Feeds, NEW i \in 1..Len(logs'[e]), NEW j \in 1..Len(logs'[e]), i <= j
        PROVE  logs'[e][i].day <= logs'[e][j].day
    <3>1. CASE j \in Ids(e)
      <4>1. i \in Ids(e) BY <2>2, <3>1, <1>3 DEF Ids
      <4> QED BY <4>1, <3>1, <2>2, <1>5, <1>1 DEF LogInv
    <3>2. CASE j \notin Ids(e) BY <3>2, <1>5, <2>1
    <3> QED BY <3>1, <3>2
  <2>3. ASSUME NEW e \in Feeds
        PROVE  joined[e] <= today /\ cursors[e] <= Len(logs'[e]) /\ told[e] \subseteq 1..Len(logs'[e])
    <3>1. joined[e] <= today /\ cursors[e] <= Len(logs[e]) /\ told[e] \subseteq 1..Len(logs[e])
      BY <1>1 DEF LogInv, Ids
    <3>2. cursors[e] \in Nat BY <1>1 DEF LongShapes
    <3>3. 1..Len(logs[e]) \subseteq 1..Len(logs'[e]) BY <1>3
    <3> QED BY <3>1, <3>2, <3>3, <1>3
  <2> QED BY <2>1, <2>2, <2>3, <1>0 DEF LogInv, Ids
<1>7. HistoryInv'
  <2>1. ASSUME issued # Never, NEW e \in LockedFeeds, cursors[e] = 0, NEW i \in 1..Len(logs'[e])
        PROVE  logs'[e][i].day < joined[e] \/ logs'[e][i].day >= issued
    <3>1. e \in Feeds /\ issued <= today /\ issued \in Int
      BY <1>1, LockedAreFeeds, CollectAssumption DEF HistoryInv, LongShapes, Never
    <3>2. CASE i \in Ids(e) /\ logs'[e][i] = logs[e][i]
      BY <2>1, <3>2, <1>1 DEF HistoryInv
    <3>3. CASE logs'[e][i].day = today BY <3>1, <3>3, <1>1
    <3> QED BY <3>1, <3>2, <3>3, <1>5
  <2> QED BY <2>1, <1>0, <1>1, <1>2 DEF HistoryInv, Ids
<1>8. TextIsReadOrReported'
  <2>1. ASSUME NEW e \in Feeds, NEW i \in 1..cursors[e] PROVE logs'[e][i] = logs[e][i]
    <3>1. cursors[e] \in Nat /\ cursors[e] <= Len(logs[e]) BY <1>1 DEF LongShapes, LogInv
    <3>2. i \in 1..Len(logs[e]) BY <3>1, <1>3
    <3> QED BY <3>2, <1>3
  <2> QED BY <2>1, <1>0, <1>1 DEF TextIsReadOrReported
<1>9. RunShapes' /\ PlaceOfRun'
  BY <1>0, <1>2 DEF CollectInv, RunInv, RunShapes, PlaceOfRun, scanVars
<1>10. ScanInv'
  <2> SUFFICES ASSUME stage # "idle" PROVE ScanInv'
    BY <1>0 DEF ScanInv
  <2>1. ScanInv /\ NotBefore \in Int /\ NotBefore < today
    BY Window, <1>1 DEF CollectInv, RunInv
  <2>2. ASSUME NEW e \in Feeds
        PROVE  /\ cutoff[e] \in Nat /\ cutoff[e] <= Len(logs[e]) /\ cutoff[e] <= Len(logs'[e])
               /\ cursors[e] <= cutoff[e] /\ cursors[e] \in Nat /\ lower[e] \in Nat /\ through[e] \in Nat
               /\ \A i \in cutoff[e] + 1 .. Len(logs'[e]) : logs'[e][i].day = today
               /\ \A i \in 1..cutoff[e] : logs'[e][i] = logs[e][i]
    <3>1. cutoff[e] \in Nat /\ cutoff[e] <= Len(logs[e]) /\ cursors[e] <= cutoff[e]
          /\ cursors[e] \in Nat /\ lower[e] \in Nat /\ through[e] \in Nat
      BY <2>1, <1>1 DEF ScanInv, RunShapes, LongShapes
    <3>2. ASSUME NEW i \in cutoff[e] + 1 .. Len(logs'[e]) PROVE logs'[e][i].day = today
      <4>1. i \in 1..Len(logs'[e]) BY <3>1, <1>3
      <4>2. i \in Ids(e) => i \in cutoff[e] + 1 .. Len(logs[e]) BY <3>1, <1>3 DEF Ids
      <4> QED BY <4>1, <4>2, <1>5, <2>1 DEF ScanInv
    <3>3. \A i \in 1..cutoff[e] : i \in 1..Len(logs[e]) BY <3>1, <1>3
    <3> QED BY <3>1, <3>2, <3>3, <1>3
  <2>3. ASSUME NEW e \in Feeds, IsScanned(e) PROVE RangeInv(e)'
    <3>1. RangeInv(e) BY <2>1, <2>3 DEF ScanInv
    <3>2. cursors[e] <= lower[e] /\ lower[e] <= through[e] /\ through[e] <= cutoff[e]
      BY <3>1 DEF RangeInv
    <3>3. ASSUME NEW i \in cursors[e] + 1 .. lower[e] PROVE logs'[e][i].day < NotBefore
      <4>1. i \in 1..cutoff[e] BY <3>2, <2>2
      <4> QED BY <4>1, <2>2, <3>1 DEF RangeInv
    <3>4. ASSUME NEW i \in lower[e] + 1 .. Len(logs'[e]) PROVE logs'[e][i].day >= NotBefore
      <4>1. i \in 1..Len(logs'[e]) BY <2>2, <1>3
      <4>2. i \in Ids(e) => i \in lower[e] + 1 .. Len(logs[e]) BY <2>2, <1>3 DEF Ids
      <4>3. \A k \in lower[e] + 1 .. Len(logs[e]) : logs[e][k].day >= NotBefore
        BY <3>1 DEF RangeInv
      <4>4. (logs'[e][i] = logs[e][i] /\ i \in Ids(e)) \/ logs'[e][i].day = today BY <4>1, <1>5
      <4> QED BY <4>2, <4>3, <4>4, <2>1, <1>1
    <3>5. ASSUME NEW i \in lower[e] + 1 .. through[e] PROVE logs'[e][i].size = 0 \/ i \in selected[e]
      <4>1. i \in 1..cutoff[e] BY <3>2, <2>2
      <4>2. logs'[e][i] = logs[e][i] BY <4>1, <2>2
      <4>3. logs[e][i].size = 0 \/ i \in selected[e] BY <3>1 DEF RangeInv
      <4> QED BY <4>2, <4>3
    <3> QED BY <3>1, <3>2, <3>3, <3>4, <3>5, <1>0, <1>2 DEF RangeInv, FetchIsOpen, scanVars
  <2> QED BY <2>1, <2>2, <2>3, <1>0, <1>2 DEF ScanInv, IsScanned, scanVars
<1>11. CrowdInv'
  <2>1. ASSUME NEW e \in exhausted PROVE (Served(e) \/ Wanting(e))'
    <3>1. Served(e) \/ Wanting(e) BY DEF CollectInv, RunInv, CrowdInv
    <3>2. CASE Served(e) BY <3>2, <1>0, <1>2 DEF Served, scanVars
    <3>3. CASE Wanting(e)
      <4>1. e \in Feeds /\ stage # "idle" BY LockedAreFeeds DEF CollectInv, RunInv, RunShapes, PlaceOfRun
      <4>2. through[e] \in Nat /\ cutoff[e] \in Nat /\ cutoff[e] <= Len(logs[e])
        BY <4>1 DEF CollectInv, RunInv, RunShapes, ScanInv
      <4>3. through[e] + 1 \in 1..Len(logs[e]) BY <4>1, <4>2, <3>3, <1>3 DEF Wanting
      <4>4. logs'[e][through[e] + 1] = logs[e][through[e] + 1] BY <4>1, <4>3, <1>3
      <4> QED BY <3>3, <4>4, <1>0, <1>2 DEF Wanting, Served, WithRow, scanVars
    <3> QED BY <3>1, <3>2, <3>3
  <2> QED BY <2>1, <1>0, <1>2 DEF CollectInv, RunInv, CrowdInv, scanVars
<1>12. BudgetInv'
  BY <1>0, <1>2 DEF CollectInv, RunInv, BudgetInv, Unspent, Seated, RowFeeds, DeferredFeeds, scanVars
<1> QED BY <1>4, <1>6, <1>7, <1>8, <1>9, <1>10, <1>11, <1>12 DEF CollectInv, LongInv, RunInv

LEMMA IdleRun ==
  ASSUME CollectInv, stage = "idle",
         UNCHANGED <<scanVars, stage, todo, cutoff, lower, exhausted, refill>>
  PROVE  RunInv'
<1>1. todo = {} /\ exhausted = {} /\ RunShapes /\ PlaceOfRun /\ ~fetching
  BY DEF CollectInv, RunInv, PlaceOfRun
<1>2. RunShapes' BY <1>1 DEF RunShapes, scanVars
<1>3. PlaceOfRun' BY <1>1 DEF PlaceOfRun, scanVars
<1>4. ScanInv' /\ CrowdInv' /\ BudgetInv' BY <1>1 DEF ScanInv, CrowdInv, BudgetInv, scanVars
<1> QED BY <1>2, <1>3, <1>4 DEF RunInv

LEMMA NextDigestDayKeeps ==
  ASSUME CollectInv, NextDigestDay
  PROVE  CollectInv'
<1>0. /\ stage = "idle" /\ today < FinalDay /\ today' = today + 1
      /\ UNCHANGED <<logs, joined, cursors, issued, opening, told>>
      /\ UNCHANGED <<scanVars, stage, todo, cutoff, lower, exhausted, refill>>
  BY DEF NextDigestDay
<1>1. LongShapes /\ LogInv /\ HistoryInv /\ TextIsReadOrReported
  BY DEF CollectInv, LongInv
<1>2. /\ today \in 0..FinalDay /\ issued \in Int /\ \A c \in Feeds : joined[c] \in Int
      /\ LockedFeeds' = LockedFeeds
  BY <1>0, <1>1, CollectAssumption DEF LongShapes, Never, LockedFeeds
<1>3. \A c \in Feeds : \A i \in Ids(c) : logs[c][i].day \in Int
  <2>1. ASSUME NEW c \in Feeds, NEW i \in Ids(c) PROVE logs[c][i] \in Row
    <3>1. logs[c] \in Seq(Row) BY <1>1 DEF LongShapes
    <3> QED BY <3>1 DEF Ids
  <2>2. ASSUME NEW r \in Row PROVE r.day \in Int
    <3>1. r.day \in 0..FinalDay BY DEF Row
    <3> QED BY <3>1, CollectAssumption
  <2> QED BY <2>1, <2>2
<1>4. LongShapes'
  <2>1. today + 1 \in 0..FinalDay BY <1>0, <1>2, CollectAssumption
  <2>2. Row' = Row BY DEF Row
  <2> QED BY <2>1, <2>2, <1>0, <1>1 DEF LongShapes
<1>5. LogInv'
  <2>1. \A c \in Feeds : joined[c] <= today + 1 /\ \A i \in Ids(c) : logs[c][i].day <= today + 1
    BY <1>1, <1>2, <1>3 DEF LogInv
  <2> QED BY <2>1, <1>0, <1>1 DEF LogInv, Ids
<1>6. HistoryInv'
  <2>1. issued <= today + 1 BY <1>1, <1>2 DEF HistoryInv
  <2> QED BY <2>1, <1>0, <1>1, <1>2 DEF HistoryInv, Ids
<1>7. TextIsReadOrReported' BY <1>0, <1>1 DEF TextIsReadOrReported
<1> QED BY <1>0, <1>4, <1>5, <1>6, <1>7, IdleRun DEF CollectInv, LongInv

(* A chat that joins was chosen on the last day its messages can have.     *)
LEMMA JoinKeeps ==
  ASSUME CollectInv, NEW c \in Feeds, Join(c)
  PROVE  CollectInv'
<1>0. /\ stage = "idle" /\ joined[c] = Never /\ joined' = [joined EXCEPT ![c] = today]
      /\ UNCHANGED <<logs, today, cursors, issued, opening, told>>
      /\ UNCHANGED <<scanVars, stage, todo, cutoff, lower, exhausted, refill>>
  BY DEF Join
<1>1. LongShapes /\ LogInv /\ HistoryInv /\ TextIsReadOrReported
  BY DEF CollectInv, LongInv
<1>2. /\ today \in 0..FinalDay /\ today \in Nat /\ issued \in Int
      /\ joined'[c] = today /\ \A d \in Feeds : d # c => joined'[d] = joined[d]
  BY <1>0, <1>1, CollectAssumption DEF LongShapes, Never
<1>3. \A d \in Feeds : \A i \in Ids(d) : logs[d][i].day \in Nat
  <2>1. ASSUME NEW d \in Feeds, NEW i \in Ids(d) PROVE logs[d][i] \in Row
    <3>1. logs[d] \in Seq(Row) BY <1>1 DEF LongShapes
    <3> QED BY <3>1 DEF Ids
  <2> QED BY <2>1, CollectAssumption DEF Row
<1>4. LongShapes'
  <2>1. today \in Never..FinalDay BY <1>2, CollectAssumption DEF Never
  <2>2. joined' \in [Feeds -> Never..FinalDay] BY <2>1, <1>0, <1>1 DEF LongShapes
  <2>3. Row' = Row BY DEF Row
  <2> QED BY <2>2, <2>3, <1>0, <1>1 DEF LongShapes
<1>5. LogInv'
  <2>1. \A d \in Feeds : joined'[d] <= today BY <1>1, <1>2 DEF LogInv
  <2> QED BY <2>1, <1>0, <1>1 DEF LogInv, Ids
<1>6. HistoryInv'
  <2>1. ASSUME issued # Never, NEW d \in LockedFeeds', cursors[d] = 0, NEW i \in Ids(d)
        PROVE  logs[d][i].day < joined'[d] \/ logs[d][i].day >= issued
    <3>1. d \in Feeds BY DEF LockedFeeds
    <3>2. CASE d = c
      <4>1. logs[d][i].day <= today /\ issued <= today BY <3>1, <1>1 DEF LogInv, HistoryInv
      <4> QED BY <4>1, <3>1, <3>2, <1>2, <1>3
    <3>3. CASE d # c
      <4>1. d \in LockedFeeds BY <3>1, <3>3, <2>1, <1>2 DEF LockedFeeds
      <4> QED BY <4>1, <3>1, <3>3, <2>1, <1>1, <1>2 DEF HistoryInv
    <3> QED BY <3>2, <3>3
  <2> QED BY <2>1, <1>0, <1>1 DEF HistoryInv, Ids
<1>7. TextIsReadOrReported'
  <2> SUFFICES ASSUME NEW d \in Feeds, NEW i \in 1..cursors[d]
               PROVE  \/ logs[d][i].size = 0 \/ i \in told[d] \/ logs[d][i].day < joined'[d]
                      \/ logs[d][i].day < opening - Lookback
    BY <1>0 DEF TextIsReadOrReported
  <2>1. \/ logs[d][i].size = 0 \/ i \in told[d] \/ logs[d][i].day < joined[d]
        \/ logs[d][i].day < opening - Lookback
    BY <1>1 DEF TextIsReadOrReported
  <2>2. i \in Ids(d)
    <3>1. cursors[d] \in Nat /\ cursors[d] <= Len(logs[d]) /\ logs[d] \in Seq(Row)
      BY <1>1 DEF LongShapes, LogInv
    <3> QED BY <3>1 DEF Ids
  <2>3. d = c => ~(logs[d][i].day < joined[d])
    BY <2>2, <1>0, <1>3 DEF Never
  <2> QED BY <2>1, <2>3, <1>2
<1> QED BY <1>0, <1>4, <1>5, <1>6, <1>7, IdleRun DEF CollectInv, LongInv

LEMMA CollectStutterKeeps ==
  ASSUME CollectInv, UNCHANGED collectVars
  PROVE  CollectInv'
<1>0. UNCHANGED longVars /\ UNCHANGED <<scanVars, stage, todo, cutoff, lower, exhausted, refill>>
  BY DEF collectVars
<1>1. LockedFeeds' = LockedFeeds /\ Share' = Share /\ NotBefore' = NotBefore
  BY <1>0, SameShare, SameWindow DEF longVars
<1>2. RunShapes' /\ PlaceOfRun'
  BY <1>0, <1>1 DEF CollectInv, RunInv, RunShapes, PlaceOfRun, longVars, scanVars
<1>3. ScanInv'
  <2>1. \A c \in Feeds : (IsScanned(c)' <=> IsScanned(c)) /\ (RangeInv(c) => RangeInv(c)')
    BY <1>0, <1>1 DEF IsScanned, RangeInv, FetchIsOpen, longVars, scanVars
  <2> QED BY <2>1, <1>0 DEF CollectInv, RunInv, ScanInv, longVars, scanVars
<1>4. CrowdInv'
  BY <1>0, <1>1 DEF CollectInv, RunInv, CrowdInv, Wanting, Served, WithRow, longVars, scanVars
<1>5. BudgetInv'
  BY <1>0, <1>1
  DEF CollectInv, RunInv, BudgetInv, Unspent, Seated, RowFeeds, DeferredFeeds, scanVars
<1> QED BY <1>0, <1>2, <1>3, <1>4, <1>5, SameLong DEF CollectInv, RunInv

LEMMA CollectNextKeeps ==
  ASSUME CollectInv, [CollectNext]_collectVars
  PROVE  CollectInv'
<1>1. CASE StartIssue BY <1>1, StartIssueKeeps
<1>2. CASE ScanNext BY <1>2, PassOverKeeps, TakeRowKeeps, EndFetchKeeps DEF ScanNext
<1>3. CASE StartRefill \/ CompletePrompt BY <1>3, StartRefillKeeps, CompletePromptKeeps
<1>4. CASE Accepted \/ DropIssue BY <1>4, AcceptedKeeps, DropIssueKeeps
<1>5. CASE \E c \in Feeds : BeginScan(c) \/ BeginRefill(c) \/ NothingToRefill(c)
  BY <1>5, BeginScanKeeps, BeginRefillKeeps, NothingToRefillKeeps
<1>6. CASE NextDigestDay BY <1>6, NextDigestDayKeeps
<1>7. CASE \E c \in Feeds : Join(c) \/ \E size \in RowSizes : Post(c, size)
  BY <1>7, JoinKeeps, PostKeeps
<1>8. CASE UNCHANGED collectVars BY <1>8, CollectStutterKeeps
<1> QED BY <1>1, <1>2, <1>3, <1>4, <1>5, <1>6, <1>7, <1>8 DEF CollectNext, RunNext

(* Nothing of a run is outside the logs: what it keeps is changed only to  *)
(* the next message of a log, its end, or nothing.                         *)
LEMMA WithinLogsKeeps ==
  ASSUME CollectInv, WithinLogs, [CollectNext]_collectVars
  PROVE  WithinLogs'
<1> DEFINE Within(c, n, l, t, s) == n <= Len(logs[c]) /\ l <= Len(logs[c]) /\ t <= Len(logs[c])
                                    /\ s \subseteq 1..Len(logs[c])
<1>1. ASSUME NEW c \in Feeds
      PROVE  /\ logs[c] \in Seq(Row) /\ Len(logs[c]) \in Nat /\ cursors[c] \in Nat
             /\ cursors[c] <= Len(logs[c]) /\ 0 <= Len(logs[c])
             /\ cutoff[c] \in Nat /\ lower[c] \in Nat /\ through[c] \in Nat
  <2>1. logs[c] \in Seq(Row) BY DEF CollectInv, LongInv, LongShapes
  <2>2. Len(logs[c]) \in Nat BY <2>1
  <2> QED BY <2>1, <2>2
          DEF CollectInv, LongInv, LongShapes, LogInv, RunInv, RunShapes
<1>2. CASE StartIssue
  BY <1>1, <1>2 DEF StartIssue, WithinLogs, Ids, longVars, scanVars
<1>3. CASE PassOver \/ TakeRow
  <2>1. Scanning BY <1>3 DEF PassOver, TakeRow
  <2>2. feed \in Feeds /\ At \in 1..Len(logs[feed]) BY <2>1, NextMessage DEF Ids
  <2>3. /\ UNCHANGED <<logs, cutoff, lower>> /\ through' = [through EXCEPT ![feed] = At]
        /\ selected' = selected \/ selected' = [selected EXCEPT ![feed] = @ \cup {At}]
    BY <1>3 DEF PassOver, TakeRow, longVars
  <2>4. through \in [Feeds -> Nat] /\ selected \in [Feeds -> SUBSET Nat]
    BY DEF CollectInv, RunInv, RunShapes
  <2>5. At <= Len(logs[feed]) BY <2>2, <1>1
  <2>6. ASSUME NEW c \in Feeds
        PROVE  through'[c] <= Len(logs[c]) /\ selected'[c] \subseteq 1..Len(logs[c])
    <3>1. through[c] <= Len(logs[c]) /\ selected[c] \subseteq 1..Len(logs[c])
      BY DEF WithinLogs, Ids
    <3>2. through'[c] = IF c = feed THEN At ELSE through[c] BY <2>3, <2>4
    <3>3. selected'[c] \subseteq selected[c] \cup (IF c = feed THEN {At} ELSE {}) BY <2>3, <2>4
    <3> QED BY <3>1, <3>2, <3>3, <2>2, <2>5
  <2> QED BY <2>3, <2>6 DEF WithinLogs, Ids
<1>4. CASE EndFetch \/ StartRefill \/ CompletePrompt
  BY <1>4 DEF EndFetch, StartRefill, CompletePrompt, WithinLogs, Ids, longVars, scanVars
<1>5. CASE Accepted \/ DropIssue
  <2>1. /\ logs' = logs /\ \A c \in Feeds : cutoff'[c] = 0 /\ lower'[c] = 0 /\ through'[c] = 0
        /\ \A c \in Feeds : selected'[c] = {}
    BY <1>5 DEF Accepted, DropIssue, EndRun, Zero, longVars
  <2> QED BY <2>1, <1>1 DEF WithinLogs, Ids
<1>6. ASSUME NEW c \in Feeds, BeginScan(c) PROVE WithinLogs'
  <2>1. PICK b \in 0..Len(logs[c]) :
          /\ lower' = [lower EXCEPT ![c] = Effective(c, b)]
          /\ through' = [through EXCEPT ![c] = Effective(c, b)]
          /\ UNCHANGED <<logs, cutoff, selected>>
    BY <1>6 DEF BeginScan, longVars
  <2>2. Effective(c, b) <= Len(logs[c]) BY <1>1 DEF Effective, Larger
  <2>3. lower \in [Feeds -> Nat] /\ through \in [Feeds -> Nat] BY DEF CollectInv, RunInv, RunShapes
  <2> QED BY <2>1, <2>2, <2>3 DEF WithinLogs, Ids
<1>7. ASSUME NEW c \in Feeds, BeginRefill(c) \/ NothingToRefill(c) PROVE WithinLogs'
  BY <1>7 DEF BeginRefill, NothingToRefill, WithinLogs, Ids, longVars, scanVars
<1>8. ASSUME NextDigestDay \/ (\E c \in Feeds : Join(c)) \/ UNCHANGED collectVars PROVE WithinLogs'
  BY <1>8 DEF NextDigestDay, Join, WithinLogs, Ids, collectVars, longVars, scanVars
<1>9. ASSUME NEW c \in Feeds, NEW size \in RowSizes, Post(c, size) PROVE WithinLogs'
  <2>1. /\ logs' = [logs EXCEPT ![c] = Append(@, [day |-> today, size |-> size])]
        /\ UNCHANGED <<cutoff, lower, through, selected>>
    BY <1>9 DEF Post, scanVars
  <2>2. logs \in [Feeds -> Seq(Row)] /\ [day |-> today, size |-> size] \in Row
    BY CollectAssumption DEF CollectInv, LongInv, LongShapes, Row
  <2>3. ASSUME NEW d \in Feeds PROVE Len(logs[d]) <= Len(logs'[d]) /\ Len(logs'[d]) \in Nat
    <3>1. CASE d = c
      <4>1. logs'[d] = Append(logs[d], [day |-> today, size |-> size]) BY <3>1, <2>1, <2>2
      <4>2. Len(logs'[d]) = Len(logs[d]) + 1 BY <4>1, <2>2, <1>1
      <4> QED BY <4>2, <1>1
    <3>2. CASE d # c
      <4>1. logs'[d] = logs[d] BY <3>2, <2>1, <2>2
      <4> QED BY <4>1, <1>1
    <3> QED BY <3>1, <3>2
  <2>4. ASSUME NEW d \in Feeds
        PROVE  /\ cutoff[d] <= Len(logs'[d]) /\ lower[d] <= Len(logs'[d])
               /\ through[d] <= Len(logs'[d]) /\ selected[d] \subseteq 1..Len(logs'[d])
    <3>1. /\ cutoff[d] <= Len(logs[d]) /\ lower[d] <= Len(logs[d])
          /\ through[d] <= Len(logs[d]) /\ selected[d] \subseteq 1..Len(logs[d])
      BY DEF WithinLogs, Ids
    <3>2. 1..Len(logs[d]) \subseteq 1..Len(logs'[d]) BY <2>3, <1>1
    <3> QED BY <3>1, <3>2, <2>3, <1>1
  <2> QED BY <2>1, <2>4 DEF WithinLogs, Ids
<1> QED BY <1>2, <1>3, <1>4, <1>5, <1>6, <1>7, <1>8, <1>9 DEF CollectNext, RunNext, ScanNext

(* A chat that was put off without a row still waits for the refill, or    *)
(* its fetch is open and has its next row before it: a scan of the refill  *)
(* never ends before a row is taken, cut if it must be.                    *)
DeferredInv ==
  /\ \A c \in exhausted : used[c] = 0 => stage = "first" \/ c \in todo \/ FetchIsOpen(c)
  /\ fetching /\ stage = "refill" /\ used[feed] = 0 => through[feed] < last

LEMMA DeferredKeeps ==
  ASSUME CollectInv, DeferredInv, [CollectNext]_collectVars
  PROVE  DeferredInv'
<1>0. /\ exhausted \subseteq Feeds /\ used \in [Feeds -> Nat] /\ through \in [Feeds -> Nat]
      /\ cutoff \in [Feeds -> Nat] /\ feed \in Feeds
      /\ stage = "idle" => exhausted = {} /\ ~fetching
      /\ stage = "prompt" => ~fetching
      /\ fetching /\ stage = "refill" => feed \in exhausted
  BY LockedAreFeeds DEF CollectInv, RunInv, RunShapes, PlaceOfRun
<1>1. ASSUME NEW c \in exhausted, used[c] = 0
      PROVE  Wanting(c)
  <2>1. ~Served(c) BY <1>0, <1>1 DEF Served
  <2> QED BY <2>1 DEF CollectInv, RunInv, CrowdInv
<1>2. CASE PassOver
  <2>1. /\ Scanning /\ Message.size = 0 /\ feed \in Feeds
    BY <1>2, NextMessage DEF PassOver
  <2>2. ~(stage = "refill" /\ used[feed] = 0)
    BY <2>1, <1>0, <1>1 DEF Wanting, Message, At, Scanning
  <2> QED BY <1>2, <2>2 DEF PassOver, DeferredInv, FetchIsOpen
<1>3. CASE TakeRow
  <2>1. PICK total \in Totals : used' = [used EXCEPT ![feed] = total]
    BY <1>3 DEF TakeRow
  <2>2. Message.size \in Nat /\ Message.size > 0 /\ budget \in Nat
    BY <1>3, NextMessage DEF TakeRow, CollectInv, RunInv, RunShapes
  <2>3. total > 0
    <3>1. CASE Fits BY <3>1, <2>2, <1>0 DEF Totals, WithRow
    <3>2. CASE ~Fits BY <3>2, <2>2 DEF Totals
    <3> QED BY <3>1, <3>2
  <2>4. used'[feed] > 0 /\ \A c \in Feeds : c # feed => used'[c] = used[c]
    BY <2>1, <2>3, <1>0
  <2>5. UNCHANGED <<stage, todo, feed, fetching, exhausted>>
    BY <1>3 DEF TakeRow
  <2>6. \A c \in exhausted : used'[c] = 0 => used[c] = 0 /\ c # feed
    BY <2>4, <1>0
  <2> QED BY <2>4, <2>5, <2>6 DEF DeferredInv, FetchIsOpen
<1>4. CASE EndFetch
  <2>1. /\ fetching /\ ~fetching' /\ UNCHANGED <<stage, todo, through, used>>
        /\ stage # "first" => exhausted' = exhausted
    BY <1>4 DEF EndFetch
  <2>2. stage = "refill" => used[feed] # 0
    <3> SUFFICES ASSUME stage = "refill", used[feed] = 0 PROVE FALSE
      OBVIOUS
    <3>1. Scanning BY <2>1 DEF DeferredInv, Scanning
    <3>2. MayBeCut BY DEF MayBeCut
    <3> QED BY <3>1, <3>2, <1>4 DEF EndFetch
  <2>3. stage # "first" => stage = "refill"
    BY <2>1, <1>0 DEF CollectInv, RunInv, RunShapes
  <2> QED BY <2>1, <2>2, <2>3 DEF DeferredInv, FetchIsOpen
<1>5. CASE StartIssue
  <2>1. stage' = "first" BY <1>5 DEF StartIssue
  <2> QED BY <2>1 DEF DeferredInv
<1>6. CASE StartRefill
  <2>1. stage' = "refill" /\ todo' = exhausted' /\ ~fetching'
    BY <1>6 DEF StartRefill, PassIsOver, scanVars
  <2> QED BY <2>1 DEF DeferredInv
<1>7. CASE CompletePrompt
  <2>1. /\ stage' = "prompt" /\ ~fetching /\ todo = {} /\ UNCHANGED <<used, exhausted, feed>>
        /\ stage = "refill" \/ exhausted = {}
    BY <1>7 DEF CompletePrompt, PassIsOver, scanVars
  <2> QED BY <2>1 DEF DeferredInv, FetchIsOpen
<1>8. CASE Accepted \/ DropIssue
  <2>1. exhausted' = {} /\ ~fetching' BY <1>8 DEF Accepted, DropIssue, EndRun
  <2> QED BY <2>1 DEF DeferredInv
<1>9. ASSUME NEW c \in Feeds, BeginScan(c) PROVE DeferredInv'
  <2>1. stage' = "first" BY <1>9 DEF BeginScan
  <2> QED BY <2>1 DEF DeferredInv
<1>10. ASSUME NEW c \in Feeds, BeginRefill(c) PROVE DeferredInv'
  <2>1. /\ stage = "refill" /\ ~fetching /\ c \in todo /\ stage' = "refill" /\ fetching' /\ feed' = c
        /\ todo' = todo \ {c} /\ UNCHANGED <<exhausted, used, through, cutoff>>
        /\ last' = Smaller(cutoff[c], through[c] + MaxScan)
    BY <1>10 DEF BeginRefill, OpenFetch, IsNextFeed
  <2>2. c \in exhausted BY <2>1 DEF CollectInv, RunInv, PlaceOfRun
  <2>3. used[c] = 0 => through[c] < last'
    <3> SUFFICES ASSUME used[c] = 0 PROVE through[c] < last'
      OBVIOUS
    <3>1. through[c] < cutoff[c] BY <2>2, <1>1 DEF Wanting
    <3>2. through[c] \in Nat /\ cutoff[c] \in Nat BY <1>0
    <3> QED BY <3>1, <3>2, <2>1, CollectAssumption DEF Smaller
  <2>4. \A d \in exhausted : used[d] = 0 => d \in todo BY <2>1 DEF DeferredInv, FetchIsOpen
  <2> QED BY <2>1, <2>3, <2>4 DEF DeferredInv, FetchIsOpen
<1>11. ASSUME NEW c \in Feeds, NothingToRefill(c) PROVE DeferredInv'
  <2>1. /\ stage = "refill" /\ ~fetching /\ c \in todo /\ Extra(c) = 0
        /\ todo' = todo \ {c} /\ UNCHANGED <<exhausted, used, through, fetching, stage, feed>>
    BY <1>11 DEF NothingToRefill, IsNextFeed, scanVars
  <2>2. used[c] # 0
    <3>1. Share \in Nat /\ Share > 0 /\ refill \in Nat BY <2>1, RefillOfOne
    <3> QED BY <3>1, <2>1 DEF Extra
  <2> QED BY <2>1, <2>2 DEF DeferredInv, FetchIsOpen
<1>12. CASE UNCHANGED <<stage, todo, feed, fetching, through, last, used, exhausted>>
  BY <1>12 DEF DeferredInv, FetchIsOpen
<1>13. CASE NextDigestDay \/ (\E c \in Feeds : Join(c) \/ \E size \in RowSizes : Post(c, size))
  BY <1>13, <1>12 DEF NextDigestDay, Join, Post, scanVars
<1>14. CASE UNCHANGED collectVars
  BY <1>14, <1>12 DEF collectVars, scanVars
<1> QED BY <1>2, <1>3, <1>4, <1>5, <1>6, <1>7, <1>8, <1>9, <1>10, <1>11, <1>13, <1>14
        DEF CollectNext, RunNext, ScanNext

LEMMA CollectHolds == CollectSpec => [](CollectInv /\ WithinLogs /\ DeferredInv)
<1>1. CollectInit => CollectInv /\ WithinLogs /\ DeferredInv
  <2>1. CollectInit => WithinLogs BY DEF CollectInit, WithinLogs, Zero, Ids
  <2>2. CollectInit => DeferredInv BY DEF CollectInit, DeferredInv
  <2> QED BY <2>1, <2>2, CollectInitially
<1>2. CollectInv /\ WithinLogs /\ DeferredInv /\ [CollectNext]_collectVars
        => (CollectInv /\ WithinLogs /\ DeferredInv)'
  BY CollectNextKeeps, WithinLogsKeeps, DeferredKeeps
<1> QED BY <1>1, <1>2, PTL DEF CollectSpec

(* The state of an issue keeps its types: every day and cursor is a place  *)
(* in the calendar and in the logs, no count of bytes is negative, and no  *)
(* range leaves the log of its chat.                                       *)
THEOREM CollectTypesHold == CollectSpec => []CollectTypeOK
<1>1. CollectInv /\ WithinLogs => CollectTypeOK
  <2> SUFFICES ASSUME CollectInv, WithinLogs PROVE CollectTypeOK
    OBVIOUS
  <2>1. LongShapes /\ LogInv /\ RunShapes BY DEF CollectInv, LongInv, RunInv
  <2>2. ASSUME NEW c \in Feeds
        PROVE  /\ \A i \in Ids(c) : logs[c][i].day \in 0..FinalDay /\ logs[c][i].size \in RowSizes
               /\ joined[c] \in Never..FinalDay
               /\ cursors[c] \in 0..Len(logs[c]) /\ told[c] \subseteq Ids(c)
               /\ cutoff[c] \in 0..Len(logs[c]) /\ lower[c] \in 0..Len(logs[c])
               /\ through[c] \in 0..Len(logs[c]) /\ used[c] \in Nat /\ selected[c] \subseteq Ids(c)
    <3>1. logs[c] \in Seq(Row) BY <2>1 DEF LongShapes
    <3>2. Len(logs[c]) \in Nat /\ \A i \in Ids(c) : logs[c][i] \in Row BY <3>1 DEF Ids
    <3>3. cursors[c] \in Nat /\ cutoff[c] \in Nat /\ lower[c] \in Nat /\ through[c] \in Nat
      BY <2>1 DEF LongShapes, RunShapes
    <3>4. cursors[c] \in 0..Len(logs[c]) /\ cutoff[c] \in 0..Len(logs[c])
          /\ lower[c] \in 0..Len(logs[c]) /\ through[c] \in 0..Len(logs[c])
      BY <3>2, <3>3, <2>1 DEF LogInv, WithinLogs
    <3> QED BY <3>2, <3>4, <2>1 DEF LongShapes, RunShapes, LogInv, WithinLogs, Row
  <2> QED BY <2>1, <2>2, LockedAreFeeds DEF CollectTypeOK, LongShapes, RunShapes
<1> QED BY <1>1, CollectHolds, PTL

(* No cursor of the receiver passes a text that no issue read or announced *)
(* as skipped: _run_digest, however scans, errors, new messages and new    *)
(* chats follow each other, and however long an outage was.                *)
THEOREM EveryTextIsReadOrReported == CollectSpec => []TextIsReadOrReported
<1>1. CollectInv => TextIsReadOrReported BY DEF CollectInv, LongInv
<1> QED BY <1>1, CollectHolds, PTL

(* The two passes of the scan never sell a byte of the prompt twice,       *)
(* whatever the sizes and the number of the messages: the chats that are   *)
(* still to come and those that wait for the refill find what they were    *)
(* promised.                                                               *)
THEOREM PromptsAlwaysFit == CollectSpec => []NoByteIsSoldTwice
<1>1. CollectInv => NoByteIsSoldTwice
  <2> SUFFICES ASSUME CollectInv PROVE NoByteIsSoldTwice
    OBVIOUS
  <2>1. /\ sold \in Nat /\ refill \in Nat /\ budget \in Nat /\ RowSpace \in Nat
        /\ stage \in {"idle", "first", "refill", "prompt"}
        /\ exhausted \in SUBSET Feeds /\ todo \in SUBSET Feeds
        /\ \A c \in Feeds : used[c] \in Nat
    BY LockedAreFeeds, CollectAssumption DEF CollectInv, RunInv, RunShapes
  <2>2. /\ RowFeeds \subseteq LockedFeeds /\ RowFeeds \subseteq Seated /\ Seated \in SUBSET Feeds
        /\ LockedFeeds \in SUBSET Feeds /\ DeferredFeeds \in SUBSET Feeds /\ RowFeeds \in SUBSET Feeds
    BY <2>1, LockedAreFeeds DEF RowFeeds, Seated, DeferredFeeds
  <2>3. /\ IsFiniteSet(LockedFeeds) /\ Cardinality(LockedFeeds) \in Nat
        /\ IsFiniteSet(Seated) /\ Cardinality(Seated) \in Nat
        /\ Cardinality(RowFeeds) \in Nat
        /\ Cardinality(DeferredFeeds) \in Nat /\ Cardinality(todo) \in Nat
        /\ Cardinality(todo \cap DeferredFeeds) \in Nat
    <3>1. todo \cap DeferredFeeds \in SUBSET Feeds BY <2>1
    <3> QED BY <3>1, <2>1, <2>2, FeedSets
  <2>4. /\ Cardinality(RowFeeds) <= Cardinality(LockedFeeds)
        /\ Cardinality(RowFeeds) <= Cardinality(Seated)
    BY <2>2, <2>3, FS_Subset
  <2>5. /\ Newlines(Cardinality(RowFeeds)) \in Nat
        /\ Newlines(Cardinality(LockedFeeds)) \in Nat /\ Newlines(Cardinality(Seated)) \in Nat
        /\ Newlines(Cardinality(RowFeeds)) <= Newlines(Cardinality(LockedFeeds))
        /\ Newlines(Cardinality(RowFeeds)) <= Newlines(Cardinality(Seated))
    BY <2>3, <2>4, NewlinesGrow
  <2>6. Unspent \in Nat
    <3>1. feed \in Feeds BY DEF CollectInv, RunInv, RunShapes
    <3>2. fetching => used[feed] <= budget BY DEF CollectInv, RunInv, BudgetInv
    <3> QED BY <3>1, <3>2, <2>1 DEF Unspent
  <2>7. CASE stage = "idle"
    <3>1. sold = 0 /\ RowFeeds = {}
      BY <2>7, LockedAreFeeds DEF CollectInv, RunInv, PlaceOfRun, RowFeeds, Zero
    <3>2. Newlines(Cardinality(RowFeeds)) = 0 BY <3>1, FS_EmptySet DEF Newlines, AtLeastZero
    <3> QED BY <3>1, <3>2, <2>1 DEF NoByteIsSoldTwice, PromptRows
  <2>8. CASE stage # "idle"
    <3>1. Share \in Nat BY <2>8, SharesFit DEF CollectInv, RunInv, PlaceOfRun
    <3>2. \A m, n \in Nat : m * n \in Nat
      OBVIOUS
    <3>3. /\ Cardinality(todo) * Share \in Nat /\ Cardinality(DeferredFeeds) * Share \in Nat
          /\ Cardinality(todo) * refill \in Nat /\ Cardinality(todo \cap DeferredFeeds) * Share \in Nat
      BY <3>1, <3>2, <2>1, <2>3
    <3>4. sold + Newlines(Cardinality(RowFeeds)) <= RowSpace
      <4>1. CASE stage = "first"
        <5>1. sold + Unspent + Cardinality(todo) * Share + Cardinality(DeferredFeeds) * Share
                + Newlines(Cardinality(LockedFeeds)) <= RowSpace
          BY <4>1 DEF CollectInv, RunInv, BudgetInv
        <5> QED BY <5>1, <3>3, <2>1, <2>5, <2>6
      <4>2. CASE stage = "refill"
        <5>1. sold + Unspent + Cardinality(todo) * refill + Cardinality(todo \cap DeferredFeeds) * Share
                + Newlines(Cardinality(Seated)) <= RowSpace
          BY <4>2 DEF CollectInv, RunInv, BudgetInv
        <5> QED BY <5>1, <3>3, <2>1, <2>5, <2>6
      <4>3. CASE stage = "prompt"
        <5>1. sold + Newlines(Cardinality(Seated)) <= RowSpace
          BY <4>3 DEF CollectInv, RunInv, BudgetInv
        <5> QED BY <5>1, <2>1, <2>5
      <4> QED BY <4>1, <4>2, <4>3, <2>1, <2>8
    <3> QED BY <3>4 DEF NoByteIsSoldTwice, PromptRows
  <2> QED BY <2>7, <2>8
<1> QED BY <1>1, CollectHolds, PTL

(* The order of the chats does not decide who gets the prompt: a chat that *)
(* wanted more than its share has a row in the finished prompt, however    *)
(* big its first one was, and has all of its share, but for less than the  *)
(* next row it was left with, and what was lost when its first row was cut *)
(* to fit a whole share or more.                                           *)
THEOREM NobodyIsEverCrowdedOut == CollectSpec => []NobodyIsCrowdedOut
<1>1. CollectInv /\ DeferredInv => NobodyIsCrowdedOut
  <2> SUFFICES ASSUME CollectInv, DeferredInv, stage = "prompt", NEW c \in exhausted
               PROVE  /\ used[c] > 0
                      /\ \/ used[c] >= Share
                         \/ cutTo[c] >= Share
                         \/ /\ through[c] < cutoff[c]
                            /\ WithRow(used[c], logs[c][through[c] + 1].size) > Share
    BY DEF NobodyIsCrowdedOut
  <2>1. used[c] # 0 BY DEF DeferredInv, CollectInv, RunInv, RunShapes, PlaceOfRun, FetchIsOpen
  <2>2. used[c] \in Nat BY LockedAreFeeds DEF CollectInv, RunInv, RunShapes
  <2>3. Served(c) \/ Wanting(c) BY DEF CollectInv, RunInv, CrowdInv
  <2> QED BY <2>1, <2>2, <2>3 DEF Served, Wanting
<1> QED BY <1>1, CollectHolds, PTL

=============================================================================

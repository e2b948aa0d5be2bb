------------------------------ MODULE Morning ------------------------------
(***************************************************************************)
(* The morning pass of guardian_engine.Collector: the issue first, then    *)
(* the mark that the chats are read, with the counters that decide when    *)
(* the mark of a day is given up.  They live in memory only.               *)
(*                                                                         *)
(* A tick works from the gate it read at its start: the window may close   *)
(* and the day may change under it.  What a pass does to the cursors of    *)
(* the chats is in MonitorChain.                                           *)
(***************************************************************************)
EXTENDS Naturals, FiniteSets

CONSTANTS
  MorningChats,   \* chats that are locked or may be added by an extension
  MaxAttempts,    \* MORNING_READ_ACK_MAX_ATTEMPTS
  MaxTicks,       \* MORNING_READ_ACK_MAX_TICKS
  MaxDays,        \* bound: digest dates
  MaxRestarts     \* bound: restarts of the process

ASSUME MorningAssumption ==
  /\ MorningChats # {} /\ MaxAttempts \in Nat \ {0} /\ MaxTicks \in Nat \ {0}
  /\ MaxDays \in Nat /\ MaxRestarts \in Nat

VARIABLES
  day, window,    \* the receiver's digest_date, and whether it accepts now
  owed,           \* the gate says due, or an issue waits to be sent
  locked,         \* the chats of the settings
  awaiting,       \* pending_extension_chat_ids
  routed,         \* Telegram answers over the stored node
  pass,           \* the running tick's place, key and contact.answered
  readDone,       \* _read_ack_done
  tries,          \* _read_ack_attempts
  confirmed,      \* observability: chats marked read for this day
  spent,          \* observability: what the mark of each day has cost
  restarts

morningVars == <<day, window, owed, locked, awaiting, routed, pass, readDone, tries, confirmed,
                 spent, restarts>>

-----------------------------------------------------------------------------
MorningKeys == (SUBSET MorningChats) \X (0..MaxDays)
ReadAckKey == <<locked, day>>
NoKey == <<{}, 0>>
NoPass == [at |-> "none", key |-> NoKey, answered |-> FALSE]
Nothing == [key |-> NoKey, attempt |-> 0, ticks |-> 0]
NoCost == [d \in 0..MaxDays |-> [attempt |-> 0, ticks |-> 0]]

MorningPassNeeded == window /\ (owed \/ readDone # ReadAckKey)

StartPass ==
  /\ pass = NoPass /\ MorningPassNeeded
  /\ pass' = [at |-> "issuing", key |-> ReadAckKey, answered |-> FALSE]
  /\ UNCHANGED <<day, window, owed, locked, awaiting, routed, readDone, tries, confirmed, spent,
                 restarts>>

(* _run_digest.  An issue may be settled from the gate or by sending the   *)
(* staged upload again, without a word to Telegram.  A refused issue does  *)
(* not keep the mark from its turn; a break of the receiver's chain or a   *)
(* cancellation ends the whole tick.                                       *)
RunDigest ==
  /\ pass.at = "issuing"
  /\ \E heard \in {FALSE, routed}, outcome \in {"accepted", "refused", "broken"} :
       /\ owed' = (owed /\ (outcome # "accepted" \/ pass.key[2] # day))
       /\ pass' = IF outcome = "broken" THEN NoPass
                  ELSE [pass EXCEPT !.at = "marking", !.answered = heard]
  /\ UNCHANGED <<day, window, locked, awaiting, routed, readDone, tries, confirmed, spent, restarts>>

(* Faulty variant: a pass counts as answered although the route is dead.   *)
CountedAlways(key, answered) ==
  LET before == IF tries.key = key THEN tries ELSE [Nothing EXCEPT !.key = key]
  IN [before EXCEPT !.ticks = @ + 1, !.attempt = @ + 1]
(* Faulty variant: one pass too many before the day is given up.           *)
ExhaustedLate(t) == t.attempt > MaxAttempts \/ t.ticks > MaxTicks

(* The counters after a pass over the key, and whether they close its day. *)
Counted(key, answered) ==
  LET before == IF tries.key = key THEN tries ELSE [Nothing EXCEPT !.key = key]
  IN [before EXCEPT !.ticks = @ + 1, !.attempt = @ + IF answered THEN 1 ELSE 0]
Exhausted(t) == t.attempt >= MaxAttempts \/ t.ticks >= MaxTicks

(* _run_morning_read_ack.  A chat that waits for its baseline is not       *)
(* touched and stays unconfirmed; a dead route confirms nothing.           *)
RunMorningReadAck ==
  /\ pass.at = "marking" /\ readDone # pass.key
  /\ \E unconfirmed \in SUBSET locked, heard \in BOOLEAN :
       LET answered == pass.answered \/ heard
           counted == Counted(pass.key, answered)
       IN /\ awaiting \subseteq unconfirmed
          /\ heard => routed /\ locked # awaiting
          /\ unconfirmed # locked => heard
          /\ tries' = counted
          /\ readDone' = IF unconfirmed = {} \/ Exhausted(counted) THEN pass.key ELSE readDone
          /\ confirmed' = IF pass.key[2] = day THEN confirmed \cup (locked \ unconfirmed)
                          ELSE confirmed
          /\ spent' = [spent EXCEPT ![pass.key[2]] =
                         [attempt |-> @.attempt + IF answered THEN 1 ELSE 0, ticks |-> @.ticks + 1]]
  /\ pass' = NoPass
  /\ UNCHANGED <<day, window, owed, locked, awaiting, routed, restarts>>

MarkIsDone ==
  /\ pass.at = "marking" /\ readDone = pass.key
  /\ pass' = NoPass
  /\ UNCHANGED <<day, window, owed, locked, awaiting, routed, readDone, tries, confirmed, spent,
                 restarts>>

(* An administrative operation cancels the tick before the mark counts.    *)
CancelPass ==
  /\ pass # NoPass /\ pass' = NoPass
  /\ UNCHANGED <<day, window, owed, locked, awaiting, routed, readDone, tries, confirmed, spent,
                 restarts>>

(* extend_chats runs with no tick: it ends the epoch first.  The key names *)
(* the chats, so the day is open again.                                    *)
AddChat(c) ==
  /\ pass = NoPass /\ awaiting = {} /\ c \notin locked
  /\ locked' = locked \cup {c} /\ awaiting' = {c}
  /\ spent' = NoCost
  /\ UNCHANGED <<day, window, owed, routed, pass, readDone, tries, confirmed, restarts>>

(* The extension baseline of the monitor chain, in a tick of its own.      *)
Baseline ==
  /\ pass = NoPass /\ routed /\ awaiting # {} /\ awaiting' = {}
  /\ UNCHANGED <<day, window, owed, locked, routed, pass, readDone, tries, confirmed, spent, restarts>>

WindowMoves ==
  \/ /\ ~window /\ window' = TRUE /\ UNCHANGED <<day, owed, confirmed>>
  \/ /\ window /\ day < MaxDays
     /\ window' = FALSE /\ day' = day + 1 /\ owed' = TRUE /\ confirmed' = {}
MorningWindow ==
  WindowMoves /\ UNCHANGED <<locked, awaiting, routed, pass, readDone, tries, spent, restarts>>

RouteChanges ==
  /\ routed' = ~routed
  /\ UNCHANGED <<day, window, owed, locked, awaiting, pass, readDone, tries, confirmed, spent, restarts>>

(* A restart of the process, or revoke_and_reset, forgets the counters.    *)
MorningRestart ==
  /\ restarts < MaxRestarts /\ restarts' = restarts + 1
  /\ pass' = NoPass /\ readDone' = NoKey /\ tries' = Nothing /\ spent' = NoCost
  /\ UNCHANGED <<day, window, owed, locked, awaiting, routed, confirmed>>

MorningInit ==
  /\ day = 0 /\ window = FALSE /\ owed = TRUE /\ routed = TRUE
  /\ locked = {CHOOSE c \in MorningChats : TRUE} /\ awaiting = {}
  /\ pass = NoPass /\ readDone = NoKey /\ tries = Nothing
  /\ confirmed = {} /\ spent = NoCost /\ restarts = 0

MorningNext ==
  \/ StartPass \/ RunDigest \/ RunMorningReadAck \/ MarkIsDone \/ CancelPass
  \/ (\E c \in MorningChats : AddChat(c)) \/ Baseline
  \/ MorningWindow \/ RouteChanges \/ MorningRestart
MorningSpec == MorningInit /\ [][MorningNext]_morningVars

-----------------------------------------------------------------------------
MorningTypeOK ==
  /\ day \in 0..MaxDays /\ window \in BOOLEAN /\ owed \in BOOLEAN /\ routed \in BOOLEAN
  /\ locked \subseteq MorningChats /\ awaiting \subseteq locked /\ confirmed \subseteq locked
  /\ pass \in [at : {"none", "issuing", "marking"}, key : MorningKeys,
               answered : BOOLEAN]
  /\ readDone \in MorningKeys
  /\ tries \in [key : MorningKeys, attempt : 0..MaxAttempts, ticks : 0..MaxTicks]
  /\ spent \in [0..MaxDays -> [attempt : Nat, ticks : Nat]] /\ restarts \in 0..MaxRestarts

(* The mark of a day costs a bounded number of passes per process and set  *)
(* of chats, and a day is given up unconfirmed only when that bound is     *)
(* spent: a dead route alone does not use up the answered attempts.        *)
MorningIsBoundedAndEarned ==
  /\ \A d \in 0..MaxDays : spent[d].attempt <= MaxAttempts /\ spent[d].ticks <= MaxTicks
  /\ readDone = ReadAckKey =>
       \/ locked \subseteq confirmed
       \/ spent[day].attempt = MaxAttempts
       \/ spent[day].ticks = MaxTicks
=============================================================================

------------------------------ MODULE Collect ------------------------------
(***************************************************************************)
(* What an issue of the digest reads: the lower boundary, the equal shares *)
(* of the prompt, the scan of each chat within its share and the refill of *)
(* the chats that wanted more.  The middle of Collector._run_digest, with  *)
(* TelethonGateway.boundary_cursor and fetch and prompting.prompt_size;    *)
(* one step per message, since a scan awaits each page of its chat while   *)
(* the chats go on.                                                        *)
(*                                                                         *)
(* A message is the day it was sent and the size of its prompt row, 0 for  *)
(* one without text; ids count from 1 in each chat.  One unit separates    *)
(* two rows.  Everything after the prompt is abstracted to one choice: the *)
(* issue is accepted, or nothing of it remains.                            *)
(***************************************************************************)
EXTENDS Integers, Sequences, FiniteSets

CONSTANTS
  Feeds,        \* ids of the chats that are or will be locked
  RowSizes,     \* sizes of a row; 0 for a message without text
  RowSpace,     \* MAX_PROMPT_BYTES - PROMPT_PREFIX_BYTES
  LeastShare,   \* the 1024 bytes a chat has at least
  Lookback,     \* DEFAULT_LOOKBACK_HOURS, in days
  MaxScan,      \* MAX_SCAN_MESSAGES
  FinalDay,     \* bound: days
  MaxPosts      \* bound: messages, all chats together

ASSUME CollectAssumption ==
  /\ IsFiniteSet(Feeds) /\ Feeds # {} /\ Feeds \subseteq Int /\ RowSizes \subseteq Nat
  /\ RowSpace \in Nat /\ LeastShare \in Nat \ {0}
  /\ Lookback \in Nat \ {0} /\ MaxScan \in Nat \ {0}
  /\ FinalDay \in Nat /\ MaxPosts \in Nat

(* At most 16 chats can be locked, and the prompt has room for the least   *)
(* share of each and the separators between them.                          *)
ASSUME LeastSharesFit ==
  Cardinality(Feeds) * LeastShare + Cardinality(Feeds) - 1 <= RowSpace

VARIABLES
  logs,      \* the messages of each chat
  today,     \* the receiver's day
  joined,    \* the day each chat entered the locked set, or Never
  cursors,   \* the receiver's through_message_id of each chat
  issued,    \* digest_date of the checkpoint, or Never
  opening,   \* observability: the day of the first accepted issue, or Never
  told,      \* observability: the ids an accepted issue read or announced
  stage,     \* place in _run_digest: "idle", "first", "refill", "prompt"
  todo,      \* chats the current pass has not come to
  feed,      \* the chat whose fetch is open
  fetching,  \* a fetch is open
  budget,    \* max_prompt_bytes of the fetch, without the prefix
  last,      \* the last id of the fetch: the cutoff, or MAX_SCAN_MESSAGES
  cutoff,    \* the last id of each chat at the time of the gate
  lower,     \* effective: where the issue begins to read each chat
  through,   \* through_message_id of each range
  used,      \* what the selected rows of each chat take, separators included
  selected,  \* selected_messages: the ids whose rows are in the prompt
  exhausted, \* budget_exhausted: chats whose share was too small
  cutTo,     \* observability: the bytes a chat's first row was cut to fit, or 0
  sold,      \* used_rows: the rows of all chats
  refill     \* refill_share

longVars == <<logs, today, joined, cursors, issued, opening, told>>
scanVars == <<feed, fetching, budget, last, through, used, selected, cutTo, sold>>
collectVars ==
  <<longVars, scanVars, stage, todo, cutoff, lower, exhausted, refill>>

Never == -1
Ids(c) == 1..Len(logs[c])
Posts == UNION {{c} \X Ids(c) : c \in Feeds}
NoFeed == CHOOSE c \in Feeds : TRUE
LockedFeeds == {c \in Feeds : joined[c] # Never}
AtLeastZero(n) == IF n > 0 THEN n ELSE 0
Larger(m, n) == IF m > n THEN m ELSE n
Smaller(m, n) == IF m < n THEN m ELSE n

-----------------------------------------------------------------------------
(* _digest_lookback and boundary_cursor.                                   *)

DigestLookback ==
  Lookback + IF issued = Never THEN 0 ELSE AtLeastZero(today - issued - 1)
NotBefore == today - DigestLookback

(* Faulty variant: a message sent at the boundary counts as older.         *)
IsBoundaryLate(c, b) ==
  /\ b \in 0..Len(logs[c]) /\ (b # 0 => logs[c][b].day <= NotBefore)
  /\ \A i \in b + 1 .. Len(logs[c]) : logs[c][i].day > NotBefore
IsBoundary(c, b) ==
  /\ b \in 0..Len(logs[c]) /\ (b # 0 => logs[c][b].day < NotBefore)
  /\ \A i \in b + 1 .. Len(logs[c]) : logs[c][i].day >= NotBefore

Effective(c, b) == Larger(cursors[c], b)

SkipIsAnnounced(c) == cursors[c] # 0 /\ lower[c] > cursors[c]

-----------------------------------------------------------------------------
(* The budget of a prompt.                                                 *)

Newlines(n) == AtLeastZero(n - 1)
WithRow(taken, size) == IF taken = 0 THEN size ELSE taken + 1 + size
Share ==
  LET n == Cardinality(LockedFeeds)
  IN Larger(LeastShare, (RowSpace - Newlines(n)) \div n)

RowFeeds == {c \in LockedFeeds : used[c] > 0}
DeferredFeeds == {c \in exhausted : used[c] = 0}
PromptRows == sold + Newlines(Cardinality(RowFeeds))

(* What the refill may hand out: a deferred chat, which has no row yet,    *)
(* keeps a whole share and a separator aside for its first.                *)
(* Faulty variant: what the deferred chats are promised is sold twice.     *)
FreeRowsOversold == RowSpace - sold - Newlines(Cardinality(RowFeeds \cup DeferredFeeds))
FreeRows ==
  RowSpace - sold - Newlines(Cardinality(RowFeeds \cup DeferredFeeds))
  - Cardinality(DeferredFeeds) * Share

(* Faulty variant: a deferred chat gets no more than the others.           *)
ExtraEqual(c) == refill
Extra(c) == refill + IF used[c] = 0 THEN Share ELSE 0

-----------------------------------------------------------------------------
(* The run: _run_digest between the plan and the model.                    *)

(* One issue a day at most.  The cutoff is the time of the gate.           *)
StartIssue ==
  /\ stage = "idle" /\ LockedFeeds # {} /\ issued < today
  /\ stage' = "first" /\ todo' = LockedFeeds
  /\ cutoff' = [c \in Feeds |-> Len(logs[c])]
  /\ UNCHANGED <<longVars, scanVars, lower, exhausted, refill>>

OpenFetch(c, from, bytes) ==
  /\ feed' = c /\ fetching' = TRUE /\ todo' = todo \ {c} /\ budget' = bytes
  /\ last' = Smaller(cutoff[c], from + MaxScan)

(* Both passes take the chats in the order of their ids.                   *)
IsNextFeed(c) == ~fetching /\ c \in todo /\ \A d \in todo : c <= d

BeginScan(c) ==
  /\ stage = "first" /\ IsNextFeed(c)
  /\ \E b \in 0..Len(logs[c]) :
       /\ IsBoundary(c, b)
       /\ lower' = [lower EXCEPT ![c] = Effective(c, b)]
       /\ through' = [through EXCEPT ![c] = Effective(c, b)]
       /\ OpenFetch(c, Effective(c, b), Share)
  /\ UNCHANGED <<longVars, stage, cutoff, used, selected, cutTo, exhausted, sold, refill>>

(* fetch, one message of the open scan.                                    *)
At == through[feed] + 1
Message == logs[feed][At]
Scanning == fetching /\ through[feed] < last
IsText == Message.size > 0 /\ Message.day >= NotBefore
Fits == WithRow(used[feed], Message.size) <= budget
(* The first row of the whole prompt of a chat is cut when it may not wait: *)
(* the text loses what it must, and whole characters.                      *)
MayBeCut == stage = "refill" /\ used[feed] = 0
Totals == IF Fits THEN {WithRow(used[feed], Message.size)} ELSE 1..budget

PassOver ==
  /\ Scanning /\ ~IsText
  /\ through' = [through EXCEPT ![feed] = At]
  /\ UNCHANGED <<longVars, stage, todo, feed, fetching, budget, last, cutoff, lower, used, selected,
                 cutTo, exhausted, sold, refill>>

TakeRow ==
  /\ Scanning /\ IsText /\ (Fits \/ MayBeCut)
  /\ \E total \in Totals :
       used' = [used EXCEPT ![feed] = total] /\ sold' = sold + total - used[feed]
  /\ cutTo' = IF Fits THEN cutTo ELSE [cutTo EXCEPT ![feed] = budget]
  /\ through' = [through EXCEPT ![feed] = At]
  /\ selected' = [selected EXCEPT ![feed] = @ \cup {At}]
  /\ UNCHANGED <<longVars, stage, todo, feed, fetching, budget, last, cutoff, lower, exhausted, refill>>

(* The fetch returns: at the end of its window, or at a row that does not  *)
(* fit, which it does not pass.  What the refill leaves out stays for the  *)
(* next issue.                                                             *)
EndFetch ==
  /\ fetching /\ fetching' = FALSE /\ feed' = NoFeed /\ budget' = 0 /\ last' = 0
  /\ \/ ~Scanning /\ UNCHANGED exhausted
     \/ /\ Scanning /\ IsText /\ ~Fits /\ ~MayBeCut
        /\ exhausted' = IF stage = "first" THEN exhausted \cup {feed} ELSE exhausted
  /\ UNCHANGED <<longVars, stage, todo, cutoff, lower, through, used, selected, cutTo, sold, refill>>

PassIsOver == ~fetching /\ todo = {}

StartRefill ==
  /\ stage = "first" /\ PassIsOver /\ exhausted # {}
  /\ stage' = "refill" /\ todo' = exhausted
  /\ refill' = AtLeastZero(FreeRows) \div Cardinality(exhausted)
  /\ UNCHANGED <<longVars, scanVars, cutoff, lower, exhausted>>

BeginRefill(c) ==
  /\ stage = "refill" /\ IsNextFeed(c) /\ Extra(c) > 0
  /\ OpenFetch(c, through[c], used[c] + Extra(c))
  /\ UNCHANGED <<longVars, stage, cutoff, lower, through, used, selected, cutTo, exhausted, sold, refill>>

NothingToRefill(c) ==
  /\ stage = "refill" /\ IsNextFeed(c) /\ Extra(c) = 0
  /\ todo' = todo \ {c}
  /\ UNCHANGED <<longVars, scanVars, stage, cutoff, lower, exhausted, refill>>

CompletePrompt ==
  /\ PassIsOver /\ (stage = "refill" \/ (stage = "first" /\ exhausted = {}))
  /\ stage' = "prompt"
  /\ UNCHANGED <<longVars, scanVars, todo, cutoff, lower, exhausted, refill>>

Zero == [c \in Feeds |-> 0]
EndRun ==
  /\ stage' = "idle" /\ todo' = {} /\ feed' = NoFeed /\ fetching' = FALSE /\ budget' = 0 /\ last' = 0
  /\ cutoff' = Zero /\ lower' = Zero /\ through' = Zero /\ used' = Zero
  /\ selected' = [c \in Feeds |-> {}] /\ cutTo' = Zero /\ exhausted' = {} /\ sold' = 0 /\ refill' = 0

(* digest_skip_note.                                                       *)
Told(c) ==
  {i \in cursors[c] + 1 .. through[c] :
     i \in selected[c] \/ (i <= lower[c] /\ SkipIsAnnounced(c))}

(* The receiver takes the upload; render_digest_prompt has refused a       *)
(* prompt that is too long.                                                *)
Accepted ==
  /\ stage = "prompt" /\ PromptRows <= RowSpace
  /\ cursors' = [c \in Feeds |-> IF c \in LockedFeeds THEN through[c] ELSE 0]
  /\ told' = [c \in Feeds |-> told[c] \cup IF c \in LockedFeeds THEN Told(c) ELSE {}]
  /\ issued' = today /\ opening' = IF opening = Never THEN today ELSE opening
  /\ EndRun /\ UNCHANGED <<logs, today, joined>>

(* An error, a cancellation, a crash, or the end of the issue's window.    *)
DropIssue == stage # "idle" /\ EndRun /\ UNCHANGED longVars

-----------------------------------------------------------------------------
(* Around the run.                                                         *)

Post(c, size) ==
  /\ Cardinality(Posts) < MaxPosts
  /\ logs' = [logs EXCEPT ![c] = Append(@, [day |-> today, size |-> size])]
  /\ UNCHANGED <<today, joined, cursors, issued, opening, told, scanVars, stage, todo, cutoff, lower,
                 exhausted, refill>>

(* An issue is accepted on its own day or not at all, and an extension     *)
(* waits for the end of the tick, so both are left to the time between     *)
(* two runs.  extend_chats: a chat comes with a zero cursor.               *)
NextDigestDay ==
  /\ stage = "idle" /\ today < FinalDay /\ today' = today + 1
  /\ UNCHANGED <<logs, joined, cursors, issued, opening, told, scanVars, stage, todo, cutoff, lower,
                 exhausted, refill>>
Join(c) ==
  /\ stage = "idle" /\ joined[c] = Never /\ joined' = [joined EXCEPT ![c] = today]
  /\ UNCHANGED <<logs, today, cursors, issued, opening, told, scanVars, stage, todo, cutoff, lower,
                 exhausted, refill>>

-----------------------------------------------------------------------------
CollectInit ==
  /\ logs = [c \in Feeds |-> <<>>] /\ today = 0
  /\ joined = [c \in Feeds |-> IF c = NoFeed THEN 0 ELSE Never]
  /\ cursors = [c \in Feeds |-> 0] /\ issued = Never /\ opening = Never
  /\ told = [c \in Feeds |-> {}]
  /\ stage = "idle" /\ todo = {} /\ feed = NoFeed /\ fetching = FALSE /\ budget = 0 /\ last = 0
  /\ cutoff = Zero /\ lower = Zero /\ through = Zero /\ used = Zero
  /\ selected = [c \in Feeds |-> {}] /\ cutTo = Zero /\ exhausted = {} /\ sold = 0 /\ refill = 0

ScanNext == PassOver \/ TakeRow \/ EndFetch
RunNext ==
  \/ StartIssue \/ ScanNext \/ StartRefill \/ CompletePrompt \/ Accepted \/ DropIssue
  \/ \E c \in Feeds : BeginScan(c) \/ BeginRefill(c) \/ NothingToRefill(c)
CollectNext ==
  \/ RunNext \/ NextDigestDay
  \/ \E c \in Feeds : Join(c) \/ \E size \in RowSizes : Post(c, size)
CollectSpec == CollectInit /\ [][CollectNext]_collectVars

-----------------------------------------------------------------------------
CollectTypeOK ==
  /\ today \in 0..FinalDay /\ issued \in Never..FinalDay /\ opening \in Never..FinalDay
  /\ \A c \in Feeds :
       /\ \A i \in Ids(c) : logs[c][i].day \in 0..FinalDay /\ logs[c][i].size \in RowSizes
       /\ joined[c] \in Never..FinalDay
       /\ cursors[c] \in 0..Len(logs[c]) /\ told[c] \subseteq Ids(c)
       /\ cutoff[c] \in 0..Len(logs[c]) /\ lower[c] \in 0..Len(logs[c])
       /\ through[c] \in 0..Len(logs[c]) /\ used[c] \in Nat /\ selected[c] \subseteq Ids(c)
       /\ cutTo[c] \in Nat
  /\ stage \in {"idle", "first", "refill", "prompt"} /\ todo \subseteq Feeds /\ feed \in Feeds
  /\ fetching \in BOOLEAN /\ budget \in Nat /\ last \in Nat
  /\ exhausted \subseteq Feeds /\ sold \in Nat /\ refill \in Nat

(* No cursor of the receiver passes a text that no issue read or announced *)
(* as skipped, save what a chat held before it was chosen and what was     *)
(* already older than the window when the very first issue came out.       *)
TextIsReadOrReported ==
  \A c \in Feeds : \A i \in 1..cursors[c] :
    \/ logs[c][i].size = 0
    \/ i \in told[c]
    \/ logs[c][i].day < joined[c]
    \/ logs[c][i].day < opening - Lookback

(* The shares and their refill never sell a byte twice: at every moment    *)
(* the rows chosen so far and the separators between them fit the prompt,  *)
(* so the exact check at the end refuses nothing.                          *)
NoByteIsSoldTwice == PromptRows <= RowSpace

(* The order of the chats does not decide who gets the prompt: a chat that *)
(* wanted more than its share has a row in the finished prompt, however    *)
(* big its first one was, and has all of its share, but for less than the  *)
(* next row it was left with, and what was lost when its first row was cut *)
(* to fit a whole share or more.                                           *)
NobodyIsCrowdedOut ==
  stage = "prompt" =>
    \A c \in exhausted :
      /\ used[c] > 0
      /\ \/ used[c] >= Share
         \/ cutTo[c] >= Share
         \/ through[c] < cutoff[c] /\ WithRow(used[c], logs[c][through[c] + 1].size) > Share
=============================================================================

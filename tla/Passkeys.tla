------------------------------ MODULE Passkeys ------------------------------
(***************************************************************************)
(* The passkeys of the vault and the ceremonies that change them:          *)
(* authn.WebAuthnAuthorizer with the tables of guardian.Guardian that      *)
(* stand beside it (_unlock_pending, _registration).                       *)
(*                                                                         *)
(* A ceremony is begun at any time, also while an operation holds the      *)
(* administrative lock and waits for the end of its epoch; it is finished  *)
(* under the lock.  What begin has looked at may have changed by then.     *)
(*                                                                         *)
(* A start is counted for as long as its ceremony may live, so a ceremony  *)
(* is known by its start, and MAX_PENDING_CHALLENGES, which is larger than *)
(* the number of starts, is never what refuses one.  The two seconds       *)
(* between unlock attempts are shorter than a step of the clock.           *)
(***************************************************************************)
EXTENDS Naturals, FiniteSets

CONSTANTS
  Credentials,   \* the passkeys the owner's devices can make
  MaxPasskeys,   \* MAX_PASSKEYS
  Starts,        \* the starts counted at a time: MAX_CEREMONIES_PER_TTL of them
  ChallengeTtl,  \* CHALLENGE_TTL_S
  BootstrapTtl,  \* BOOTSTRAP_TTL_S
  MaxGuesses,    \* failed bootstrap tokens before the token is void
  MaxTokens,     \* bound: bootstrap tokens made
  MaxPolicies    \* bound: the last policy revision

ASSUME PasskeysAssumption ==
  /\ Starts \subseteq Nat /\ MaxPasskeys \in Nat \ {0}
  /\ ChallengeTtl \in Nat \ {0} /\ BootstrapTtl \in Nat \ {0}
  /\ MaxGuesses \in Nat \ {0} /\ MaxTokens \in Nat /\ MaxPolicies \in Nat \ {0}

VARIABLES
  vaultMade,   \* vault.json exists
  passkeys,    \* its passkeys
  policy,      \* policy_revision and security_epoch, which move together
  guardianUp,  \* an engine is installed
  counted,     \* _ceremony_starts: how long each is counted yet
  pending,     \* _pending and _registration: the ceremony of each start, or NoCeremony
  unlocking,   \* _unlock_pending: the starts it names, at most one
  busy,        \* the ceremony whose operation holds the lock and ends its epoch
  token        \* the bootstrap token: its number, its time left and the wrong guesses

passkeyVars ==
  <<vaultMade, passkeys, policy, guardianUp, counted, pending, unlocking, busy, token>>

-----------------------------------------------------------------------------
Ceremonies == {"unlock", "other", "lock", "remove", "add", "register", "bootstrap"}
NoCeremony == [op |-> "none", key |-> "none", policy |-> 0, token |-> 0]
Ceremony(op, key) == [op |-> op, key |-> key, policy |-> policy, token |-> 0]
NoToken == [n |-> 0, left |-> 0, guesses |-> 0]

Free(s) == counted[s] = 0
Earlier(n) == IF n = 0 THEN 0 ELSE n - 1

(* _remember.  Which of the free starts it takes makes no difference.      *)
Remember(ceremony) ==
  \E s \in Starts :
    /\ Free(s) /\ \A r \in Starts : Free(r) => s <= r
    /\ counted' = [counted EXCEPT ![s] = ChallengeTtl]
    /\ pending' = [pending EXCEPT ![s] = ceremony]
RateLimited == \A s \in Starts : ~Free(s)

(* _take: used up whatever comes of it.                                    *)
Consume(s) == pending' = [pending EXCEPT ![s] = NoCeremony]

-----------------------------------------------------------------------------
(* The first passkey.                                                      *)

CreateBootstrap ==
  /\ ~vaultMade /\ token.n < MaxTokens
  /\ token' = [n |-> token.n + 1, left |-> BootstrapTtl, guesses |-> 0]
  /\ UNCHANGED <<vaultMade, passkeys, policy, guardianUp, counted, pending, unlocking, busy>>

BeginBootstrap ==
  /\ ~vaultMade /\ token.left > 0
  /\ \/ /\ token.guesses < MaxGuesses
        /\ Remember([NoCeremony EXCEPT !.op = "bootstrap", !.token = token.n])
        /\ UNCHANGED token
     \/ /\ token' = [token EXCEPT !.guesses = IF @ < MaxGuesses THEN @ + 1 ELSE @]
        /\ UNCHANGED <<counted, pending>>
  /\ UNCHANGED <<vaultMade, passkeys, policy, guardianUp, unlocking, busy>>

(* The token is spent before the vault is made, which may fail.            *)
FinishBootstrap(s, key) ==
  /\ busy = NoCeremony /\ pending[s].op = "bootstrap" /\ Consume(s)
  /\ IF token.left > 0 /\ pending[s].token = token.n
     THEN /\ token' = [token EXCEPT !.left = 0, !.guesses = 0]
          /\ \/ ~vaultMade /\ vaultMade' = TRUE /\ passkeys' = {key}
             \/ UNCHANGED <<vaultMade, passkeys>>
     ELSE UNCHANGED <<token, vaultMade, passkeys>>
  /\ UNCHANGED <<policy, guardianUp, counted, unlocking, busy>>

-----------------------------------------------------------------------------
(* Guardian.begin, and finish while locked.                                *)

BeginUnlock ==
  /\ vaultMade /\ ~guardianUp /\ unlocking = {}
  /\ Remember(Ceremony("unlock", "none"))
  /\ unlocking' = {s \in Starts : Free(s) /\ counted'[s] > 0}
  /\ UNCHANGED <<vaultMade, passkeys, policy, guardianUp, busy, token>>

(* Any attempt ends the wait for its unlock; one that names another        *)
(* ceremony leaves that ceremony in _pending.                              *)
FinishUnlock ==
  /\ vaultMade /\ ~guardianUp /\ busy = NoCeremony /\ unlocking # {} /\ unlocking' = {}
  /\ \/ UNCHANGED <<pending, guardianUp>>
     \/ \E s \in unlocking : Consume(s) /\ guardianUp' \in {FALSE, pending[s].op = "unlock"}
  /\ UNCHANGED <<vaultMade, passkeys, policy, counted, busy, token>>

BeginOperation(op) ==
  /\ guardianUp
  /\ \E key \in IF op = "remove" THEN passkeys ELSE {"none"} :
       /\ op = "remove" => Cardinality(passkeys) > 1
       /\ Remember(Ceremony(op, key))
  /\ UNCHANGED <<vaultMade, passkeys, policy, guardianUp, unlocking, busy, token>>

-----------------------------------------------------------------------------
(* Guardian.finish while unlocked, and registration_finish.                *)

MayFinish(s) == guardianUp /\ busy = NoCeremony /\ pending[s].policy = policy

(* A late unlock runs like an operation, and is refused after the epoch.   *)
FinishOperation(s) ==
  /\ MayFinish(s) /\ pending[s].op \in {"unlock", "other", "lock", "remove"}
  /\ policy < MaxPolicies
  /\ Consume(s) /\ busy' = pending[s]
  /\ UNCHANGED <<vaultMade, passkeys, policy, guardianUp, counted, unlocking, token>>

FinishAdd(s) ==
  /\ MayFinish(s) /\ pending[s].op = "add"
  /\ IF Cardinality(passkeys) < MaxPasskeys /\ ~RateLimited
     THEN \E r \in Starts :
            /\ Free(r) /\ \A q \in Starts : Free(q) => r <= q
            /\ counted' = [counted EXCEPT ![r] = ChallengeTtl]
            /\ pending' = [pending EXCEPT ![s] = NoCeremony, ![r] = Ceremony("register", "none")]
     ELSE Consume(s) /\ UNCHANGED counted
  /\ UNCHANGED <<vaultMade, passkeys, policy, guardianUp, unlocking, busy, token>>

FinishRegistration(s, key) ==
  /\ MayFinish(s) /\ pending[s].op = "register" /\ policy < MaxPolicies
  /\ Consume(s)
  /\ busy' = IF key \in passkeys THEN busy ELSE [pending[s] EXCEPT !.key = key]
  /\ UNCHANGED <<vaultMade, passkeys, policy, guardianUp, counted, unlocking, token>>

(* A finish that fails: a bad assertion, the wrong kind of ceremony.  A    *)
(* view that is renewed leaves the same behind.                            *)
RefuseFinish(s) ==
  /\ busy = NoCeremony /\ pending[s] # NoCeremony
  /\ guardianUp \/ pending[s].op = "bootstrap"
  /\ Consume(s)
  /\ UNCHANGED <<vaultMade, passkeys, policy, guardianUp, counted, unlocking, busy, token>>

-----------------------------------------------------------------------------
(* _end_epoch has waited for the work of the epoch; from here to the       *)
(* change of the passkeys nothing is awaited, but a crash comes between    *)
(* the two updates of the vault.                                           *)

CancelPending ==
  /\ pending' = [s \in Starts |-> NoCeremony]
  /\ token' = [token EXCEPT !.left = 0, !.guesses = 0]
ChangedPasskeys ==
  IF busy.op = "remove" THEN passkeys \ {busy.key}
  ELSE IF busy.op = "register" THEN passkeys \cup {busy.key} ELSE passkeys

(* Faulty variant: a change of the passkeys does not end the epoch.        *)
RunOperationInEpoch ==
  /\ busy # NoCeremony /\ busy.op # "lock"
  /\ passkeys' = ChangedPasskeys /\ busy' = NoCeremony
  /\ UNCHANGED <<vaultMade, policy, guardianUp, counted, pending, unlocking, token>>

RunOperation ==
  /\ busy # NoCeremony /\ busy.op # "lock"
  /\ CancelPending /\ policy' = policy + 1
  /\ passkeys' = ChangedPasskeys /\ busy' = NoCeremony
  /\ UNCHANGED <<vaultMade, guardianUp, counted, unlocking>>

EpochRefusesToEnd ==
  /\ busy # NoCeremony /\ busy' = NoCeremony
  /\ UNCHANGED <<vaultMade, passkeys, policy, guardianUp, counted, pending, unlocking, token>>

(* The end of the process: the lock operation, a write that failed, a      *)
(* crash.  The epoch may have ended by then.                               *)
ProcessEnds ==
  /\ guardianUp' = FALSE /\ busy' = NoCeremony /\ unlocking' = {}
  /\ counted' = [s \in Starts |-> 0] /\ pending' = [s \in Starts |-> NoCeremony]
  /\ token' = [token EXCEPT !.left = 0, !.guesses = 0]
  /\ policy' \in {policy, IF busy = NoCeremony THEN policy ELSE policy + 1}
  /\ UNCHANGED <<vaultMade, passkeys>>

(* A step of the clock; _prune forgets what is over when it is looked at.  *)
ClockSteps ==
  /\ counted' = [s \in Starts |-> Earlier(counted[s])]
  /\ pending' = [s \in Starts |-> IF counted[s] <= 1 THEN NoCeremony ELSE pending[s]]
  /\ unlocking' = {s \in unlocking : counted[s] > 1}
  /\ token' = IF token.left <= 1 THEN [token EXCEPT !.left = 0, !.guesses = 0]
              ELSE [token EXCEPT !.left = @ - 1]
  /\ UNCHANGED <<vaultMade, passkeys, policy, guardianUp, busy>>

-----------------------------------------------------------------------------
PasskeysInit ==
  /\ vaultMade = FALSE /\ passkeys = {} /\ policy = 1 /\ guardianUp = FALSE
  /\ counted = [s \in Starts |-> 0] /\ pending = [s \in Starts |-> NoCeremony]
  /\ unlocking = {} /\ busy = NoCeremony /\ token = NoToken

PasskeysNext ==
  \/ CreateBootstrap \/ BeginBootstrap \/ BeginUnlock \/ FinishUnlock
  \/ \E op \in {"other", "lock", "remove", "add"} : BeginOperation(op)
  \/ \E s \in Starts : FinishOperation(s) \/ FinishAdd(s) \/ RefuseFinish(s)
  \/ \E s \in Starts, key \in Credentials : FinishBootstrap(s, key) \/ FinishRegistration(s, key)
  \/ RunOperation \/ EpochRefusesToEnd \/ ProcessEnds \/ ClockSteps
PasskeysSpec == PasskeysInit /\ [][PasskeysNext]_passkeyVars

-----------------------------------------------------------------------------
CeremonyRecords ==
  [op : Ceremonies \cup {"none"}, key : Credentials \cup {"none"},
   policy : 0..MaxPolicies, token : 0..MaxTokens]
PasskeysTypeOK ==
  /\ vaultMade \in BOOLEAN /\ guardianUp \in BOOLEAN
  /\ passkeys \subseteq Credentials /\ policy \in 1..MaxPolicies
  /\ counted \in [Starts -> 0..ChallengeTtl] /\ unlocking \subseteq Starts
  /\ pending \in [Starts -> CeremonyRecords] /\ busy \in CeremonyRecords
  /\ token \in [n : 0..MaxTokens, left : 0..BootstrapTtl, guesses : 0..MaxGuesses]

(* A vault is never without a passkey, and never has more than the limit:  *)
(* both are looked at when a ceremony begins, and must still hold when it  *)
(* is finished, whatever other ceremony was finished in between.           *)
OwnerKeepsAPasskey == vaultMade => Cardinality(passkeys) \in 1..MaxPasskeys
=============================================================================

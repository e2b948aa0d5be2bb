---------------------------- MODULE VaultProofs ----------------------------
(***************************************************************************)
(* Proofs about the vault: its passkeys (Passkeys), for every set of       *)
(* credentials, every limit and every lifetime of a ceremony, and its      *)
(* files (VaultFiles), for every set of plaintext records and any number   *)
(* of operations and changes of the passphrase.                            *)
(***************************************************************************)
EXTENDS Passkeys, VaultFiles, FiniteSetTheorems, SequenceTheorems, TLAPS

-----------------------------------------------------------------------------
(* The passkeys.                                                           *)

(* A ceremony that is alive, and the one that holds the lock, were begun   *)
(* on the passkeys as they are: that is what the end of an epoch, which    *)
(* drops them all, is for.                                                 *)
CeremonyFits(ceremony) ==
  /\ ceremony.op = "remove" => ceremony.key \in passkeys /\ Cardinality(passkeys) > 1
  /\ ceremony.op = "register" => Cardinality(passkeys) < MaxPasskeys

PasskeysSound ==
  /\ IsFiniteSet(passkeys) /\ OwnerKeepsAPasskey
  /\ ~vaultMade => /\ ~guardianUp /\ busy.op = "none"
                   /\ \A s \in Starts : pending[s].op \in {"none", "bootstrap"}
FitInv ==
  /\ \A s \in Starts : CeremonyFits(pending[s])
  /\ CeremonyFits(busy)
  /\ busy.op = "register" => busy.key \in Credentials \ passkeys
  /\ busy # NoCeremony => policy < MaxPolicies

Shape ==
  /\ vaultMade \in BOOLEAN /\ guardianUp \in BOOLEAN
  /\ passkeys \subseteq Credentials /\ policy \in 1..MaxPolicies
  /\ unlocking \subseteq Starts
  /\ token \in [n : 0..MaxTokens, left : 0..BootstrapTtl, guesses : 0..MaxGuesses]
CeremonyShape ==
  /\ counted \in [Starts -> 0..ChallengeTtl]
  /\ pending \in [Starts -> CeremonyRecords] /\ busy \in CeremonyRecords

PasskeysInv == Shape /\ CeremonyShape /\ PasskeysSound /\ FitInv

-----------------------------------------------------------------------------
LEMMA NoCeremonyShape ==
  NoCeremony \in CeremonyRecords /\ NoCeremony.op = "none" /\ CeremonyFits(NoCeremony)
BY PasskeysAssumption DEF NoCeremony, CeremonyRecords, CeremonyFits

LEMMA Booleans == TRUE \in BOOLEAN /\ FALSE \in BOOLEAN
BY Zenon

(* A token by its parts.                                                   *)
LEMMA TokenShape ==
  ASSUME NEW n \in 0..MaxTokens, NEW left \in 0..BootstrapTtl, NEW guesses \in 0..MaxGuesses
  PROVE  [n |-> n, left |-> left, guesses |-> guesses]
           \in [n : 0..MaxTokens, left : 0..BootstrapTtl, guesses : 0..MaxGuesses]
OBVIOUS

LEMMA Zeros == 0 \in 0..MaxTokens /\ 0 \in 0..BootstrapTtl /\ 0 \in 0..MaxGuesses
BY PasskeysAssumption

(* A token that is void is a token.                                        *)
LEMMA VoidToken ==
  ASSUME PasskeysInv
  PROVE  [token EXCEPT !.left = 0, !.guesses = 0]
           \in [n : 0..MaxTokens, left : 0..BootstrapTtl, guesses : 0..MaxGuesses]
<1>1. token \in [n : 0..MaxTokens, left : 0..BootstrapTtl, guesses : 0..MaxGuesses]
  BY DEF PasskeysInv, Shape
<1> QED
  BY <1>1, Zeros

LEMMA InitEstablishes == PasskeysInit => PasskeysInv
<1> SUFFICES ASSUME PasskeysInit PROVE PasskeysInv
  OBVIOUS
<1>1. Shape
  <2>1. token \in [n : 0..MaxTokens, left : 0..BootstrapTtl, guesses : 0..MaxGuesses]
    BY Zeros, TokenShape DEF PasskeysInit, NoToken
  <2>2. policy \in 1..MaxPolicies
    BY PasskeysAssumption DEF PasskeysInit
  <2> QED
    BY <2>1, <2>2, Booleans DEF PasskeysInit, Shape
<1>2. CeremonyShape
  BY PasskeysAssumption, NoCeremonyShape DEF PasskeysInit, CeremonyShape
<1>3. PasskeysSound
  BY FS_EmptySet, NoCeremonyShape DEF PasskeysInit, PasskeysSound, OwnerKeepsAPasskey
<1>4. FitInv
  BY NoCeremonyShape DEF PasskeysInit, FitInv
<1> QED
  BY <1>1, <1>2, <1>3, <1>4 DEF PasskeysInv

(* A step that begins a ceremony of some kind or drops some, and changes   *)
(* neither the passkeys nor the holder of the lock.                        *)
LEMMA PendingKeeps ==
  ASSUME PasskeysInv, UNCHANGED <<vaultMade, passkeys, policy, busy>>,
         Shape', counted' \in [Starts -> 0..ChallengeTtl],
         pending' \in [Starts -> CeremonyRecords],
         guardianUp' => vaultMade,
         \A s \in Starts : \/ pending'[s] = pending[s] \/ pending'[s] = NoCeremony
                           \/ CeremonyFits(pending'[s]) /\ (~vaultMade => pending'[s].op = "bootstrap")
  PROVE  PasskeysInv'
<1>1. CeremonyShape'
  BY DEF PasskeysInv, CeremonyShape
<1>2. PasskeysSound'
  BY NoCeremonyShape DEF PasskeysInv, PasskeysSound, OwnerKeepsAPasskey, Shape
<1>3. \A s \in Starts : CeremonyFits(pending'[s])
  BY NoCeremonyShape DEF PasskeysInv, FitInv
<1>4. FitInv'
  BY <1>3 DEF PasskeysInv, FitInv, CeremonyFits
<1> QED
  BY <1>1, <1>2, <1>4 DEF PasskeysInv

LEMMA RememberKeeps ==
  ASSUME PasskeysInv, NEW ceremony \in CeremonyRecords, Remember(ceremony)
  PROVE  /\ counted' \in [Starts -> 0..ChallengeTtl]
         /\ pending' \in [Starts -> CeremonyRecords]
         /\ \A s \in Starts : pending'[s] = pending[s] \/ pending'[s] = ceremony
BY PasskeysAssumption DEF PasskeysInv, CeremonyShape, Remember

LEMMA ConsumeKeeps ==
  ASSUME PasskeysInv, NEW s \in Starts, Consume(s)
  PROVE  /\ pending' \in [Starts -> CeremonyRecords]
         /\ \A r \in Starts : pending'[r] = pending[r] \/ pending'[r] = NoCeremony
BY NoCeremonyShape DEF PasskeysInv, CeremonyShape, Consume

-----------------------------------------------------------------------------
(* Beginning a ceremony.                                                   *)
LEMMA BeginsKeep ==
  ASSUME PasskeysInv,
         \/ CreateBootstrap \/ BeginBootstrap \/ BeginUnlock
         \/ \E op \in {"other", "lock", "remove", "add"} : BeginOperation(op)
  PROVE  PasskeysInv'
<1>1. CASE CreateBootstrap
  <2>1. Shape'
    BY <1>1, PasskeysAssumption DEF CreateBootstrap, PasskeysInv, Shape
  <2> QED
    BY <1>1, <2>1, PendingKeeps DEF CreateBootstrap, PasskeysInv, CeremonyShape, PasskeysSound
<1>2. CASE BeginBootstrap
  <2>0. UNCHANGED <<vaultMade, passkeys, policy, guardianUp, unlocking, busy>> /\ ~vaultMade
    BY <1>2 DEF BeginBootstrap
  <2>1. CASE Remember([NoCeremony EXCEPT !.op = "bootstrap", !.token = token.n]) /\ UNCHANGED token
    <3> DEFINE ceremony == [NoCeremony EXCEPT !.op = "bootstrap", !.token = token.n]
    <3>1. ceremony \in CeremonyRecords /\ ceremony.op = "bootstrap"
      BY NoCeremonyShape DEF PasskeysInv, Shape, CeremonyRecords, Ceremonies
    <3>2. Shape'
      BY <2>0, <2>1 DEF PasskeysInv, Shape
    <3>3. CeremonyFits(ceremony)
      BY <3>1 DEF CeremonyFits
    <3>4. /\ counted' \in [Starts -> 0..ChallengeTtl] /\ pending' \in [Starts -> CeremonyRecords]
          /\ \A s \in Starts : pending'[s] = pending[s] \/ pending'[s] = ceremony
      BY <2>1, <3>1, RememberKeeps
    <3>5. \A s \in Starts : pending'[s] = pending[s]
                            \/ (CeremonyFits(pending'[s]) /\ pending'[s].op = "bootstrap")
      BY <3>1, <3>3, <3>4
    <3>6. guardianUp' => vaultMade
      BY <2>0 DEF PasskeysInv, PasskeysSound
    <3> QED
      BY <2>0, <3>2, <3>4, <3>5, <3>6, PendingKeeps
  <2>2. CASE /\ token' = [token EXCEPT !.guesses = IF @ < MaxGuesses THEN @ + 1 ELSE @]
             /\ UNCHANGED <<counted, pending>>
    <3>1. Shape'
      <4>1. token.guesses \in 0..MaxGuesses
        BY DEF PasskeysInv, Shape
      <4>2. (IF token.guesses < MaxGuesses THEN token.guesses + 1 ELSE token.guesses)
              \in 0..MaxGuesses
        BY <4>1, PasskeysAssumption
      <4> QED
        BY <2>0, <2>2, <4>2 DEF PasskeysInv, Shape
    <3> QED
      BY <2>0, <2>2, <3>1, PendingKeeps DEF PasskeysInv, CeremonyShape, PasskeysSound
  <2> QED
    BY <1>2, <2>1, <2>2 DEF BeginBootstrap
<1>3. CASE BeginUnlock
  <2>1. /\ Ceremony("unlock", "none") \in CeremonyRecords
        /\ CeremonyFits(Ceremony("unlock", "none"))
    BY PasskeysAssumption DEF Ceremony, CeremonyRecords, Ceremonies, CeremonyFits, PasskeysInv, Shape
  <2>2. Shape'
    BY <1>3 DEF BeginUnlock, PasskeysInv, Shape
  <2>3. /\ counted' \in [Starts -> 0..ChallengeTtl] /\ pending' \in [Starts -> CeremonyRecords]
        /\ \A s \in Starts : pending'[s] = pending[s] \/ pending'[s] = Ceremony("unlock", "none")
    BY <1>3, <2>1, RememberKeeps DEF BeginUnlock
  <2>4. \A s \in Starts : pending'[s] = pending[s] \/ CeremonyFits(pending'[s])
    BY <2>1, <2>3
  <2> QED
    BY <1>3, <2>2, <2>3, <2>4, PendingKeeps DEF BeginUnlock
<1>4. CASE \E op \in {"other", "lock", "remove", "add"} : BeginOperation(op)
  <2>1. PICK op \in {"other", "lock", "remove", "add"}, key \in passkeys \cup {"none"} :
          /\ guardianUp /\ (op = "remove" => key \in passkeys /\ Cardinality(passkeys) > 1)
          /\ Remember(Ceremony(op, key))
          /\ UNCHANGED <<vaultMade, passkeys, policy, guardianUp, unlocking, busy, token>>
    BY <1>4 DEF BeginOperation
  <2>2. Ceremony(op, key) \in CeremonyRecords /\ CeremonyFits(Ceremony(op, key))
    BY <2>1, PasskeysAssumption DEF Ceremony, CeremonyRecords, Ceremonies, CeremonyFits, PasskeysInv, Shape
  <2>3. Shape'
    BY <2>1 DEF PasskeysInv, Shape
  <2>4. /\ counted' \in [Starts -> 0..ChallengeTtl] /\ pending' \in [Starts -> CeremonyRecords]
        /\ \A s \in Starts : pending'[s] = pending[s] \/ pending'[s] = Ceremony(op, key)
    BY <2>1, <2>2, RememberKeeps
  <2>5. \A s \in Starts : pending'[s] = pending[s] \/ CeremonyFits(pending'[s])
    BY <2>2, <2>4
  <2>6. vaultMade
    BY <2>1 DEF PasskeysInv, PasskeysSound
  <2> QED
    BY <2>1, <2>3, <2>4, <2>5, <2>6, PendingKeeps
<1> QED
  BY <1>1, <1>2, <1>3, <1>4

-----------------------------------------------------------------------------
(* Finishing one.                                                          *)
LEMMA FinishUnlockKeeps == ASSUME PasskeysInv, FinishUnlock PROVE PasskeysInv'
<1>1. UNCHANGED <<vaultMade, passkeys, policy, counted, busy, token>> /\ vaultMade
      /\ unlocking' = {}
  BY DEF FinishUnlock
<1>2. guardianUp' \in BOOLEAN /\ pending' \in [Starts -> CeremonyRecords]
      /\ \A r \in Starts : pending'[r] = pending[r] \/ pending'[r] = NoCeremony
  <2>1. CASE UNCHANGED <<pending, guardianUp>>
    BY <2>1 DEF PasskeysInv, Shape, CeremonyShape
  <2>2. CASE \E s \in unlocking : Consume(s) /\ guardianUp' \in {FALSE, pending[s].op = "unlock"}
    <3>1. PICK s \in Starts : Consume(s) /\ guardianUp' \in {FALSE, pending[s].op = "unlock"}
      BY <2>2 DEF PasskeysInv, Shape
    <3>2. (pending[s].op = "unlock") \in BOOLEAN
      BY SMT
    <3> QED
      BY <3>1, <3>2, ConsumeKeeps, Booleans
  <2> QED
    BY <2>1, <2>2 DEF FinishUnlock
<1>3. Shape'
  BY <1>1, <1>2 DEF PasskeysInv, Shape
<1> QED
  BY <1>1, <1>2, <1>3, PendingKeeps DEF PasskeysInv, CeremonyShape

LEMMA RefuseFinishKeeps ==
  ASSUME PasskeysInv, NEW s \in Starts, RefuseFinish(s)
  PROVE  PasskeysInv'
<1>1. UNCHANGED <<vaultMade, passkeys, policy, guardianUp, counted, unlocking, busy, token>>
      /\ Consume(s)
  BY DEF RefuseFinish
<1>2. Shape'
  BY <1>1 DEF PasskeysInv, Shape
<1> QED
  BY <1>1, <1>2, ConsumeKeeps, PendingKeeps DEF PasskeysInv, CeremonyShape, PasskeysSound

LEMMA FinishAddKeeps ==
  ASSUME PasskeysInv, NEW s \in Starts, FinishAdd(s)
  PROVE  PasskeysInv'
<1>1. UNCHANGED <<vaultMade, passkeys, policy, guardianUp, unlocking, busy, token>> /\ guardianUp
  BY DEF FinishAdd, MayFinish
<1>2. Shape' /\ vaultMade
  BY <1>1 DEF PasskeysInv, Shape, PasskeysSound
<1>3. CASE Consume(s) /\ UNCHANGED counted
  BY <1>1, <1>2, <1>3, ConsumeKeeps, PendingKeeps DEF PasskeysInv, CeremonyShape
<1>4. CASE /\ Cardinality(passkeys) < MaxPasskeys
           /\ \E r \in Starts :
                /\ counted' = [counted EXCEPT ![r] = ChallengeTtl]
                /\ pending' = [pending EXCEPT ![s] = NoCeremony, ![r] = Ceremony("register", "none")]
  <2>1. /\ Ceremony("register", "none") \in CeremonyRecords
        /\ CeremonyFits(Ceremony("register", "none"))
    BY <1>4, PasskeysAssumption DEF Ceremony, CeremonyRecords, Ceremonies, CeremonyFits, PasskeysInv, Shape
  <2>2. /\ counted' \in [Starts -> 0..ChallengeTtl] /\ pending' \in [Starts -> CeremonyRecords]
        /\ \A r \in Starts : \/ pending'[r] = pending[r] \/ pending'[r] = NoCeremony
                             \/ pending'[r] = Ceremony("register", "none")
    BY <1>4, <2>1, NoCeremonyShape, PasskeysAssumption DEF PasskeysInv, CeremonyShape
  <2>3. \A r \in Starts : \/ pending'[r] = pending[r] \/ pending'[r] = NoCeremony
                          \/ CeremonyFits(pending'[r])
    BY <2>1, <2>2
  <2> QED
    BY <1>1, <1>2, <2>2, <2>3, PendingKeeps
<1> QED
  BY <1>3, <1>4 DEF FinishAdd

(* The operation that takes the lock fits the passkeys still.              *)
LEMMA TakesLockKeeps ==
  ASSUME PasskeysInv, NEW s \in Starts, FinishOperation(s) \/ (\E key \in Credentials : FinishRegistration(s, key))
  PROVE  PasskeysInv'
<1>1. UNCHANGED <<vaultMade, passkeys, policy, guardianUp, counted, unlocking, token>>
      /\ Consume(s) /\ policy < MaxPolicies /\ guardianUp /\ busy = NoCeremony
  BY DEF FinishOperation, FinishRegistration, MayFinish
<1>2. Shape' /\ vaultMade
  BY <1>1 DEF PasskeysInv, Shape, PasskeysSound
<1>3. pending[s] \in CeremonyRecords /\ CeremonyFits(pending[s])
  BY DEF PasskeysInv, CeremonyShape, FitInv
<1>4. /\ busy' \in CeremonyRecords /\ CeremonyFits(busy')
      /\ busy'.op = "register" => busy'.key \in Credentials \ passkeys
  <2>1. CASE FinishOperation(s)
    BY <1>3, <2>1 DEF FinishOperation
  <2>2. CASE \E key \in Credentials : FinishRegistration(s, key)
    <3>1. PICK key \in Credentials : FinishRegistration(s, key)
      BY <2>2
    <3>2. CASE key \in passkeys
      BY <1>1, <3>1, <3>2, NoCeremonyShape DEF FinishRegistration
    <3>3. CASE key \notin passkeys
      <4>1. pending[s].op = "register" /\ busy' = [pending[s] EXCEPT !.key = key]
        BY <3>1, <3>3 DEF FinishRegistration
      <4>2. busy' \in CeremonyRecords /\ busy'.op = "register" /\ busy'.key = key
        BY <1>3, <4>1 DEF CeremonyRecords
      <4> QED
        BY <1>3, <3>3, <4>1, <4>2 DEF CeremonyFits
    <3> QED
      BY <3>2, <3>3
  <2> QED
    BY <2>1, <2>2
<1>5. pending' \in [Starts -> CeremonyRecords]
      /\ \A r \in Starts : pending'[r] = pending[r] \/ pending'[r] = NoCeremony
  BY <1>1, ConsumeKeeps
<1>6. CeremonyShape'
  BY <1>1, <1>4, <1>5 DEF PasskeysInv, CeremonyShape
<1>7. PasskeysSound'
  BY <1>1, <1>2 DEF PasskeysInv, PasskeysSound, OwnerKeepsAPasskey
<1>8. \A r \in Starts : CeremonyFits(pending'[r])
  BY <1>5, NoCeremonyShape DEF PasskeysInv, FitInv
<1>9. FitInv'
  BY <1>1, <1>4, <1>8 DEF FitInv, CeremonyFits
<1> QED
  BY <1>2, <1>6, <1>7, <1>9 DEF PasskeysInv

LEMMA FinishBootstrapKeeps ==
  ASSUME PasskeysInv, NEW s \in Starts, NEW key \in Credentials, FinishBootstrap(s, key)
  PROVE  PasskeysInv'
<1>1. UNCHANGED <<policy, guardianUp, counted, unlocking, busy>> /\ Consume(s) /\ busy = NoCeremony
  BY DEF FinishBootstrap
<1>2. token' \in [n : 0..MaxTokens, left : 0..BootstrapTtl, guesses : 0..MaxGuesses]
  <2>1. token' = token \/ token' = [token EXCEPT !.left = 0, !.guesses = 0]
    BY DEF FinishBootstrap
  <2> QED
    BY <2>1, VoidToken DEF PasskeysInv, Shape
<1>3. pending' \in [Starts -> CeremonyRecords]
      /\ \A r \in Starts : pending'[r] = pending[r] \/ pending'[r] = NoCeremony
  BY <1>1, ConsumeKeeps
<1>4. CASE UNCHANGED <<vaultMade, passkeys>>
  <2>1. Shape'
    BY <1>1, <1>2, <1>4 DEF PasskeysInv, Shape
  <2> QED
    BY <1>1, <1>3, <1>4, <2>1, PendingKeeps DEF PasskeysInv, CeremonyShape, PasskeysSound
<1>5. CASE ~vaultMade /\ vaultMade' = TRUE /\ passkeys' = {key}
  <2>1. Shape'
    BY <1>1, <1>2, <1>5, Booleans DEF PasskeysInv, Shape
  <2>2. CeremonyShape'
    BY <1>1, <1>3 DEF PasskeysInv, CeremonyShape
  <2>3. IsFiniteSet(passkeys') /\ Cardinality(passkeys') = 1
    BY <1>5, FS_Singleton
  <2>4. PasskeysSound'
    BY <1>5, <2>3, PasskeysAssumption DEF PasskeysSound, OwnerKeepsAPasskey
  <2>5. \A r \in Starts : pending'[r].op \in {"none", "bootstrap"}
    BY <1>3, <1>5, NoCeremonyShape DEF PasskeysInv, PasskeysSound
  <2>6. FitInv'
    BY <1>1, <2>5, NoCeremonyShape DEF FitInv, CeremonyFits
  <2> QED
    BY <2>1, <2>2, <2>4, <2>6 DEF PasskeysInv
<1> QED
  BY <1>4, <1>5 DEF FinishBootstrap

-----------------------------------------------------------------------------
(* The end of an epoch, of the process and of time.                        *)
LEMMA CancelledShape ==
  ASSUME PasskeysInv, pending' = [s \in Starts |-> NoCeremony],
         token' = [token EXCEPT !.left = 0, !.guesses = 0]
  PROVE  /\ pending' \in [Starts -> CeremonyRecords]
         /\ \A s \in Starts : pending'[s] = NoCeremony
         /\ token' \in [n : 0..MaxTokens, left : 0..BootstrapTtl, guesses : 0..MaxGuesses]
BY NoCeremonyShape, VoidToken

LEMMA RunOperationKeeps == ASSUME PasskeysInv, RunOperation PROVE PasskeysInv'
<1>1. /\ passkeys' = ChangedPasskeys /\ busy' = NoCeremony /\ policy' = policy + 1
      /\ busy # NoCeremony
      /\ UNCHANGED <<vaultMade, guardianUp, counted, unlocking>>
  BY DEF RunOperation
<1>2. /\ pending' \in [Starts -> CeremonyRecords]
      /\ \A s \in Starts : pending'[s] = NoCeremony
      /\ token' \in [n : 0..MaxTokens, left : 0..BootstrapTtl, guesses : 0..MaxGuesses]
  BY CancelledShape DEF RunOperation, CancelPending
<1>3. /\ passkeys' \subseteq Credentials /\ IsFiniteSet(passkeys')
      /\ vaultMade => Cardinality(passkeys') \in 1..MaxPasskeys
  <2>0. IsFiniteSet(passkeys) /\ Cardinality(passkeys) \in Nat /\ passkeys \subseteq Credentials
        /\ (vaultMade => Cardinality(passkeys) \in 1..MaxPasskeys)
    BY FS_CardinalityType DEF PasskeysInv, PasskeysSound, Shape, OwnerKeepsAPasskey
  <2>1. CASE busy.op = "remove"
    <3>1. passkeys' = passkeys \ {busy.key} /\ busy.key \in passkeys /\ Cardinality(passkeys) > 1
      BY <1>1, <2>1 DEF ChangedPasskeys, PasskeysInv, FitInv, CeremonyFits
    <3>2. IsFiniteSet(passkeys') /\ Cardinality(passkeys') = Cardinality(passkeys) - 1
      BY <2>0, <3>1, FS_RemoveElement
    <3> QED
      BY <2>0, <3>1, <3>2, PasskeysAssumption
  <2>2. CASE busy.op = "register"
    <3>1. /\ passkeys' = passkeys \cup {busy.key} /\ busy.key \in Credentials \ passkeys
          /\ Cardinality(passkeys) < MaxPasskeys
      BY <1>1, <2>2 DEF ChangedPasskeys, PasskeysInv, FitInv, CeremonyFits
    <3>2. IsFiniteSet(passkeys') /\ Cardinality(passkeys') = Cardinality(passkeys) + 1
      BY <2>0, <3>1, FS_AddElement
    <3> QED
      BY <2>0, <3>1, <3>2, PasskeysAssumption
  <2>3. CASE busy.op \notin {"remove", "register"}
    BY <1>1, <2>0, <2>3 DEF ChangedPasskeys
  <2> QED
    BY <2>1, <2>2, <2>3
<1>4. policy' \in 1..MaxPolicies
  BY <1>1, PasskeysAssumption DEF PasskeysInv, Shape, FitInv
<1>5. Shape'
  BY <1>1, <1>2, <1>3, <1>4 DEF PasskeysInv, Shape
<1>6. CeremonyShape'
  BY <1>1, <1>2, NoCeremonyShape DEF PasskeysInv, CeremonyShape
<1>7. PasskeysSound'
  BY <1>1, <1>2, <1>3, NoCeremonyShape DEF PasskeysInv, PasskeysSound, OwnerKeepsAPasskey
<1>8. FitInv'
  BY <1>1, <1>2, NoCeremonyShape DEF FitInv, CeremonyFits
<1> QED
  BY <1>5, <1>6, <1>7, <1>8 DEF PasskeysInv

LEMMA ProcessEndsKeeps == ASSUME PasskeysInv, ProcessEnds PROVE PasskeysInv'
<1>1. /\ guardianUp' = FALSE /\ busy' = NoCeremony /\ unlocking' = {}
      /\ counted' = [s \in Starts |-> 0] /\ UNCHANGED <<vaultMade, passkeys>>
  BY DEF ProcessEnds
<1>2. /\ pending' \in [Starts -> CeremonyRecords]
      /\ \A s \in Starts : pending'[s] = NoCeremony
      /\ token' \in [n : 0..MaxTokens, left : 0..BootstrapTtl, guesses : 0..MaxGuesses]
  BY CancelledShape DEF ProcessEnds
<1>3. policy' \in 1..MaxPolicies
  BY PasskeysAssumption DEF ProcessEnds, PasskeysInv, Shape, FitInv
<1>4. Shape'
  BY <1>1, <1>2, <1>3, Booleans DEF PasskeysInv, Shape
<1>5. CeremonyShape'
  BY <1>1, <1>2, NoCeremonyShape, PasskeysAssumption DEF CeremonyShape
<1>6. PasskeysSound'
  BY <1>1, <1>2, NoCeremonyShape DEF PasskeysInv, PasskeysSound, OwnerKeepsAPasskey
<1>7. FitInv'
  BY <1>1, <1>2, NoCeremonyShape DEF FitInv, CeremonyFits
<1> QED
  BY <1>4, <1>5, <1>6, <1>7 DEF PasskeysInv

LEMMA EpochRefusesKeeps == ASSUME PasskeysInv, EpochRefusesToEnd PROVE PasskeysInv'
<1>1. busy' = NoCeremony
      /\ UNCHANGED <<vaultMade, passkeys, policy, guardianUp, counted, pending, unlocking, token>>
  BY DEF EpochRefusesToEnd
<1>2. Shape' /\ CeremonyShape'
  BY <1>1, NoCeremonyShape DEF PasskeysInv, Shape, CeremonyShape
<1>3. PasskeysSound'
  BY <1>1, NoCeremonyShape DEF PasskeysInv, PasskeysSound, OwnerKeepsAPasskey
<1>4. FitInv'
  BY <1>1, NoCeremonyShape DEF PasskeysInv, FitInv, CeremonyFits
<1> QED
  BY <1>2, <1>3, <1>4 DEF PasskeysInv

LEMMA ClockKeeps == ASSUME PasskeysInv, ClockSteps PROVE PasskeysInv'
<1>1. UNCHANGED <<vaultMade, passkeys, policy, guardianUp, busy>>
  BY DEF ClockSteps
<1>2. token' \in [n : 0..MaxTokens, left : 0..BootstrapTtl, guesses : 0..MaxGuesses]
  <2>1. token.left \in 0..BootstrapTtl
    BY DEF PasskeysInv, Shape
  <2>2. CASE token.left <= 1
    BY <2>2, VoidToken DEF ClockSteps
  <2>3. CASE ~(token.left <= 1)
    <3>1. token.left - 1 \in 0..BootstrapTtl
      BY <2>1, <2>3, PasskeysAssumption
    <3> QED
      BY <2>3, <3>1 DEF ClockSteps, PasskeysInv, Shape
  <2> QED
    BY <2>2, <2>3
<1>3. Shape'
  BY <1>1, <1>2 DEF ClockSteps, PasskeysInv, Shape
<1>4. counted' \in [Starts -> 0..ChallengeTtl]
  <2>1. \A n \in 0..ChallengeTtl : Earlier(n) \in 0..ChallengeTtl
    BY PasskeysAssumption DEF Earlier
  <2> QED
    BY <2>1 DEF ClockSteps, PasskeysInv, CeremonyShape
<1>5. pending' \in [Starts -> CeremonyRecords]
      /\ \A s \in Starts : pending'[s] = pending[s] \/ pending'[s] = NoCeremony
  BY NoCeremonyShape DEF ClockSteps, PasskeysInv, CeremonyShape
<1> QED
  BY <1>1, <1>3, <1>4, <1>5, PendingKeeps DEF PasskeysInv, PasskeysSound

LEMMA NextKeeps == PasskeysInv /\ [PasskeysNext]_passkeyVars => PasskeysInv'
<1> SUFFICES ASSUME PasskeysInv, [PasskeysNext]_passkeyVars PROVE PasskeysInv'
  OBVIOUS
<1>1. CASE UNCHANGED passkeyVars
  BY <1>1 DEF passkeyVars, PasskeysInv, Shape, CeremonyShape, PasskeysSound, OwnerKeepsAPasskey,
              FitInv, CeremonyFits
<1>2. CASE \E s \in Starts : \/ FinishOperation(s) \/ FinishAdd(s) \/ RefuseFinish(s)
                             \/ \E key \in Credentials : \/ FinishBootstrap(s, key)
                                                         \/ FinishRegistration(s, key)
  BY <1>2, TakesLockKeeps, FinishAddKeeps, RefuseFinishKeeps, FinishBootstrapKeeps
<1>3. CASE \/ CreateBootstrap \/ BeginBootstrap \/ BeginUnlock
           \/ \E op \in {"other", "lock", "remove", "add"} : BeginOperation(op)
  BY <1>3, BeginsKeep
<1>4. CASE FinishUnlock \/ RunOperation \/ EpochRefusesToEnd \/ ProcessEnds \/ ClockSteps
  BY <1>4, FinishUnlockKeeps, RunOperationKeeps, EpochRefusesKeeps, ProcessEndsKeeps, ClockKeeps
<1> QED
  BY <1>1, <1>2, <1>3, <1>4 DEF PasskeysNext

-----------------------------------------------------------------------------
(* The vault always has a passkey, and never more than the limit, for      *)
(* every number of devices, limits, lifetimes and ceremonies at a time.    *)
THEOREM TheOwnerKeepsAPasskey == PasskeysSpec => []OwnerKeepsAPasskey
<1>1. PasskeysInv => OwnerKeepsAPasskey
  BY DEF PasskeysInv, PasskeysSound
<1> QED
  BY <1>1, InitEstablishes, NextKeeps, PTL DEF PasskeysSpec

(* Types, for every value of the constants.                                *)
THEOREM PasskeysTypesHold == PasskeysSpec => []PasskeysTypeOK
<1>1. PasskeysInv => PasskeysTypeOK
  BY DEF PasskeysInv, Shape, CeremonyShape, PasskeysTypeOK
<1> QED
  BY <1>1, InitEstablishes, NextKeeps, PTL DEF PasskeysSpec

-----------------------------------------------------------------------------
(* The files: no secret is lost, no plaintext survives.                    *)

Envelopes ==
  [kind : {"vault"}, phrase : 0..MaxPhrase, wrapped : 1..(MaxPhrase + 1),
   body : 1..(MaxPhrase + 1), records : SUBSET (Secrets \cup {"later"})]

(* A vault that opens with a passphrase the owner has, and holds it all.   *)
Good(v) == v \in Envelopes /\ Opens(v) /\ v.phrase \in phrases /\ Secrets \subseteq v.records

FilesShape ==
  /\ seen = [f \in Files |-> seen[f]] /\ kept = [f \in Files |-> kept[f]]
  /\ \A f \in Files : seen[f] \in kept[f]
  /\ phrases \subseteq 0..MaxPhrase /\ valid \in BOOLEAN /\ begun \in 0..MaxBegun
  /\ cut \in BOOLEAN /\ dirty \in {"none", "config", "private", "vpn"}

VaultSound == \A v \in kept["vault"] : v = Absent \/ Good(v)

(* While a power loss may still undo the first vault, nothing is removed.  *)
FirstVault ==
  Absent \in kept["vault"] => 0 \in phrases /\ \A f \in Secrets : kept[f] = {PlainFile}

RemnantsGone ==
  /\ kept["remnant"] = {Absent} /\ kept["config_remnant"] = {Absent}
  /\ cut \/ seen["vpn_remnant"] = Absent

(* A vault without a marker beside it means that the migration is over.    *)
MarkedUntilClean ==
  Absent \in kept["marker"] => kept["vault"] = {Absent} \/ RemnantsGone

RamFits ==
  \/ ram = VaultLocked
  \/ There("vault") /\ ram = [key |-> seen["vault"].body, records |-> seen["vault"].records]

(* The operations, and what each has reached at each of its steps.         *)
ApplySteps ==
  <<MarkAs("started"), Write("vault", Envelope(0, 1, 1, Secrets)), WriteManifest, Reopen>>
  \o FinishMigration
UpdateSteps(v) == <<Write("vault", v)>>
ChangeSteps(v) == <<Write("vault", v), Report(v.phrase)>>
RepairSteps == <<WriteManifest, CloseVault>>

UpdateFits(v) == job = UpdateSteps(v) /\ at = 1 /\ Good(v) /\ There("vault")

ChangeFits(v) ==
  /\ job = ChangeSteps(v) /\ Good(v) /\ There("vault")
  /\ \/ at = 1
     \/ at = 2 /\ seen["vault"] = v /\ (dirty = "private" \/ kept["vault"] = {v})

ApplyFits ==
  /\ job = ApplySteps /\ at \in 1..4
  /\ at <= 2 => 0 \in phrases
  /\ at = 2 => There("marker") /\ (dirty = "config" \/ Absent \notin kept["marker"])
  /\ at >= 3 => There("vault")

Finishing(k) == (job = FinishMigration /\ at = k) \/ (job = ApplySteps /\ at = k + 4)

FinishFits(k) ==
  /\ Finishing(k) /\ There("vault")
  /\ k >= 3 => (k = 3 /\ dirty = "private") \/ Absent \notin kept["vault"]
  /\ k >= 3 => dirty = "private" \/ kept["remnant"] = {seen["remnant"]}
  /\ k >= 4 => dirty = "config" \/ kept["config_remnant"] = {seen["config_remnant"]}
  /\ k >= 6 => RemnantsGone /\ seen["vpn_remnant"] = Absent

JobFits ==
  \/ job = <<>> /\ at = 1
  \/ job = RepairSteps /\ at \in 1..2
  \/ \E v \in Envelopes : UpdateFits(v) \/ ChangeFits(v)
  \/ ApplyFits
  \/ \E k \in 1..9 : FinishFits(k)

FilesSound == FilesShape /\ VaultSound /\ FirstVault /\ MarkedUntilClean
FilesInv == FilesSound /\ RamFits /\ JobFits

-----------------------------------------------------------------------------
(* The files are different files, each in its directory.                   *)
LEMMA FileNames ==
  /\ {"vault", "manifest", "marker", "remnant", "config_remnant", "vpn_remnant"} \subseteq Files
  /\ Secrets \subseteq Files
  /\ \A f \in Secrets : f \notin {"vault", "manifest", "marker", "remnant", "config_remnant", "vpn_remnant"}
  /\ DirOf("vault") = "private" /\ DirOf("manifest") = "private" /\ DirOf("marker") = "config"
  /\ DirOf("remnant") = "private" /\ DirOf("vpn_remnant") = "vpn"
  /\ DirOf("config_remnant") = "config"
  /\ \A f \in Files : DirOf(f) \in {"config", "private", "vpn"}
BY VaultFilesAssumption DEF Files, Plain, Remnants, DirOf

LEMMA Contents ==
  /\ PlainFile # Absent /\ [kind |-> "manifest"] # Absent
  /\ \A p : [kind |-> "marker", at |-> p] # Absent
  /\ \A v \in Envelopes : v # Absent /\ v.kind = "vault"
BY DEF PlainFile, Absent, Envelopes

(* The steps of the migration.                                             *)
LEMMA FinishTable ==
  /\ Len(FinishMigration) = 9
  /\ FinishMigration[1] = Validate /\ FinishMigration[2] = WriteManifest
  /\ FinishMigration[3] = MarkAs("committed") /\ FinishMigration[4] = RemoveCanonical
  /\ FinishMigration[5] = RemoveRemnants /\ FinishMigration[6] = CheckRemoved
  /\ FinishMigration[7] = MarkAs("cleaned") /\ FinishMigration[8] = Unlink({"marker"})
  /\ FinishMigration[9] = CloseVault
BY DEF FinishMigration

LEMMA ApplyTable ==
  /\ Len(ApplySteps) = 13
  /\ ApplySteps[1] = MarkAs("started")
  /\ ApplySteps[2] = Write("vault", Envelope(0, 1, 1, Secrets))
  /\ ApplySteps[3] = WriteManifest /\ ApplySteps[4] = Reopen
  /\ \A k \in 1..9 : ApplySteps[k + 4] = FinishMigration[k]
<1> DEFINE first == <<MarkAs("started"), Write("vault", Envelope(0, 1, 1, Secrets)),
                      WriteManifest, Reopen>>
           All == {first[i] : i \in 1..4} \cup {FinishMigration[i] : i \in 1..9}
<1>1. /\ Len(first) = 4 /\ first[1] = MarkAs("started")
      /\ first[2] = Write("vault", Envelope(0, 1, 1, Secrets))
      /\ first[3] = WriteManifest /\ first[4] = Reopen
  OBVIOUS
<1>2. first \in Seq(All)
  OBVIOUS
<1>3. FinishMigration \in Seq(All)
  BY FinishTable DEF FinishMigration
<1>4. ApplySteps = first \o FinishMigration
  BY DEF ApplySteps
<1> HIDE DEF first, All
<1>5. /\ Len(ApplySteps) = Len(first) + Len(FinishMigration)
      /\ \A i \in 1..(Len(first) + Len(FinishMigration)) :
           ApplySteps[i] = IF i <= Len(first) THEN first[i] ELSE FinishMigration[i - Len(first)]
  BY <1>2, <1>3, <1>4, ConcatProperties
<1>6. /\ Len(ApplySteps) = 13
      /\ \A i \in 1..4 : ApplySteps[i] = first[i]
      /\ \A i \in 5..13 : ApplySteps[i] = FinishMigration[i - 4]
  BY <1>1, <1>5, FinishTable
<1>7. \A k \in 1..9 : ApplySteps[k + 4] = FinishMigration[k]
  <2> SUFFICES ASSUME NEW k \in 1..9 PROVE ApplySteps[k + 4] = FinishMigration[k]
    OBVIOUS
  <2>1. k + 4 \in 5..13 /\ (k + 4) - 4 = k
    OBVIOUS
  <2> QED BY <1>6, <2>1
<1> QED BY <1>1, <1>6, <1>7

JobIsDone == job' = <<>> /\ at' = 1

(* How an operation goes on.                                               *)
LEMMA Advance ==
  ASSUME NextStep, at \in Nat
  PROVE  /\ job = RepairSteps /\ at = 1 => job' = RepairSteps /\ at' = 2
         /\ job = RepairSteps /\ at = 2 => JobIsDone
         /\ \A v \in Envelopes :
              /\ job = UpdateSteps(v) /\ at = 1 => JobIsDone
              /\ job = ChangeSteps(v) /\ at = 1 => job' = ChangeSteps(v) /\ at' = 2
              /\ job = ChangeSteps(v) /\ at = 2 => JobIsDone
         /\ job = ApplySteps /\ at \in 1..3 => job' = ApplySteps /\ at' = at + 1
         /\ job = ApplySteps /\ at = 4 => Finishing(1)'
         /\ \A k \in 1..8 : Finishing(k) => Finishing(k + 1)'
         /\ Finishing(9) => JobIsDone
<1>1. ASSUME NEW n \in Nat, Len(job) = n
      PROVE  /\ at < n => at' = at + 1 /\ job' = job
             /\ ~(at < n) => JobIsDone
  BY <1>1 DEF NextStep, JobIsDone
<1>2. Len(RepairSteps) = 2 /\ \A v : Len(UpdateSteps(v)) = 1 /\ Len(ChangeSteps(v)) = 2
  BY DEF RepairSteps, UpdateSteps, ChangeSteps
<1>3. ASSUME job = RepairSteps
      PROVE  /\ at = 1 => job' = RepairSteps /\ at' = 2
             /\ at = 2 => JobIsDone
  <2>1. Len(job) = 2
    BY <1>2, <1>3
  <2> QED BY <1>1, <1>3, <2>1
<1>4. ASSUME NEW v \in Envelopes, job = UpdateSteps(v), at = 1 PROVE JobIsDone
  <2>1. Len(job) = 1
    BY <1>2, <1>4
  <2> QED BY <1>1, <1>4, <2>1
<1>5. ASSUME NEW v \in Envelopes, job = ChangeSteps(v)
      PROVE  /\ at = 1 => job' = ChangeSteps(v) /\ at' = 2
             /\ at = 2 => JobIsDone
  <2>1. Len(job) = 2
    BY <1>2, <1>5
  <2> QED BY <1>1, <1>5, <2>1
<1>6. ASSUME job = ApplySteps
      PROVE  at < 13 => job' = ApplySteps /\ at' = at + 1
  <2>1. Len(job) = 13
    BY <1>6, ApplyTable
  <2> QED BY <1>1, <1>6, <2>1
<1>7. ASSUME job = FinishMigration
      PROVE  at < 9 => job' = FinishMigration /\ at' = at + 1
  <2>1. Len(job) = 9
    BY <1>7, FinishTable
  <2> QED BY <1>1, <1>7, <2>1
<1>8. job = ApplySteps /\ at = 4 => Finishing(1)'
  BY <1>6 DEF Finishing
<1>9. ASSUME NEW k \in 1..8, Finishing(k) PROVE Finishing(k + 1)'
  <2>1. CASE job = FinishMigration /\ at = k
    BY <1>7, <2>1 DEF Finishing
  <2>2. CASE job = ApplySteps /\ at = k + 4
    BY <1>6, <2>2 DEF Finishing
  <2> QED BY <1>9, <2>1, <2>2 DEF Finishing
<1>10. ASSUME Finishing(9) PROVE JobIsDone
  <2>1. \/ Len(job) = 9 /\ at = 9
        \/ Len(job) = 13 /\ at = 13
    BY <1>10, FinishTable, ApplyTable DEF Finishing
  <2>2. CASE Len(job) = 9 /\ at = 9
    BY <1>1, <2>2
  <2>3. CASE Len(job) = 13 /\ at = 13
    BY <1>1, <2>3
  <2> QED BY <2>1, <2>2, <2>3
<1>11. job = ApplySteps /\ at \in 1..3 => job' = ApplySteps /\ at' = at + 1
  BY <1>6
<1> QED BY <1>3, <1>4, <1>5, <1>8, <1>9, <1>10, <1>11

(* The step an operation is at.                                            *)
LEMMA StepAt ==
  ASSUME JobFits, job # <<>>
  PROVE  \/ job = RepairSteps /\ at = 1 /\ job[at] = WriteManifest
         \/ job = RepairSteps /\ at = 2 /\ job[at] = CloseVault
         \/ \E v \in Envelopes :
              \/ UpdateFits(v) /\ job[at] = Write("vault", v)
              \/ ChangeFits(v) /\ at = 1 /\ job[at] = Write("vault", v)
              \/ ChangeFits(v) /\ at = 2 /\ job[at] = Report(v.phrase)
         \/ ApplyFits /\ job[at] = ApplySteps[at]
         \/ \E k \in 1..9 : FinishFits(k) /\ job[at] = FinishMigration[k]
<1>1. CASE job = RepairSteps /\ at \in 1..2
  BY <1>1 DEF RepairSteps
<1>2. ASSUME NEW v \in Envelopes, UpdateFits(v) PROVE UpdateFits(v) /\ job[at] = Write("vault", v)
  BY <1>2 DEF UpdateFits, UpdateSteps
<1>3. ASSUME NEW v \in Envelopes, ChangeFits(v)
      PROVE  \/ ChangeFits(v) /\ at = 1 /\ job[at] = Write("vault", v)
             \/ ChangeFits(v) /\ at = 2 /\ job[at] = Report(v.phrase)
  BY <1>3 DEF ChangeFits, ChangeSteps
<1>4. CASE ApplyFits
  BY <1>4 DEF ApplyFits
<1>5. ASSUME NEW k \in 1..9, FinishFits(k) PROVE FinishFits(k) /\ job[at] = FinishMigration[k]
  BY <1>5, ApplyTable DEF FinishFits, Finishing
<1> QED BY <1>1, <1>2, <1>3, <1>4, <1>5 DEF JobFits

(* What kind of step each one is.                                          *)
LEMMA FileKinds ==
  /\ \A f, v : Write(f, v).do = "write" /\ Write(f, v).file = f /\ Write(f, v).value = v
  /\ \A S : Unlink(S).do = "remove" /\ Unlink(S).files = S
  /\ \A p : Report(p).do = "report" /\ Report(p).phrase = p
  /\ Validate.do = "validate" /\ CheckRemoved.do = "check" /\ Reopen.do = "reopen"
  /\ CloseVault.do = "close"
BY DEF Write, Unlink, Report, Validate, CheckRemoved, Reopen, CloseVault

(* Where a file is written.                                                *)
LEMMA WriteAt ==
  ASSUME JobFits, Doing("write")
  PROVE  \/ job = RepairSteps /\ at = 1 /\ job[at] = WriteManifest
         \/ \E v \in Envelopes :
              /\ job[at] = Write("vault", v)
              /\ UpdateFits(v) \/ (ChangeFits(v) /\ at = 1)
         \/ ApplyFits /\ at = 1 /\ job[at] = MarkAs("started")
         \/ ApplyFits /\ at = 2 /\ job[at] = Write("vault", Envelope(0, 1, 1, Secrets))
         \/ ApplyFits /\ at = 3 /\ job[at] = WriteManifest
         \/ FinishFits(2) /\ job[at] = WriteManifest
         \/ FinishFits(3) /\ job[at] = MarkAs("committed")
         \/ FinishFits(7) /\ job[at] = MarkAs("cleaned")
<1>1. job # <<>> /\ job[at].do = "write"
  BY DEF Doing
<1>2. CASE ApplyFits /\ job[at] = ApplySteps[at]
  BY <1>1, <1>2, ApplyTable, FileKinds DEF ApplyFits
<1>3. ASSUME NEW k \in 1..9, FinishFits(k), job[at] = FinishMigration[k]
      PROVE  \/ FinishFits(2) /\ job[at] = WriteManifest
             \/ FinishFits(3) /\ job[at] = MarkAs("committed")
             \/ FinishFits(7) /\ job[at] = MarkAs("cleaned")
  BY <1>1, <1>3, FinishTable, FileKinds DEF RemoveCanonical, RemoveRemnants
<1>4. ASSUME NEW v \in Envelopes,
             \/ UpdateFits(v) /\ job[at] = Write("vault", v)
             \/ ChangeFits(v) /\ at = 1 /\ job[at] = Write("vault", v)
      PROVE  /\ job[at] = Write("vault", v)
             /\ UpdateFits(v) \/ (ChangeFits(v) /\ at = 1)
  BY <1>4
<1>5. job[at] # CloseVault /\ \A p : job[at] # Report(p)
  BY <1>1, FileKinds
<1> QED BY <1>1, <1>2, <1>3, <1>4, <1>5, StepAt

(* Where files are removed.                                                *)
LEMMA RemoveAt ==
  ASSUME JobFits, Doing("remove")
  PROVE  \/ FinishFits(4) /\ job[at] = Unlink(Secrets)
         \/ FinishFits(5) /\ job[at] = Unlink(Remnants)
         \/ FinishFits(8) /\ job[at] = Unlink({"marker"})
<1>1. job # <<>> /\ job[at].do = "remove"
  BY DEF Doing
<1>2. ~ (ApplyFits /\ job[at] = ApplySteps[at])
  BY <1>1, ApplyTable, FileKinds DEF ApplyFits, MarkAs, WriteManifest
<1>3. ASSUME NEW k \in 1..9, FinishFits(k), job[at] = FinishMigration[k]
      PROVE  \/ FinishFits(4) /\ job[at] = Unlink(Secrets)
             \/ FinishFits(5) /\ job[at] = Unlink(Remnants)
             \/ FinishFits(8) /\ job[at] = Unlink({"marker"})
  BY <1>1, <1>3, FinishTable, FileKinds
     DEF RemoveCanonical, RemoveRemnants, MarkAs, WriteManifest
<1>4. WriteManifest.do = "write"
  BY FileKinds DEF WriteManifest
<1> QED BY <1>1, <1>2, <1>3, <1>4, StepAt, FileKinds

(* Where an operation looks, opens, closes or answers.                     *)
LEMMA OtherAt ==
  ASSUME JobFits
  PROVE  /\ Doing("validate") => FinishFits(1)
         /\ Doing("check") => FinishFits(6)
         /\ Doing("reopen") => ApplyFits /\ at = 4
         /\ Doing("close") => FinishFits(9) \/ (job = RepairSteps /\ at = 2)
         /\ Doing("report") => \E v \in Envelopes :
                                 ChangeFits(v) /\ at = 2 /\ job[at] = Report(v.phrase)
<1> DEFINE Other == {"validate", "check", "reopen", "close", "report"}
<1>1. WriteManifest.do = "write" /\ \A p : MarkAs(p).do = "write"
  BY FileKinds DEF WriteManifest, MarkAs
<1>2. SUFFICES ASSUME job # <<>>, job[at].do \in Other
               PROVE  /\ job[at].do = "validate" => FinishFits(1)
                      /\ job[at].do = "check" => FinishFits(6)
                      /\ job[at].do = "reopen" => ApplyFits /\ at = 4
                      /\ job[at].do = "close" => FinishFits(9) \/ (job = RepairSteps /\ at = 2)
                      /\ job[at].do = "report" => \E v \in Envelopes :
                           ChangeFits(v) /\ at = 2 /\ job[at] = Report(v.phrase)
  BY DEF Doing
<1>3. CASE ApplyFits /\ job[at] = ApplySteps[at]
  <2>1. at = 4 /\ job[at] = Reopen
    BY <1>1, <1>2, <1>3, ApplyTable, FileKinds DEF ApplyFits
  <2> QED BY <1>3, <2>1, FileKinds
<1>4. ASSUME NEW k \in 1..9, FinishFits(k), job[at] = FinishMigration[k]
      PROVE  \/ FinishFits(1) /\ job[at] = Validate
             \/ FinishFits(6) /\ job[at] = CheckRemoved
             \/ FinishFits(9) /\ job[at] = CloseVault
  BY <1>1, <1>2, <1>4, FinishTable, FileKinds DEF RemoveCanonical, RemoveRemnants
<1> QED BY <1>1, <1>2, <1>3, <1>4, StepAt, FileKinds

-----------------------------------------------------------------------------
(* What the steps do to the files.                                         *)

Dirs == {"none", "config", "private", "vpn"}
PutFile(f, v) == seen' = [seen EXCEPT ![f] = v] /\ kept' = [kept EXCEPT ![f] = @ \cup {v}]

(* No file changes; the owner may have one more passphrase to try.         *)
LEMMA FilesAreLeft ==
  ASSUME FilesSound, UNCHANGED <<seen, kept, valid, cut>>,
         phrases \subseteq phrases', phrases' \subseteq 0..MaxPhrase,
         begun' \in 0..MaxBegun, dirty' \in Dirs
  PROVE  FilesSound'
BY DEF FilesSound, FilesShape, VaultSound, FirstVault, MarkedUntilClean, RemnantsGone, Good, Dirs

(* Every file holds something it held or could come to hold.               *)
LEMMA FilesSettle ==
  ASSUME FilesSound, UNCHANGED <<phrases, valid, begun>>, dirty' \in Dirs, cut' \in BOOLEAN,
         seen' = [f \in Files |-> seen'[f]], kept' = [f \in Files |-> kept'[f]],
         \A f \in Files : kept'[f] \subseteq kept[f] /\ seen'[f] \in kept'[f],
         cut => cut', cut' \/ seen' = seen
  PROVE  FilesSound'
<1>1. FilesShape'
  BY DEF FilesSound, FilesShape, Dirs
<1>2. VaultSound'
  BY FileNames DEF FilesSound, VaultSound, Good
<1>3. FirstVault'
  <2> SUFFICES ASSUME Absent \in kept'["vault"]
               PROVE  0 \in phrases' /\ \A f \in Secrets : kept'[f] = {PlainFile}
    BY DEF FirstVault
  <2>1. 0 \in phrases /\ \A f \in Secrets : kept[f] = {PlainFile}
    BY FileNames DEF FilesSound, FirstVault
  <2>2. ASSUME NEW f \in Secrets PROVE kept'[f] = {PlainFile}
    BY <2>1, <2>2, FileNames
  <2> QED BY <2>1, <2>2
<1>4. MarkedUntilClean'
  <2> SUFFICES ASSUME Absent \in kept'["marker"] PROVE kept'["vault"] = {Absent} \/ RemnantsGone'
    BY DEF MarkedUntilClean
  <2>1. kept["vault"] = {Absent} \/ RemnantsGone
    BY FileNames DEF FilesSound, MarkedUntilClean
  <2>2. CASE kept["vault"] = {Absent}
    BY <2>2, FileNames
  <2>3. CASE RemnantsGone
    BY <2>3, FileNames DEF RemnantsGone
  <2> QED BY <2>1, <2>2, <2>3
<1> QED BY <1>1, <1>2, <1>3, <1>4 DEF FilesSound

(* The shape after one entry has changed.                                  *)
LEMMA OneEntry ==
  ASSUME FilesSound, UNCHANGED <<phrases, valid, begun, cut>>, dirty' \in Dirs,
         NEW f \in Files, NEW v, PutFile(f, v)
  PROVE  /\ FilesShape'
         /\ seen'[f] = v /\ kept'[f] = kept[f] \cup {v}
         /\ \A e \in Files \ {f} : seen'[e] = seen[e] /\ kept'[e] = kept[e]
<1>1. /\ seen'[f] = v /\ kept'[f] = kept[f] \cup {v}
      /\ \A e \in Files \ {f} : seen'[e] = seen[e] /\ kept'[e] = kept[e]
      /\ seen' = [e \in Files |-> seen'[e]] /\ kept' = [e \in Files |-> kept'[e]]
  BY DEF FilesSound, FilesShape, PutFile
<1>2. \A e \in Files : seen'[e] \in kept'[e]
  BY <1>1 DEF FilesSound, FilesShape
<1> QED BY <1>1, <1>2 DEF FilesSound, FilesShape, Dirs

(* The manifest or the marker is written.                                  *)
LEMMA WritesAside ==
  ASSUME FilesSound, UNCHANGED <<phrases, valid, begun, cut>>, dirty' \in Dirs,
         NEW f \in {"manifest", "marker"}, NEW v, v # Absent, PutFile(f, v)
  PROVE  FilesSound' /\ \A e \in Files \ {f} : seen'[e] = seen[e] /\ kept'[e] = kept[e]
<1>1. f \in Files /\ f \notin Secrets /\ f \notin {"vault", "remnant", "config_remnant", "vpn_remnant"}
  BY FileNames
<1>2. /\ FilesShape' /\ kept'[f] = kept[f] \cup {v}
      /\ \A e \in Files \ {f} : seen'[e] = seen[e] /\ kept'[e] = kept[e]
  BY <1>1, OneEntry
<1>3. /\ kept'["vault"] = kept["vault"] /\ \A e \in Secrets : kept'[e] = kept[e]
      /\ kept'["remnant"] = kept["remnant"] /\ kept'["config_remnant"] = kept["config_remnant"]
      /\ seen'["vpn_remnant"] = seen["vpn_remnant"]
  BY <1>1, <1>2, FileNames
<1>4. VaultSound' /\ FirstVault'
  BY <1>3 DEF FilesSound, VaultSound, FirstVault, Good
<1>5. Absent \in kept'["marker"] => Absent \in kept["marker"]
  BY <1>1, <1>2, FileNames
<1>6. MarkedUntilClean'
  BY <1>3, <1>5 DEF FilesSound, MarkedUntilClean, RemnantsGone
<1> QED BY <1>2, <1>4, <1>6 DEF FilesSound

(* The vault is written.                                                   *)
LEMMA WritesVault ==
  ASSUME FilesSound, UNCHANGED <<phrases, valid, begun, cut>>, dirty' \in Dirs,
         NEW v \in Envelopes, Good(v), There("vault") \/ Absent \notin kept["marker"],
         PutFile("vault", v)
  PROVE  /\ FilesSound' /\ There("vault")' /\ seen'["vault"] = v
         /\ \A e \in Files \ {"vault"} : seen'[e] = seen[e] /\ kept'[e] = kept[e]
<1>1. /\ FilesShape' /\ seen'["vault"] = v /\ kept'["vault"] = kept["vault"] \cup {v}
      /\ \A e \in Files \ {"vault"} : seen'[e] = seen[e] /\ kept'[e] = kept[e]
  BY FileNames, OneEntry
<1>2. /\ \A e \in Secrets : kept'[e] = kept[e]
      /\ kept'["remnant"] = kept["remnant"] /\ kept'["config_remnant"] = kept["config_remnant"]
      /\ seen'["vpn_remnant"] = seen["vpn_remnant"]
      /\ kept'["marker"] = kept["marker"]
  BY <1>1, FileNames
<1>3. v # Absent /\ There("vault")'
  BY <1>1, Contents DEF There
<1>4. VaultSound'
  BY <1>1 DEF FilesSound, VaultSound, Good
<1>5. FirstVault'
  BY <1>1, <1>2, <1>3 DEF FilesSound, FirstVault
<1>6. MarkedUntilClean'
  <2> SUFFICES ASSUME Absent \in kept'["marker"] PROVE RemnantsGone'
    BY DEF MarkedUntilClean
  <2>1. seen["vault"] # Absent /\ seen["vault"] \in kept["vault"]
    BY <1>2, FileNames DEF There, FilesSound, FilesShape
  <2>2. RemnantsGone
    BY <1>2, <2>1 DEF FilesSound, MarkedUntilClean
  <2> QED BY <1>2, <2>2 DEF RemnantsGone
<1> QED BY <1>1, <1>3, <1>4, <1>5, <1>6 DEF FilesSound

(* A file is unlinked that is in a durable vault, that holds no secret, or *)
(* that is not needed any more.                                            *)
LEMMA Unlinks ==
  ASSUME FilesSound, UNCHANGED <<phrases, valid, begun, cut>>, dirty' \in Dirs,
         NEW f, PutFile(f, Absent),
         \/ f \in Secrets /\ Absent \notin kept["vault"]
         \/ f \in Remnants
         \/ f = "marker" /\ RemnantsGone
  PROVE  /\ FilesSound' /\ seen'[f] = Absent /\ kept'[f] = kept[f] \cup {Absent}
         /\ \A e \in Files \ {f} : seen'[e] = seen[e] /\ kept'[e] = kept[e]
<1>1. f \in Files /\ f # "vault"
  BY FileNames DEF Remnants
<1>2. /\ FilesShape' /\ seen'[f] = Absent /\ kept'[f] = kept[f] \cup {Absent}
      /\ \A e \in Files \ {f} : seen'[e] = seen[e] /\ kept'[e] = kept[e]
  BY <1>1, OneEntry
<1>3. kept'["vault"] = kept["vault"]
  BY <1>1, <1>2, FileNames
<1>4. VaultSound'
  BY <1>3 DEF FilesSound, VaultSound, Good
<1>5. FirstVault'
  <2> SUFFICES ASSUME Absent \in kept'["vault"]
               PROVE  0 \in phrases' /\ \A e \in Secrets : kept'[e] = {PlainFile}
    BY DEF FirstVault
  <2>1. 0 \in phrases /\ \A e \in Secrets : kept[e] = {PlainFile}
    BY <1>3 DEF FilesSound, FirstVault
  <2>2. f \notin Secrets
    BY <1>3, FileNames DEF FilesSound, FirstVault, Remnants
  <2> QED BY <1>2, <2>1, <2>2, FileNames
<1>6. RemnantsGone => RemnantsGone'
  BY <1>2, FileNames DEF RemnantsGone
<1>7. Absent \in kept'["marker"] => Absent \in kept["marker"] \/ f = "marker"
  BY <1>2, FileNames
<1>8. MarkedUntilClean'
  BY <1>3, <1>6, <1>7, FileNames DEF FilesSound, MarkedUntilClean, Remnants
<1> QED BY <1>2, <1>4, <1>5, <1>8 DEF FilesSound

LEMMA PlaceIsNat == JobFits => at \in Nat
BY DEF JobFits, UpdateFits, ChangeFits, ApplyFits, FinishFits, Finishing

-----------------------------------------------------------------------------
(* The beginnings of the operations.                                       *)

LEMMA SeenVault ==
  ASSUME FilesSound
  PROVE  /\ seen["vault"] \in kept["vault"]
         /\ There("vault") => Good(seen["vault"])
BY FileNames DEF FilesSound, FilesShape, VaultSound, There

LEMMA Begins ==
  ASSUME FilesSound, NEW steps, Begin(steps),
         phrases \subseteq phrases', phrases' \subseteq 0..MaxPhrase
  PROVE  /\ FilesSound' /\ job' = steps /\ at' = 1 /\ dirty' = "none"
         /\ UNCHANGED <<seen, kept>>
<1>1. /\ job' = steps /\ at' = 1 /\ dirty' = "none"
      /\ UNCHANGED <<seen, kept, valid, cut>> /\ begun' = begun + 1 /\ begun < MaxBegun
  BY DEF Begin, Idle
<1>2. begun' \in 0..MaxBegun
  BY <1>1, VaultFilesAssumption DEF FilesSound, FilesShape
<1> QED BY <1>1, <1>2, FilesAreLeft DEF Dirs

LEMMA UnlockedVault ==
  ASSUME FilesSound, NEW p \in phrases, Unlocks(p), UNCHANGED seen
  PROVE  There("vault") /\ There("vault")' /\ RamFits' /\ UNCHANGED phrases
BY DEF Unlocks, RamFits, There

LEMMA ApplyBegins ==
  ASSUME FilesInv, Apply
  PROVE  FilesInv'
<1>1. ~There("vault") /\ ram = VaultLocked /\ UNCHANGED <<ram, phrases>>
      /\ Begin(<<MarkAs("started"),
                 Write("vault", Envelope(0, 1, 1, {f \in Secrets : There(f)})),
                 WriteManifest, Reopen>> \o FinishMigration)
  BY DEF Apply
<1>2. Absent \in kept["vault"]
  BY <1>1, SeenVault DEF FilesInv, There
<1>3. 0 \in phrases /\ \A f \in Secrets : kept[f] = {PlainFile}
  BY <1>2 DEF FilesInv, FilesSound, FirstVault
<1>4. \A f \in Secrets : There(f)
  BY <1>3, FileNames, Contents DEF FilesInv, FilesSound, FilesShape, There
<1>5. {f \in Secrets : There(f)} = Secrets
  BY <1>4
<1>6. Begin(ApplySteps)
  BY <1>1, <1>5 DEF ApplySteps
<1>7. phrases' = phrases /\ phrases \subseteq 0..MaxPhrase
  BY <1>1 DEF FilesInv, FilesSound, FilesShape
<1>8. FilesSound' /\ job' = ApplySteps /\ at' = 1
  BY <1>6, <1>7, Begins DEF FilesInv
<1>9. ApplyFits'
  BY <1>3, <1>7, <1>8 DEF ApplyFits
<1> QED BY <1>1, <1>8, <1>9 DEF FilesInv, RamFits, JobFits

LEMMA UnlockBegins ==
  ASSUME FilesInv, Resume \/ RepairManifest \/ Unlock
  PROVE  FilesInv'
<1>1. PICK p \in phrases : Unlocks(p)
  BY DEF Resume, RepairManifest, Unlock, Unlocks
<1>2. UNCHANGED phrases /\ phrases \subseteq 0..MaxPhrase
  BY <1>1 DEF Unlocks, FilesInv, FilesSound, FilesShape
<1>3. ASSUME NEW steps, Begin(steps)
      PROVE  FilesSound' /\ There("vault")' /\ RamFits' /\ job' = steps /\ at' = 1 /\ dirty' = "none"
  <2>1. FilesSound' /\ job' = steps /\ at' = 1 /\ dirty' = "none" /\ UNCHANGED seen
    BY <1>2, <1>3, Begins DEF FilesInv
  <2> QED BY <1>1, <2>1, UnlockedVault DEF FilesInv
<1>4. CASE Resume
  <2>1. /\ FilesSound' /\ There("vault")' /\ RamFits' /\ job' = FinishMigration /\ at' = 1
    BY <1>3, <1>4 DEF Resume
  <2>2. FinishFits(1)'
    BY <2>1 DEF FinishFits, Finishing
  <2> QED BY <2>1, <2>2 DEF FilesInv, JobFits
<1>5. CASE RepairManifest
  <2>1. /\ FilesSound' /\ RamFits' /\ job' = RepairSteps /\ at' = 1
    BY <1>3, <1>5 DEF RepairManifest, RepairSteps
  <2> QED BY <2>1 DEF FilesInv, JobFits
<1>6. CASE Unlock
  <2>1. /\ FilesSound' /\ RamFits' /\ job' = <<>> /\ at' = 1
    BY <1>3, <1>6 DEF Unlock
  <2> QED BY <2>1 DEF FilesInv, JobFits
<1> QED BY <1>4, <1>5, <1>6

(* An unlocked vault is the one on the disk.                               *)
LEMMA Unlocked ==
  ASSUME FilesInv, ram # VaultLocked
  PROVE  /\ There("vault") /\ Good(seen["vault"])
         /\ ram.key = seen["vault"].wrapped /\ ram.records = seen["vault"].records
<1>1. There("vault") /\ ram = [key |-> seen["vault"].body, records |-> seen["vault"].records]
  BY DEF FilesInv, RamFits
<1>2. Good(seen["vault"])
  BY <1>1, SeenVault DEF FilesInv
<1> QED BY <1>1, <1>2 DEF Good, Opens

LEMMA EnvelopeType ==
  ASSUME NEW phrase \in 0..MaxPhrase, NEW key \in 1..(MaxPhrase + 1),
         NEW records \in SUBSET (Secrets \cup {"later"})
  PROVE  /\ Envelope(phrase, key, key, records) \in Envelopes
         /\ Opens(Envelope(phrase, key, key, records))
         /\ Envelope(phrase, key, key, records).phrase = phrase
         /\ Envelope(phrase, key, key, records).records = records
BY DEF Envelope, Envelopes, Opens

LEMMA UpdateBegins ==
  ASSUME FilesInv, Update
  PROVE  FilesInv'
<1>1. /\ ram # VaultLocked /\ UNCHANGED <<ram, phrases>>
  BY DEF Update
<1>2. PICK records \in {Secrets, Secrets \cup {"later"}} :
        Begin(<<Write("vault", Envelope(seen["vault"].phrase, seen["vault"].wrapped,
                                        ram.key, records))>>)
  BY DEF Update
<1>3. /\ There("vault") /\ Good(seen["vault"]) /\ ram.key = seen["vault"].wrapped
  BY <1>1, Unlocked
<1> DEFINE v == Envelope(seen["vault"].phrase, ram.key, ram.key, records)
<1>4. /\ seen["vault"].phrase \in 0..MaxPhrase /\ ram.key \in 1..(MaxPhrase + 1)
      /\ records \in SUBSET (Secrets \cup {"later"}) /\ Secrets \subseteq records
  BY <1>3 DEF Good, Envelopes
<1>5. v \in Envelopes /\ Opens(v) /\ v.phrase = seen["vault"].phrase /\ v.records = records
  BY <1>4, EnvelopeType
<1> HIDE DEF v
<1>6. Good(v)
  BY <1>3, <1>4, <1>5 DEF Good
<1>7. Begin(UpdateSteps(v))
  BY <1>2, <1>3 DEF UpdateSteps, v
<1>8. /\ FilesSound' /\ job' = UpdateSteps(v) /\ at' = 1 /\ UNCHANGED seen
  BY <1>1, <1>7, Begins DEF FilesInv, FilesSound, FilesShape
<1>9. PICK w \in Envelopes : w = v
  BY <1>5
<1>10. UpdateFits(w)'
  BY <1>1, <1>3, <1>6, <1>8, <1>9 DEF UpdateFits, Good, There
<1>11. RamFits'
  BY <1>1, <1>8 DEF FilesInv, RamFits, There
<1> QED BY <1>8, <1>10, <1>11 DEF FilesInv, JobFits

LEMMA ChangeBegins ==
  ASSUME FilesInv, NEW p \in 1..MaxPhrase, ChangePassphrase(p)
  PROVE  FilesInv'
<1> DEFINE v == Envelope(p, p + 1, p + 1, ram.records)
<1>1. /\ ram # VaultLocked /\ UNCHANGED ram /\ phrases' = phrases \cup {p}
      /\ Begin(<<Write("vault", v), Report(p)>>)
  BY DEF ChangePassphrase
<1>2. There("vault") /\ Good(seen["vault"]) /\ ram.records = seen["vault"].records
  BY <1>1, Unlocked
<1>3. /\ p \in 0..MaxPhrase /\ p + 1 \in 1..(MaxPhrase + 1)
  BY VaultFilesAssumption
<1>4. ram.records \in SUBSET (Secrets \cup {"later"}) /\ Secrets \subseteq ram.records
  BY <1>2 DEF Good, Envelopes
<1>5. v \in Envelopes /\ Opens(v) /\ v.phrase = p /\ v.records = ram.records
  BY <1>3, <1>4, EnvelopeType
<1> HIDE DEF v
<1>6. p \in phrases' /\ phrases \subseteq phrases' /\ phrases' \subseteq 0..MaxPhrase
  BY <1>1, <1>3 DEF FilesInv, FilesSound, FilesShape
<1>7. Begin(ChangeSteps(v))
  BY <1>1, <1>5 DEF ChangeSteps
<1>8. /\ FilesSound' /\ job' = ChangeSteps(v) /\ at' = 1 /\ UNCHANGED seen
  BY <1>6, <1>7, Begins DEF FilesInv
<1>9. PICK w \in Envelopes : w = v
  BY <1>5
<1>10. ChangeFits(w)'
  BY <1>2, <1>4, <1>5, <1>6, <1>8, <1>9 DEF ChangeFits, Good, There
<1>11. RamFits'
  BY <1>1, <1>8 DEF FilesInv, RamFits, There
<1> QED BY <1>8, <1>10, <1>11 DEF FilesInv, JobFits

-----------------------------------------------------------------------------
(* The steps of the operations.                                            *)

(* Whatever fails, and a crash, leaves the files as they are and the vault *)
(* locked.                                                                 *)
LEMMA Stops ==
  ASSUME FilesInv, Aborted, Written, UNCHANGED <<seen, kept>>
  PROVE  FilesInv'
<1>1. FilesSound'
  <2>1. /\ UNCHANGED <<phrases, valid, begun, cut>> /\ dirty' = "none"
        /\ phrases \subseteq 0..MaxPhrase /\ begun \in 0..MaxBegun
    BY DEF Written, Aborted, FilesInv, FilesSound, FilesShape
  <2> QED BY <2>1, FilesAreLeft DEF FilesInv, Dirs
<1> QED BY <1>1 DEF Aborted, FilesInv, RamFits, JobFits

LEMMA PowerGoes == FilesInv /\ PowerLoss => FilesInv'
<1> SUFFICES ASSUME FilesInv, PowerLoss PROVE FilesInv'
  OBVIOUS
<1>1. PICK left \in [Unsynced -> UNION {kept[f] : f \in Unsynced}] :
        /\ \A f \in Unsynced : left[f] \in kept[f]
        /\ seen' = [f \in Files |-> IF f \in Unsynced THEN left[f] ELSE seen[f]]
  BY DEF PowerLoss
<1>2. kept' = [f \in Files |-> {seen'[f]}] /\ cut' = TRUE /\ Aborted /\ UNCHANGED <<phrases, valid, begun>>
  BY DEF PowerLoss
<1>3. \A f \in Files : seen'[f] \in kept[f]
  BY <1>1 DEF FilesInv, FilesSound, FilesShape
<1>4. seen' = [f \in Files |-> seen'[f]]
  BY <1>1
<1>5. kept' = [f \in Files |-> kept'[f]]
      /\ \A f \in Files : kept'[f] \subseteq kept[f] /\ seen'[f] \in kept'[f]
  BY <1>2, <1>3
<1>6. dirty' \in Dirs /\ job' = <<>> /\ at' = 1 /\ ram' = VaultLocked
  BY <1>2 DEF Aborted, Dirs
<1>7. FilesSound'
  BY <1>2, <1>4, <1>5, <1>6, FilesSettle DEF FilesInv
<1> QED BY <1>6, <1>7 DEF FilesInv, RamFits, JobFits

LEMMA Syncs == FilesInv /\ DoSync => FilesInv'
<1> SUFFICES ASSUME FilesInv, DoSync PROVE FilesInv'
  OBVIOUS
<1>1. /\ dirty # "none" /\ dirty' = "none" /\ UNCHANGED <<seen, ram, job, at, phrases, valid, begun, cut>>
      /\ kept' = [f \in Files |-> IF DirOf(f) = dirty THEN {seen[f]} ELSE kept[f]]
  BY DEF DoSync, Written
<1>2. /\ seen = [f \in Files |-> seen[f]] /\ \A f \in Files : seen[f] \in kept[f]
      /\ cut \in BOOLEAN
  BY DEF FilesInv, FilesSound, FilesShape
<1>3. FilesSound'
  BY <1>1, <1>2, FilesSettle DEF FilesInv, Dirs
<1>4. \A f \in Files : kept'[f] = IF DirOf(f) = dirty THEN {seen[f]} ELSE kept[f]
  BY <1>1
<1>5. RamFits'
  BY <1>1 DEF FilesInv, RamFits, There
<1>6. \A v : Good(v)' <=> Good(v)
  BY <1>1 DEF Good
<1>7. JobFits'
  <2>1. CASE (job = <<>> /\ at = 1) \/ (job = RepairSteps /\ at \in 1..2)
    BY <1>1, <2>1 DEF JobFits
  <2>2. ASSUME NEW v \in Envelopes, UpdateFits(v) PROVE UpdateFits(v)'
    BY <1>1, <2>2 DEF UpdateFits, Good, There
  <2>3. ASSUME NEW v \in Envelopes, ChangeFits(v) PROVE ChangeFits(v)'
    <3>1. dirty = "private" => kept'["vault"] = {seen["vault"]}
      BY <1>4, FileNames
    <3>2. kept["vault"] = {v} /\ seen["vault"] = v => kept'["vault"] = {v}
      BY <1>4, FileNames
    <3> QED BY <1>1, <2>3, <3>1, <3>2 DEF ChangeFits, Good, There
  <2>4. ASSUME ApplyFits PROVE ApplyFits'
    <3>1. dirty = "config" => kept'["marker"] = {seen["marker"]}
      BY <1>4, FileNames
    <3>2. Absent \notin kept["marker"] => Absent \notin kept'["marker"]
      BY <1>2, <1>4, FileNames
    <3> QED BY <1>1, <2>4, <3>1, <3>2 DEF ApplyFits, There
  <2>5. ASSUME NEW k \in 1..9, FinishFits(k) PROVE FinishFits(k)'
    <3>1. dirty = "private" => kept'["vault"] = {seen["vault"]} /\ kept'["remnant"] = {seen["remnant"]}
      BY <1>4, FileNames
    <3>2. Absent \notin kept["vault"] => Absent \notin kept'["vault"]
      BY <1>2, <1>4, FileNames
    <3>3. /\ kept["remnant"] = {seen["remnant"]} => kept'["remnant"] = {seen["remnant"]}
          /\ kept["config_remnant"] = {seen["config_remnant"]} \/ dirty = "config"
               => kept'["config_remnant"] = {seen["config_remnant"]}
      BY <1>4, FileNames
    <3>4. RemnantsGone => RemnantsGone'
      BY <1>1, <1>2, <1>4, FileNames DEF RemnantsGone
    <3>5. Finishing(k)' /\ There("vault")'
      BY <1>1, <2>5 DEF FinishFits, Finishing, There
    <3>6. k >= 3 => Absent \notin kept'["vault"]
      BY <1>1, <2>5, <3>1, <3>2 DEF FinishFits, There
    <3>7. k >= 3 => kept'["remnant"] = {seen'["remnant"]}
      BY <1>1, <2>5, <3>1, <3>3 DEF FinishFits
    <3>8. k >= 6 => RemnantsGone' /\ seen'["vpn_remnant"] = Absent
      BY <1>1, <2>5, <3>4 DEF FinishFits
    <3>9. k >= 4 => kept'["config_remnant"] = {seen'["config_remnant"]}
      BY <1>1, <2>5, <3>3 DEF FinishFits
    <3> QED BY <3>5, <3>6, <3>7, <3>8, <3>9 DEF FinishFits
  <2> QED BY <2>1, <2>2, <2>3, <2>4, <2>5 DEF FilesInv, JobFits
<1> QED BY <1>3, <1>5, <1>7 DEF FilesInv

(* The checks, the reopening, the closing.                                 *)
LEMMA Looks ==
  ASSUME FilesInv, DoCheck \/ DoReopen \/ DoClose
  PROVE  FilesInv'
<1>1. /\ NextStep /\ UNCHANGED <<seen, kept, dirty, phrases, valid, begun, cut>> /\ dirty = "none"
  BY DEF DoCheck, Checking, DoReopen, DoClose, Doing, Written
<1>2. FilesSound'
  BY <1>1, FilesAreLeft DEF FilesInv, FilesSound, FilesShape, Dirs
<1>3. at \in Nat
  BY PlaceIsNat DEF FilesInv
<1>4. There("vault")' = There("vault")
  BY <1>1 DEF There
<1>5. CASE Doing("validate") /\ UNCHANGED ram
  <2>1. FinishFits(1) /\ Finishing(2)'
    BY <1>1, <1>3, <1>5, OtherAt, Advance DEF FilesInv, FinishFits
  <2>2. FinishFits(2)'
    BY <1>4, <2>1 DEF FinishFits
  <2> QED BY <1>1, <1>2, <1>5, <2>2 DEF FilesInv, RamFits, There, JobFits
<1>6. CASE Doing("check") /\ UNCHANGED ram
  <2>1. FinishFits(6) /\ Finishing(7)'
    BY <1>1, <1>3, <1>6, OtherAt, Advance DEF FilesInv, FinishFits
  <2>2. FinishFits(7)'
    BY <1>1, <1>4, <2>1 DEF FinishFits, RemnantsGone
  <2> QED BY <1>1, <1>2, <1>6, <2>2 DEF FilesInv, RamFits, There, JobFits
<1>7. CASE DoReopen
  <2>1. ApplyFits /\ at = 4 /\ Finishing(1)'
    BY <1>1, <1>3, <1>7, OtherAt, Advance DEF FilesInv, ApplyFits, DoReopen
  <2>2. There("vault")
    BY <2>1 DEF ApplyFits
  <2>3. FinishFits(1)'
    BY <1>4, <2>1, <2>2 DEF FinishFits
  <2>4. RamFits'
    BY <1>1, <1>4, <1>7, <2>2 DEF DoReopen, RamFits
  <2> QED BY <1>2, <2>3, <2>4 DEF FilesInv, JobFits
<1>8. CASE DoClose
  <2>1. FinishFits(9) \/ (job = RepairSteps /\ at = 2)
    BY <1>8, OtherAt DEF FilesInv, DoClose
  <2>2. JobIsDone
    BY <1>1, <1>3, <2>1, Advance DEF FinishFits
  <2> QED BY <1>2, <1>8, <2>2 DEF DoClose, JobIsDone, FilesInv, RamFits, JobFits
<1> QED BY <1>5, <1>6, <1>7, <1>8 DEF DoCheck, Checking

(* The change of the passphrase is reported.                               *)
LEMMA Reports == FilesInv /\ DoReport => FilesInv'
<1> SUFFICES ASSUME FilesInv, DoReport PROVE FilesInv'
  OBVIOUS
<1>1. /\ NextStep /\ phrases' = {job[at].phrase} /\ dirty = "none"
      /\ UNCHANGED <<seen, kept, ram, dirty, valid, begun, cut>>
  BY DEF DoReport, Doing
<1>2. PICK v \in Envelopes : ChangeFits(v) /\ at = 2 /\ job[at] = Report(v.phrase)
  BY OtherAt DEF DoReport, FilesInv
<1>3. phrases' = {v.phrase}
  BY <1>1, <1>2, FileKinds
<1>4. kept["vault"] = {v} /\ Good(v)
  BY <1>1, <1>2 DEF ChangeFits
<1>5. Good(v)' /\ Absent \notin kept'["vault"]
  BY <1>1, <1>3, <1>4, Contents DEF Good
<1>6. phrases' \subseteq 0..MaxPhrase
  BY <1>2, <1>3 DEF Envelopes
<1>7. FilesSound'
  BY <1>1, <1>4, <1>5, <1>6
     DEF FilesInv, FilesSound, FilesShape, VaultSound, FirstVault, MarkedUntilClean, RemnantsGone
<1>8. JobIsDone
  BY <1>1, <1>2, Advance DEF ChangeFits
<1> QED BY <1>1, <1>7, <1>8 DEF FilesInv, RamFits, There, JobFits, JobIsDone

(* An operation that waits is where it was.                                *)
LEMMA JobWaits ==
  ASSUME JobFits, UNCHANGED <<seen, kept, job, at, dirty, phrases, cut>>
  PROVE  JobFits'
<1>1. CASE (job = <<>> /\ at = 1) \/ (job = RepairSteps /\ at \in 1..2)
  BY <1>1 DEF JobFits
<1>2. ASSUME NEW v \in Envelopes, UpdateFits(v) PROVE UpdateFits(v)'
  BY <1>2 DEF UpdateFits, Good, There
<1>3. ASSUME NEW v \in Envelopes, ChangeFits(v) PROVE ChangeFits(v)'
  BY <1>3 DEF ChangeFits, Good, There
<1>4. ASSUME ApplyFits PROVE ApplyFits'
  BY <1>4 DEF ApplyFits, There
<1>5. ASSUME NEW k \in 1..9, FinishFits(k) PROVE FinishFits(k)'
  BY <1>5 DEF FinishFits, Finishing, There, RemnantsGone
<1> QED BY <1>1, <1>2, <1>3, <1>4, <1>5 DEF JobFits

LEMMA Locks == FilesInv /\ Lock => FilesInv'
<1> SUFFICES ASSUME FilesInv, Lock PROVE FilesInv'
  OBVIOUS
<1>1. /\ ram' = VaultLocked
      /\ UNCHANGED <<seen, kept, job, at, dirty, phrases, valid, begun, cut>>
  BY DEF Lock
<1>2. FilesSound'
  BY <1>1, FilesAreLeft DEF FilesInv, FilesSound, FilesShape, Dirs
<1>3. RamFits'
  BY <1>1 DEF RamFits
<1>4. JobFits'
  BY <1>1, JobWaits DEF FilesInv
<1> QED BY <1>2, <1>3, <1>4 DEF FilesInv

(* A file beside the vault is written.                                     *)
LEMMA WroteAside ==
  ASSUME FilesInv, DoWrite, NEW f \in {"manifest", "marker"}, NEW v, v # Absent,
         job[at] = Write(f, v)
  PROVE  /\ FilesSound' /\ RamFits' /\ dirty' = DirOf(f) /\ seen'[f] = v
         /\ kept'["vault"] = kept["vault"] /\ There("vault")' = There("vault")
         /\ kept'["remnant"] = kept["remnant"] /\ seen'["remnant"] = seen["remnant"]
         /\ kept'["config_remnant"] = kept["config_remnant"]
         /\ seen'["config_remnant"] = seen["config_remnant"]
         /\ seen'["vpn_remnant"] = seen["vpn_remnant"]
<1>1. /\ job[at].file = f /\ job[at].value = v
  BY FileKinds
<1>2. /\ f # "vault" /\ f \in Files /\ f \notin {"vault", "remnant", "config_remnant", "vpn_remnant"}
  BY FileNames
<1>3. /\ PutFile(f, v) /\ dirty' = DirOf(f) /\ ram' = ram
      /\ UNCHANGED <<phrases, valid, begun, cut>>
  BY <1>1, <1>2 DEF DoWrite, Written, PutFile
<1>4. dirty' \in Dirs
  BY <1>2, <1>3, FileNames DEF Dirs
<1>5. FilesSound' /\ \A e \in Files \ {f} : seen'[e] = seen[e] /\ kept'[e] = kept[e]
  BY <1>3, <1>4, WritesAside DEF FilesInv
<1>6. seen'[f] = v
  BY <1>2, <1>3 DEF PutFile, FilesInv, FilesSound, FilesShape
<1>7. /\ kept'["vault"] = kept["vault"] /\ seen'["vault"] = seen["vault"]
      /\ kept'["remnant"] = kept["remnant"] /\ seen'["remnant"] = seen["remnant"]
      /\ kept'["config_remnant"] = kept["config_remnant"]
      /\ seen'["config_remnant"] = seen["config_remnant"]
      /\ seen'["vpn_remnant"] = seen["vpn_remnant"]
  BY <1>2, <1>5, FileNames
<1>8. There("vault")' = There("vault") /\ RamFits'
  BY <1>3, <1>7 DEF FilesInv, RamFits, There
<1> QED BY <1>3, <1>5, <1>6, <1>7, <1>8

(* The vault is written.                                                   *)
LEMMA WroteVault ==
  ASSUME FilesInv, DoWrite, NEW v \in Envelopes, Good(v),
         There("vault") \/ Absent \notin kept["marker"], job[at] = Write("vault", v)
  PROVE  /\ FilesSound' /\ RamFits' /\ dirty' = "private" /\ seen'["vault"] = v
         /\ There("vault")' /\ UNCHANGED phrases
<1>1. /\ job[at].file = "vault" /\ job[at].value = v
  BY FileKinds
<1>2. /\ PutFile("vault", v) /\ dirty' = "private" /\ ram' = [key |-> v.body, records |-> v.records]
      /\ UNCHANGED <<phrases, valid, begun, cut>>
  BY <1>1, FileNames DEF DoWrite, Written, PutFile
<1>3. FilesSound' /\ There("vault")' /\ seen'["vault"] = v
  BY <1>2, WritesVault DEF FilesInv, Dirs
<1> QED BY <1>2, <1>3 DEF RamFits

LEMMA DoWriteKeeps == FilesInv /\ DoWrite => FilesInv'
<1> SUFFICES ASSUME FilesInv, DoWrite PROVE FilesInv'
  OBVIOUS
<1>1. /\ Doing("write") /\ dirty = "none" /\ NextStep /\ at \in Nat /\ UNCHANGED phrases
  BY PlaceIsNat DEF FilesInv, DoWrite, Doing, Written
<1>2. /\ [kind |-> "manifest"] # Absent /\ \A p : [kind |-> "marker", at |-> p] # Absent
  BY Contents
<1>3. CASE job[at] = WriteManifest
  <2>1. /\ FilesSound' /\ RamFits' /\ dirty' = "private" /\ There("vault")' = There("vault")
    BY <1>2, <1>3, WroteAside, FileNames DEF WriteManifest
  <2>2. \/ job = RepairSteps /\ at = 1
        \/ ApplyFits /\ at = 3
        \/ FinishFits(2)
    <3>1. /\ \A v : WriteManifest # Write("vault", v)
          /\ \A p : WriteManifest # MarkAs(p)
      BY DEF WriteManifest, MarkAs, Write
    <3> QED BY <1>1, <1>3, <3>1, WriteAt DEF FilesInv
  <2>3. CASE job = RepairSteps /\ at = 1
    BY <1>1, <2>1, <2>3, Advance DEF FilesInv, JobFits
  <2>4. CASE ApplyFits /\ at = 3
    <3>1. job' = ApplySteps /\ at' = 4
      BY <1>1, <2>4, Advance DEF ApplyFits
    <3>2. ApplyFits'
      BY <2>1, <2>4, <3>1 DEF ApplyFits
    <3> QED BY <2>1, <3>2 DEF FilesInv, JobFits
  <2>5. CASE FinishFits(2)
    <3>1. Finishing(3)'
      BY <1>1, <2>5, Advance DEF FinishFits
    <3>2. FinishFits(3)'
      BY <2>1, <2>5, <3>1 DEF FinishFits
    <3> QED BY <2>1, <3>2 DEF FilesInv, JobFits
  <2> QED BY <2>2, <2>3, <2>4, <2>5
<1>4. ASSUME NEW p, job[at] = MarkAs(p) PROVE FilesInv'
  <2>1. /\ FilesSound' /\ RamFits' /\ dirty' = "config" /\ There("marker")'
        /\ kept'["vault"] = kept["vault"] /\ There("vault")' = There("vault")
        /\ kept'["remnant"] = kept["remnant"] /\ seen'["remnant"] = seen["remnant"]
        /\ kept'["config_remnant"] = kept["config_remnant"]
        /\ seen'["config_remnant"] = seen["config_remnant"]
        /\ seen'["vpn_remnant"] = seen["vpn_remnant"]
    <3>1. job[at] = Write("marker", [kind |-> "marker", at |-> p])
      BY <1>4 DEF MarkAs
    <3>2. /\ FilesSound' /\ RamFits' /\ dirty' = DirOf("marker")
          /\ seen'["marker"] = [kind |-> "marker", at |-> p]
          /\ kept'["vault"] = kept["vault"] /\ There("vault")' = There("vault")
          /\ kept'["remnant"] = kept["remnant"] /\ seen'["remnant"] = seen["remnant"]
          /\ kept'["config_remnant"] = kept["config_remnant"]
          /\ seen'["config_remnant"] = seen["config_remnant"]
          /\ seen'["vpn_remnant"] = seen["vpn_remnant"]
      BY <1>2, <3>1, WroteAside
    <3> QED BY <1>2, <3>2, FileNames DEF There
  <2>2. \/ ApplyFits /\ at = 1
        \/ FinishFits(3)
        \/ FinishFits(7)
    <3>1. MarkAs(p) # WriteManifest /\ \A v : MarkAs(p) # Write("vault", v)
      BY DEF WriteManifest, MarkAs, Write
    <3> QED BY <1>1, <1>4, <3>1, WriteAt DEF FilesInv
  <2>3. CASE ApplyFits /\ at = 1
    <3>1. job' = ApplySteps /\ at' = 2
      BY <1>1, <2>3, Advance DEF ApplyFits
    <3>2. ApplyFits'
      BY <1>1, <2>1, <2>3, <3>1 DEF ApplyFits
    <3> QED BY <2>1, <3>2 DEF FilesInv, JobFits
  <2>4. CASE FinishFits(3)
    <3>1. Finishing(4)'
      BY <1>1, <2>4, Advance DEF FinishFits
    <3>2. FinishFits(4)'
      BY <1>1, <2>1, <2>4, <3>1 DEF FinishFits
    <3> QED BY <2>1, <3>2 DEF FilesInv, JobFits
  <2>5. CASE FinishFits(7)
    <3>1. Finishing(8)'
      BY <1>1, <2>5, Advance DEF FinishFits
    <3>2. RemnantsGone'
      <4>1. RemnantsGone /\ UNCHANGED cut
        BY <2>5 DEF FinishFits, DoWrite, Written
      <4> QED BY <2>1, <4>1 DEF RemnantsGone
    <3>3. FinishFits(8)'
      BY <1>1, <2>1, <2>5, <3>1, <3>2 DEF FinishFits
    <3> QED BY <2>1, <3>3 DEF FilesInv, JobFits
  <2> QED BY <2>2, <2>3, <2>4, <2>5
<1>5. ASSUME NEW v \in Envelopes, job[at] = Write("vault", v), UpdateFits(v) \/ (ChangeFits(v) /\ at = 1)
      PROVE  FilesInv'
  <2>1. Good(v) /\ There("vault")
    BY <1>5 DEF UpdateFits, ChangeFits
  <2>2. /\ FilesSound' /\ RamFits' /\ dirty' = "private" /\ seen'["vault"] = v /\ There("vault")'
    BY <1>5, <2>1, WroteVault
  <2>3. CASE UpdateFits(v)
    <3>1. JobIsDone
      BY <1>1, <2>3, Advance DEF UpdateFits
    <3> QED BY <2>2, <3>1 DEF FilesInv, JobFits, JobIsDone
  <2>4. CASE ChangeFits(v) /\ at = 1
    <3>1. job' = ChangeSteps(v) /\ at' = 2
      BY <1>1, <2>4, Advance DEF ChangeFits
    <3>2. ChangeFits(v)'
      BY <1>1, <2>1, <2>2, <3>1 DEF ChangeFits, Good
    <3> QED BY <2>2, <3>2 DEF FilesInv, JobFits
  <2> QED BY <1>5, <2>3, <2>4
<1>6. CASE ApplyFits /\ at = 2 /\ job[at] = Write("vault", Envelope(0, 1, 1, Secrets))
  <2> DEFINE w == Envelope(0, 1, 1, Secrets)
  <2>1. 0 \in phrases /\ Absent \notin kept["marker"]
    BY <1>1, <1>6 DEF ApplyFits
  <2>2. /\ 0 \in 0..MaxPhrase /\ 1 \in 1..(MaxPhrase + 1)
        /\ Secrets \in SUBSET (Secrets \cup {"later"})
    BY VaultFilesAssumption
  <2>3. w \in Envelopes /\ Opens(w) /\ w.phrase = 0 /\ w.records = Secrets
    BY <2>2, EnvelopeType
  <2> HIDE DEF w
  <2>4. PICK v \in Envelopes : v = w
    BY <2>3
  <2>5. Good(v) /\ job[at] = Write("vault", v)
    BY <1>6, <2>1, <2>3, <2>4 DEF Good, w
  <2>6. /\ FilesSound' /\ RamFits' /\ There("vault")'
    BY <2>1, <2>5, WroteVault
  <2>7. job' = ApplySteps /\ at' = 3
    BY <1>1, <1>6, Advance DEF ApplyFits
  <2>8. ApplyFits'
    BY <2>6, <2>7 DEF ApplyFits
  <2> QED BY <2>6, <2>8 DEF FilesInv, JobFits
<1> QED BY <1>1, <1>3, <1>4, <1>5, <1>6, WriteAt DEF FilesInv

LEMMA Removes == FilesInv /\ DoUnlink => FilesInv'
<1> SUFFICES ASSUME FilesInv, DoUnlink PROVE FilesInv'
  OBVIOUS
<1>1. PICK f \in job[at].files :
        /\ There(f) /\ dirty' = DirOf(f) /\ PutFile(f, Absent)
  BY DEF DoUnlink, PutFile
<1>2. /\ Doing("remove") /\ dirty = "none"
      /\ UNCHANGED <<phrases, valid, begun, cut, ram, job, at>>
  BY DEF DoUnlink, Doing, Written
<1>3. PICK k \in {4, 5, 8} :
        /\ FinishFits(k)
        /\ k = 4 => f \in Secrets
        /\ k = 5 => f \in Remnants
        /\ k = 8 => f = "marker"
  BY <1>1, <1>2, RemoveAt, FileKinds DEF FilesInv
<1>4. /\ Absent \notin kept["vault"] /\ kept["remnant"] = {seen["remnant"]}
      /\ kept["config_remnant"] = {seen["config_remnant"]}
      /\ k >= 6 => RemnantsGone /\ seen["vpn_remnant"] = Absent
  BY <1>2, <1>3 DEF FinishFits
<1>5. f \in Files /\ f # "vault" /\ (f \in Remnants => k = 5)
  BY <1>3, FileNames DEF Remnants
<1>6. dirty' \in Dirs
  BY <1>1, <1>5, FileNames DEF Dirs
<1>7. \/ f \in Secrets /\ Absent \notin kept["vault"]
      \/ f \in Remnants
      \/ f = "marker" /\ RemnantsGone
  BY <1>3, <1>4
<1>8. /\ FilesSound' /\ seen'[f] = Absent /\ kept'[f] = kept[f] \cup {Absent}
      /\ \A e \in Files \ {f} : seen'[e] = seen[e] /\ kept'[e] = kept[e]
  BY <1>1, <1>2, <1>6, <1>7, Unlinks DEF FilesInv
<1>9. seen'["vault"] = seen["vault"] /\ kept'["vault"] = kept["vault"]
  BY <1>5, <1>8, FileNames
<1>10. RamFits' /\ There("vault")'
  BY <1>2, <1>3, <1>9 DEF FilesInv, RamFits, There, FinishFits
<1>11. dirty' = "private" \/ kept'["remnant"] = {seen'["remnant"]}
  <2>1. CASE f = "remnant"
    BY <1>1, <2>1, FileNames
  <2>2. CASE f # "remnant"
    BY <1>4, <1>8, <2>2, FileNames
  <2> QED BY <2>1, <2>2
<1>12. dirty' = "config" \/ kept'["config_remnant"] = {seen'["config_remnant"]}
  <2>1. CASE f = "config_remnant"
    BY <1>1, <2>1, FileNames
  <2>2. CASE f # "config_remnant"
    BY <1>4, <1>8, <2>2, FileNames
  <2> QED BY <2>1, <2>2
<1>13. k >= 6 => RemnantsGone' /\ seen'["vpn_remnant"] = Absent
  BY <1>2, <1>4, <1>5, <1>8, FileNames DEF RemnantsGone, Remnants
<1>14. FinishFits(k)'
  BY <1>2, <1>3, <1>4, <1>9, <1>10, <1>11, <1>12, <1>13 DEF FinishFits, Finishing
<1> QED BY <1>8, <1>10, <1>14 DEF FilesInv, JobFits

LEMMA Removed == FilesInv /\ AllUnlinked => FilesInv'
<1> SUFFICES ASSUME FilesInv, AllUnlinked PROVE FilesInv'
  OBVIOUS
<1>1. /\ Doing("remove") /\ dirty = "none" /\ NextStep /\ at \in Nat
      /\ UNCHANGED <<seen, kept, ram, dirty, phrases, valid, begun, cut>>
      /\ \A f \in job[at].files : ~There(f)
  BY PlaceIsNat DEF FilesInv, AllUnlinked, Doing, Written
<1>2. FilesSound'
  BY <1>1, FilesAreLeft DEF FilesInv, FilesSound, FilesShape, Dirs
<1>3. There("vault")' = There("vault") /\ RamFits'
  BY <1>1 DEF FilesInv, RamFits, There
<1>4. RemnantsGone' = RemnantsGone
  BY <1>1 DEF RemnantsGone
<1>5. CASE FinishFits(4)
  <2>1. Finishing(5)'
    BY <1>1, <1>5, Advance DEF FinishFits
  <2>2. FinishFits(5)'
    BY <1>1, <1>3, <1>5, <2>1 DEF FinishFits
  <2> QED BY <1>2, <1>3, <2>2 DEF FilesInv, JobFits
<1>6. CASE FinishFits(5) /\ job[at] = Unlink(Remnants)
  <2>1. Finishing(6)'
    BY <1>1, <1>6, Advance DEF FinishFits
  <2>2. seen["remnant"] = Absent /\ seen["config_remnant"] = Absent /\ seen["vpn_remnant"] = Absent
    BY <1>1, <1>6, FileKinds DEF There, Remnants
  <2>3. RemnantsGone
    BY <1>1, <1>6, <2>2 DEF FinishFits, RemnantsGone
  <2>4. FinishFits(6)'
    BY <1>1, <1>3, <1>4, <1>6, <2>1, <2>2, <2>3 DEF FinishFits
  <2> QED BY <1>2, <1>3, <2>4 DEF FilesInv, JobFits
<1>7. CASE FinishFits(8)
  <2>1. Finishing(9)'
    BY <1>1, <1>7, Advance DEF FinishFits
  <2>2. FinishFits(9)'
    BY <1>1, <1>3, <1>4, <1>7, <2>1 DEF FinishFits
  <2> QED BY <1>2, <1>3, <2>2 DEF FilesInv, JobFits
<1> QED BY <1>1, <1>5, <1>6, <1>7, RemoveAt DEF FilesInv

LEMMA FilesBegin == VaultInit => FilesInv
<1> SUFFICES ASSUME VaultInit PROVE FilesInv
  OBVIOUS
<1>1. /\ seen = [f \in Files |-> IF f \in Plain THEN PlainFile ELSE Absent]
      /\ kept = [f \in Files |-> {seen[f]}]
      /\ ram = VaultLocked /\ job = <<>> /\ at = 1 /\ dirty = "none" /\ phrases = {0}
      /\ valid \in BOOLEAN /\ begun = 0 /\ cut = FALSE
  BY DEF VaultInit
<1>2. \A f \in Files : kept[f] = {seen[f]}
  BY <1>1
<1>3. /\ seen["vault"] = Absent /\ \A f \in Secrets : seen[f] = PlainFile
  BY <1>1, FileNames DEF Plain, Remnants
<1>4. /\ kept["vault"] = {Absent} /\ \A f \in Secrets : kept[f] = {PlainFile}
  BY <1>2, <1>3, FileNames
<1>5. FilesShape
  <2>1. seen = [f \in Files |-> seen[f]] /\ kept = [f \in Files |-> kept[f]]
    BY <1>1
  <2>2. \A f \in Files : seen[f] \in kept[f]
    BY <1>2
  <2>3. phrases \subseteq 0..MaxPhrase /\ begun \in 0..MaxBegun
    BY <1>1, VaultFilesAssumption
  <2> QED BY <1>1, <2>1, <2>2, <2>3 DEF FilesShape
<1>6. VaultSound /\ FirstVault /\ MarkedUntilClean
  BY <1>1, <1>4 DEF VaultSound, FirstVault, MarkedUntilClean
<1> QED BY <1>1, <1>5, <1>6 DEF FilesInv, FilesSound, RamFits, JobFits

LEMMA FilesStep == FilesInv /\ [VaultNext]_vaultVars => FilesInv'
<1> SUFFICES ASSUME FilesInv, [VaultNext]_vaultVars PROVE FilesInv'
  OBVIOUS
<1>1. CASE Apply
  BY <1>1, ApplyBegins
<1>2. CASE Resume \/ RepairManifest \/ Unlock
  BY <1>2, UnlockBegins
<1>3. CASE Update
  BY <1>3, UpdateBegins
<1>4. CASE Lock
  BY <1>4, Locks
<1>5. ASSUME NEW p \in 1..MaxPhrase, ChangePassphrase(p) PROVE FilesInv'
  BY <1>5, ChangeBegins
<1>6. CASE DoWrite
  BY <1>6, DoWriteKeeps
<1>7. CASE DoSync
  BY <1>7, Syncs
<1>8. CASE DoUnlink
  BY <1>8, Removes
<1>9. CASE AllUnlinked
  BY <1>9, Removed
<1>10. CASE DoCheck \/ DoReopen \/ DoClose
  BY <1>10, Looks
<1>11. CASE DoReport
  BY <1>11, Reports
<1>12. CASE CheckFails \/ FileFails \/ VaultCrash
  BY <1>12, Stops DEF CheckFails, FileFails, VaultCrash
<1>13. CASE PowerLoss
  BY <1>13, PowerGoes
<1>14. CASE UNCHANGED vaultVars
  <2>1. UNCHANGED <<seen, kept, ram, job, at, dirty, phrases, valid, begun, cut>>
    BY <1>14 DEF vaultVars
  <2>2. FilesSound'
    BY <2>1, FilesAreLeft DEF FilesInv, FilesSound, FilesShape, Dirs
  <2>3. RamFits'
    BY <2>1 DEF FilesInv, RamFits, There
  <2>4. JobFits'
    BY <2>1, JobWaits DEF FilesInv
  <2> QED BY <2>2, <2>3, <2>4 DEF FilesInv
<1> QED BY <1>1, <1>2, <1>3, <1>4, <1>5, <1>6, <1>7, <1>8, <1>9, <1>10, <1>11, <1>12, <1>13,
           <1>14 DEF VaultNext

LEMMA FilesInvHolds == VaultSpec => []FilesInv
<1>1. VaultInit => FilesInv
  BY FilesBegin
<1>2. FilesInv /\ [VaultNext]_vaultVars => FilesInv'
  BY FilesStep
<1> QED BY <1>1, <1>2, PTL DEF VaultSpec

-----------------------------------------------------------------------------
(* Every variable of the vault's files keeps its type, and an operation    *)
(* never goes on behind its last step.                                     *)
THEOREM VaultTypesHold == VaultSpec => []VaultTypeOK
<1>1. FilesInv => VaultTypeOK
  <2> SUFFICES ASSUME FilesInv PROVE VaultTypeOK
    OBVIOUS
  <2>1. /\ DOMAIN seen = Files /\ DOMAIN kept = Files /\ \A f \in Files : seen[f] \in kept[f]
        /\ phrases \subseteq 0..MaxPhrase /\ valid \in BOOLEAN /\ begun \in 0..MaxBegun
        /\ cut \in BOOLEAN /\ dirty \in {"none", "config", "private", "vpn"}
    BY DEF FilesInv, FilesSound, FilesShape
  <2>2. ram.key \in 0..(MaxPhrase + 1) /\ ram.records \subseteq Secrets \cup {"later"}
    <3>1. CASE ram = VaultLocked
      BY <3>1, VaultFilesAssumption DEF VaultLocked
    <3>2. CASE ram # VaultLocked
      BY <3>2, Unlocked, VaultFilesAssumption DEF Good, Envelopes
    <3> QED BY <3>1, <3>2
  <2>3. at \in Nat \ {0}
    BY DEF FilesInv, JobFits, UpdateFits, ChangeFits, ApplyFits, FinishFits, Finishing
  <2>4. ASSUME job # <<>> PROVE at <= Len(job)
    <3>1. CASE job = RepairSteps /\ at \in 1..2
      BY <3>1 DEF RepairSteps
    <3>2. ASSUME NEW v \in Envelopes, UpdateFits(v) PROVE at <= Len(job)
      BY <3>2 DEF UpdateFits, UpdateSteps
    <3>3. ASSUME NEW v \in Envelopes, ChangeFits(v) PROVE at <= Len(job)
      BY <3>3 DEF ChangeFits, ChangeSteps
    <3>4. CASE ApplyFits
      BY <3>4, ApplyTable DEF ApplyFits
    <3>5. ASSUME NEW k \in 1..9, FinishFits(k) PROVE at <= Len(job)
      <4>1. \/ job = FinishMigration /\ at = k
            \/ job = ApplySteps /\ at = k + 4
        BY <3>5 DEF FinishFits, Finishing
      <4>2. CASE job = FinishMigration /\ at = k
        BY <4>2, FinishTable
      <4>3. CASE job = ApplySteps /\ at = k + 4
        BY <4>3, ApplyTable
      <4> QED BY <4>1, <4>2, <4>3
    <3> QED BY <2>4, <3>1, <3>2, <3>3, <3>4, <3>5 DEF FilesInv, JobFits
  <2> QED BY <2>1, <2>2, <2>3, <2>4 DEF VaultTypeOK
<1> QED BY <1>1, FilesInvHolds, PTL

(* No secret of the installation is ever lost: for every set of legacy     *)
(* records, wherever a write fails, the process dies or the power goes     *)
(* during Vault.initialize, update, change_passphrase and the migration    *)
(* from plaintext (vault.py, migrate_vault.py, storage.py).                *)
THEOREM NoSecretIsLost == VaultSpec => []NothingIsLost
<1>1. FilesInv => NothingIsLost
  <2> SUFFICES ASSUME FilesInv, NEW v \in kept["vault"]
               PROVE  /\ v # Absent => Opens(v) /\ v.phrase \in phrases
                      /\ \A f \in Secrets :
                           v = Absent \/ f \notin v.records => kept[f] = {PlainFile}
    BY DEF NothingIsLost
  <2>1. v = Absent \/ Good(v)
    BY DEF FilesInv, FilesSound, VaultSound
  <2>2. v = Absent => \A f \in Secrets : kept[f] = {PlainFile}
    BY DEF FilesInv, FilesSound, FirstVault
  <2>3. Good(v) => v # Absent
    BY Contents DEF Good
  <2> QED BY <2>1, <2>2, <2>3 DEF Good
<1> QED BY <1>1, FilesInvHolds, PTL

(* A guardian that no longer says migration_blocked has no plaintext left, *)
(* remnants of interrupted writes included (legacy_inventory,              *)
(* unlink_atomic_material).                                                *)
THEOREM ReadyVaultsAreClean == VaultSpec => []ReadyMeansClean
<1>1. FilesInv => ReadyMeansClean
  <2> SUFFICES ASSUME FilesInv, There("vault"), ~Blocked, NEW f \in Plain
               PROVE  ~There(f) \/ (cut /\ f = "vpn_remnant")
    BY DEF ReadyMeansClean
  <2>1. ~There("marker") /\ \A e \in Secrets : ~There(e)
    BY DEF Blocked
  <2>2. Absent \in kept["marker"]
    BY <2>1, FileNames DEF FilesInv, FilesSound, FilesShape, There
  <2>3. kept["vault"] # {Absent}
    BY SeenVault DEF FilesInv, There
  <2>4. RemnantsGone
    BY <2>2, <2>3 DEF FilesInv, FilesSound, MarkedUntilClean
  <2>5. seen["remnant"] = Absent /\ seen["config_remnant"] = Absent
    BY <2>4, FileNames DEF FilesInv, FilesSound, FilesShape, RemnantsGone
  <2> QED BY <2>1, <2>4, <2>5 DEF RemnantsGone, There, Plain, Remnants
<1> QED BY <1>1, FilesInvHolds, PTL
=============================================================================

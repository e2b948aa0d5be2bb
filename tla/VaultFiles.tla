----------------------------- MODULE VaultFiles -----------------------------
(***************************************************************************)
(* The files of the vault: what each atomic write and unlink leaves on the *)
(* disk while Vault.initialize, update and change_passphrase and the       *)
(* migration from plaintext (VaultMigration.apply, resume) run, when the   *)
(* process dies, a write fails or the power goes at any point.             *)
(*                                                                         *)
(* A directory entry that was replaced or unlinked is visible at once and  *)
(* durable after the fsync of its directory; until then a power loss may   *)
(* leave the old entry or the new one, each file for itself.               *)
(***************************************************************************)
EXTENDS Naturals, Sequences, FiniteSets

CONSTANTS
  Secrets,       \* the legacy plaintext records of this installation
  ConfigSecrets, \* those of them in the configuration directory
  VpnSecrets,    \* those of them in the mihomo directory
  MaxPhrase,     \* bound: changes of the passphrase
  MaxBegun       \* bound: operations begun

ASSUME VaultFilesAssumption ==
  /\ IsFiniteSet(Secrets) /\ MaxPhrase \in Nat /\ MaxBegun \in Nat
  /\ ConfigSecrets \subseteq Secrets /\ VpnSecrets \subseteq Secrets \ ConfigSecrets
  /\ Secrets \cap {"config_remnant", "remnant", "vpn_remnant", "vault", "manifest", "marker"} = {}

VARIABLES
  seen,       \* what each file holds for a reader
  kept,       \* what each file may hold after a power loss
  ram,        \* the unlocked vault: its phrase's wrapper, data key and records, or Locked
  job,        \* the steps of the running operation
  at,         \* the place of the next of them
  dirty,      \* the directory that this step has changed and not yet synced, or "none"
  phrases,    \* the passphrases the owner may have to try
  valid,      \* does the migrated snapshot pass _check_runtime_state?
  begun,      \* operations begun
  cut         \* observability: the power has been lost

vaultVars == <<seen, kept, ram, job, at, dirty, phrases, valid, begun, cut>>

-----------------------------------------------------------------------------
(* Files.  A legacy record has its canonical name; a remnant stands for    *)
(* the temporaries of interrupted writes of the plaintext era in one of    *)
(* the three directories.                                                  *)
Remnants == {"config_remnant", "remnant", "vpn_remnant"}
Plain == Secrets \cup Remnants
Files == Plain \cup {"vault", "manifest", "marker"}
DirOf(f) == CASE f \in ConfigSecrets \cup {"config_remnant", "marker"} -> "config"
              [] f \in VpnSecrets \cup {"vpn_remnant"} -> "vpn"
              [] OTHER -> "private"
Absent == [kind |-> "absent"]
PlainFile == [kind |-> "plain"]
Envelope(phrase, wrapped, body, records) ==
  [kind |-> "vault", phrase |-> phrase, wrapped |-> wrapped, body |-> body, records |-> records]
There(f) == seen[f] # Absent

VaultLocked == [key |-> 0, records |-> {}]
Opens(v) == v.wrapped = v.body
Blocked == There("marker") \/ \E f \in Secrets : There(f)

-----------------------------------------------------------------------------
(* Steps of an operation.  A directory is synced after each entry that is  *)
(* replaced or unlinked in it.                                             *)
Write(f, v) == [do |-> "write", file |-> f, value |-> v]
Unlink(files) == [do |-> "remove", files |-> files]
Validate == [do |-> "validate"]
CheckRemoved == [do |-> "check"]
Reopen == [do |-> "reopen"]
CloseVault == [do |-> "close"]
Report(p) == [do |-> "report", phrase |-> p]

WriteManifest == Write("manifest", [kind |-> "manifest"])
MarkAs(p) == Write("marker", [kind |-> "marker", at |-> p])

(* unlink_atomic_material: the canonical names first, then the remnants.   *)
RemoveCanonical == Unlink(Secrets)
(* Faulty variant: the remnants are not looked for.                        *)
OverlookRemnants == Unlink({})
RemoveRemnants == Unlink(Remnants)

FinishMigration ==
  <<Validate, WriteManifest, MarkAs("committed"), RemoveCanonical, RemoveRemnants, CheckRemoved,
    MarkAs("cleaned"), Unlink({"marker"}), CloseVault>>

-----------------------------------------------------------------------------
Idle == job = <<>> /\ dirty = "none"

Begin(steps) ==
  /\ Idle /\ begun < MaxBegun
  /\ begun' = begun + 1 /\ job' = steps /\ at' = 1
  /\ UNCHANGED <<seen, kept, dirty, valid, cut>>

(* registration_finish of a bootstrap, VaultMigration.apply.               *)
Apply ==
  /\ ram = VaultLocked /\ ~There("vault")
  /\ Begin(<<MarkAs("started"),
             Write("vault", Envelope(0, 1, 1, {f \in Secrets : There(f)})),
             WriteManifest, Reopen>> \o FinishMigration)
  /\ UNCHANGED <<ram, phrases>>

(* An unlock, with the passphrase that fits, and _check_runtime_state.     *)
Unlocks(p) ==
  /\ ram = VaultLocked /\ There("vault") /\ valid
  /\ p \in phrases /\ seen["vault"].phrase = p /\ Opens(seen["vault"])
  /\ ram' = [key |-> seen["vault"].body, records |-> seen["vault"].records]
  /\ UNCHANGED phrases

Resume == There("manifest") /\ Blocked /\ (\E p \in phrases : Unlocks(p)) /\ Begin(FinishMigration)
RepairManifest == (\E p \in phrases : Unlocks(p)) /\ Begin(<<WriteManifest, CloseVault>>)
Unlock == There("manifest") /\ ~Blocked /\ (\E p \in phrases : Unlocks(p)) /\ Begin(<<>>)

(* A later write of a record: the wrapper on the disk is kept.             *)
Update ==
  /\ ram # VaultLocked
  /\ \E records \in {Secrets, Secrets \cup {"later"}} :
       Begin(<<Write("vault", Envelope(seen["vault"].phrase, seen["vault"].wrapped,
                                       ram.key, records))>>)
  /\ UNCHANGED <<ram, phrases>>

(* A new passphrase comes with a new data key.                             *)
ChangePassphrase(p) ==
  /\ ram # VaultLocked /\ p \notin phrases
  /\ Begin(<<Write("vault", Envelope(p, p + 1, p + 1, ram.records)), Report(p)>>)
  /\ phrases' = phrases \cup {p}
  /\ UNCHANGED ram

Lock ==
  /\ Idle /\ ram # VaultLocked /\ ram' = VaultLocked
  /\ UNCHANGED <<seen, kept, job, at, dirty, phrases, valid, begun, cut>>

-----------------------------------------------------------------------------
Doing(kind) == job # <<>> /\ dirty = "none" /\ job[at].do = kind
Written == UNCHANGED <<phrases, valid, begun, cut>>
NextStep == IF at < Len(job) THEN at' = at + 1 /\ job' = job ELSE at' = 1 /\ job' = <<>>
Aborted == job' = <<>> /\ at' = 1 /\ dirty' = "none" /\ ram' = VaultLocked

(* Faulty variant: the directory is not synced after the replacement.      *)
DoWriteUnsynced ==
  /\ Doing("write") /\ NextStep /\ dirty' = dirty /\ Written
  /\ LET f == job[at].file
         v == job[at].value
     IN /\ seen' = [seen EXCEPT ![f] = v] /\ kept' = [kept EXCEPT ![f] = @ \cup {v}]
        /\ ram' = IF f = "vault" THEN [key |-> v.body, records |-> v.records] ELSE ram

DoWrite ==
  /\ Doing("write") /\ NextStep /\ dirty' = DirOf(job[at].file) /\ Written
  /\ LET f == job[at].file
         v == job[at].value
     IN /\ seen' = [seen EXCEPT ![f] = v] /\ kept' = [kept EXCEPT ![f] = @ \cup {v}]
        /\ ram' = IF f = "vault" THEN [key |-> v.body, records |-> v.records] ELSE ram

DoSync ==
  /\ dirty # "none" /\ dirty' = "none" /\ Written
  /\ kept' = [f \in Files |-> IF DirOf(f) = dirty THEN {seen[f]} ELSE kept[f]]
  /\ UNCHANGED <<seen, ram, job, at>>

(* safe_unlink of a name that is gone returns before the fsync.            *)
DoUnlink ==
  /\ Doing("remove") /\ Written /\ UNCHANGED <<ram, job, at>>
  /\ \E f \in job[at].files :
       /\ There(f) /\ dirty' = DirOf(f)
       /\ seen' = [seen EXCEPT ![f] = Absent]
       /\ kept' = [kept EXCEPT ![f] = @ \cup {Absent}]

AllUnlinked ==
  /\ Doing("remove") /\ ~\E f \in job[at].files : There(f)
  /\ NextStep /\ Written /\ UNCHANGED <<seen, kept, ram, dirty>>

(* The runtime check of the migrated records, and legacy_inventory.        *)
Checking == Doing("validate") \/ Doing("check")
CheckHolds == IF job[at].do = "validate" THEN valid ELSE ~\E f \in Secrets : There(f)

DoCheck ==
  /\ Checking /\ CheckHolds
  /\ NextStep /\ Written /\ UNCHANGED <<seen, kept, ram, dirty>>

CheckFails ==
  /\ Checking /\ ~CheckHolds
  /\ Aborted /\ Written /\ UNCHANGED <<seen, kept>>

DoReopen ==
  /\ Doing("reopen") /\ Opens(seen["vault"])
  /\ ram' = [key |-> seen["vault"].body, records |-> seen["vault"].records]
  /\ NextStep /\ Written /\ UNCHANGED <<seen, kept, dirty>>

DoClose ==
  /\ Doing("close") /\ ram' = VaultLocked
  /\ NextStep /\ Written /\ UNCHANGED <<seen, kept, dirty>>

DoReport ==
  /\ Doing("report") /\ NextStep /\ phrases' = {job[at].phrase}
  /\ UNCHANGED <<seen, kept, ram, dirty, valid, begun, cut>>

(* A write, an fsync or an unlink that fails closes the vault.  A failed   *)
(* fsync comes after a replacement that is already visible.                *)
FileFails ==
  /\ dirty # "none" \/ Doing("write") \/ Doing("remove")
  /\ Aborted /\ Written /\ UNCHANGED <<seen, kept>>

VaultCrash ==
  /\ ~Idle \/ ram # VaultLocked
  /\ Aborted /\ Written /\ UNCHANGED <<seen, kept>>

Unsynced == {f \in Files : kept[f] # {seen[f]}}
PowerLoss ==
  /\ cut' = TRUE /\ Aborted
  /\ \E left \in [Unsynced -> UNION {kept[f] : f \in Unsynced}] :
       /\ \A f \in Unsynced : left[f] \in kept[f]
       /\ seen' = [f \in Files |-> IF f \in Unsynced THEN left[f] ELSE seen[f]]
  /\ kept' = [f \in Files |-> {seen'[f]}]
  /\ UNCHANGED <<phrases, valid, begun>>

-----------------------------------------------------------------------------
VaultInit ==
  /\ seen = [f \in Files |-> IF f \in Plain THEN PlainFile ELSE Absent]
  /\ kept = [f \in Files |-> {seen[f]}]
  /\ ram = VaultLocked /\ job = <<>> /\ at = 1 /\ dirty = "none" /\ phrases = {0}
  /\ valid \in BOOLEAN /\ begun = 0 /\ cut = FALSE

VaultNext ==
  \/ Apply \/ Resume \/ RepairManifest \/ Unlock \/ Update \/ Lock
  \/ \E p \in 1..MaxPhrase : ChangePassphrase(p)
  \/ DoWrite \/ DoSync \/ DoUnlink \/ AllUnlinked \/ DoCheck \/ CheckFails \/ DoReopen
  \/ DoClose \/ DoReport \/ FileFails \/ VaultCrash \/ PowerLoss
VaultSpec == VaultInit /\ [][VaultNext]_vaultVars

-----------------------------------------------------------------------------
VaultTypeOK ==
  /\ DOMAIN seen = Files /\ DOMAIN kept = Files /\ \A f \in Files : seen[f] \in kept[f]
  /\ ram.key \in 0..(MaxPhrase + 1) /\ ram.records \subseteq Secrets \cup {"later"}
  /\ phrases \subseteq 0..MaxPhrase /\ valid \in BOOLEAN /\ begun \in 0..MaxBegun /\ cut \in BOOLEAN
  /\ at \in Nat \ {0} /\ (job # <<>> => at <= Len(job))
  /\ dirty \in {"none", "config", "private", "vpn"}

(* Whatever a power loss may leave now, every secret of the installation   *)
(* is in a vault that opens with a passphrase the owner has, or is still   *)
(* in its plaintext file.                                                  *)
NothingIsLost ==
  \A v \in kept["vault"] :
    /\ v # Absent => Opens(v) /\ v.phrase \in phrases
    /\ \A f \in Secrets : v = Absent \/ f \notin v.records => kept[f] = {PlainFile}

(* When the guardian stops saying migration_blocked, no plaintext is left, *)
(* remnants of interrupted writes included, also if the power goes now: a  *)
(* resumed migration syncs the private directory with its manifest and the *)
(* configuration with its marker.  Only the mihomo directory is not synced *)
(* again for a remnant that an earlier process had removed and not synced. *)
ReadyMeansClean ==
  There("vault") /\ ~Blocked =>
    \A f \in Plain : ~There(f) \/ (cut /\ f = "vpn_remnant")
=============================================================================

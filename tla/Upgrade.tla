------------------------------- MODULE Upgrade -------------------------------
(***************************************************************************)
(* `syns upgrade` (src/commands/upgrade.rs, src/install_detect.rs,         *)
(* src/checksum_verify.rs): the release found, compared, downloaded beside *)
(* the running binary, verified, unpacked and put in its place.            *)
(*                                                                         *)
(* An archive is what verifying and unpacking it tell apart.  The release  *)
(* host, `gh`, the swap of a running binary and its clean-up are external; *)
(* the test-only address overrides and the messages are left out.          *)
(***************************************************************************)
EXTENDS Integers

CONSTANTS
    ReleaseVersions, \* versions a release may carry
    RunningVersion

ASSUME UpgradeAssumption == ReleaseVersions \subseteq Int /\ RunningVersion \in Int

VARIABLE upgrade
upgradeVars == <<upgrade>>

(* Where the binary stands (`detect_install_method_with`).                  *)
Managed == {"homebrew", "scoop", "nix"}
InstallMethods == Managed \cup {"cargo", "curl", "unmanaged"}

Flags == [checkOnly : BOOLEAN, force : BOOLEAN, noChecksum : BOOLEAN, noAttestation : BOOLEAN]

(* A release archive, and as a download may leave it.                       *)
Archives == [published : BOOLEAN, attested : BOOLEAN, unpacks : BOOLEAN]
NoArchive == [published |-> FALSE, attested |-> FALSE, unpacks |-> FALSE]

UpgradeStart(given, method) ==
    [flags |-> given, method |-> method, at |-> "metadata", latest |-> RunningVersion,
     installed |-> [version |-> RunningVersion, archive |-> NoArchive],
     staged |-> FALSE, archive |-> NoArchive, extracted |-> FALSE, claim |-> "none"]
UpgradeInit ==
    \E given \in Flags, method \in InstallMethods : upgrade = UpgradeStart(given, method)

(* Every return, the failures too, drops the staging directory.             *)
Returned(u, how) == [u EXCEPT !.at = how, !.staged = FALSE, !.extracted = FALSE]
FailsWith(u) == upgrade' = Returned(u, "failed")

ManagedRedirect ==
    /\ upgrade.at = "metadata" /\ upgrade.method \in Managed
    /\ upgrade' = Returned(upgrade, "redirected")

(* The newest release, its version, and the archive for this target.        *)
FetchMetadata ==
    /\ upgrade.at = "metadata" /\ upgrade.method \notin Managed
    /\ \/ FailsWith(upgrade)
       \/ \E latest \in ReleaseVersions :
            upgrade' = [upgrade EXCEPT !.at = "compare", !.latest = latest]

UpToDate == RunningVersion >= upgrade.latest /\ ~upgrade.flags.force

CompareVersion ==
    /\ upgrade.at = "compare"
    /\ \/ UpToDate /\ upgrade' = Returned(upgrade, "up to date")
       \/ /\ ~UpToDate /\ upgrade.flags.checkOnly
          /\ upgrade' = Returned(upgrade, "would upgrade")
       \/ /\ ~UpToDate /\ ~upgrade.flags.checkOnly
          /\ \/ upgrade' = [upgrade EXCEPT !.at = "download", !.staged = TRUE]
             \/ FailsWith(upgrade)

(* The archive as it came down; its bytes are the published ones, or not.   *)
Download ==
    /\ upgrade.at = "download"
    /\ \/ FailsWith(upgrade)
       \/ \E archive \in Archives :
            upgrade' = [upgrade EXCEPT !.archive = archive, !.at = "checksum"]

(* Mutant: a release without the target's line is taken as it is.           *)
MutChecksumFails(line, archive) == line /\ ~archive.published
ChecksumFails(line, archive) == ~line \/ ~archive.published
VerifyChecksum ==
    /\ upgrade.at = "checksum"
    /\ \/ upgrade.flags.noChecksum /\ upgrade' = [upgrade EXCEPT !.at = "attestation"]
       \/ /\ ~upgrade.flags.noChecksum
          /\ \E line \in BOOLEAN :
               \/ ChecksumFails(line, upgrade.archive) /\ FailsWith(upgrade)
               \/ /\ ~ChecksumFails(line, upgrade.archive)
                  /\ upgrade' = [upgrade EXCEPT !.at = "attestation"]
VerifyAttestation ==
    /\ upgrade.at = "attestation"
    /\ \/ /\ upgrade.flags.noAttestation \/ upgrade.archive.attested
          /\ upgrade' = [upgrade EXCEPT !.at = "extract"]
       \/ ~upgrade.flags.noAttestation /\ FailsWith(upgrade)

(* The binary is written whole beside the archive, or the upgrade fails.    *)
Extract ==
    /\ upgrade.at = "extract"
    /\ \/ /\ upgrade.archive.unpacks
          /\ upgrade' = [upgrade EXCEPT !.extracted = TRUE, !.at = "replace"]
       \/ FailsWith(upgrade)

(* What the last line claims of the new binary.                             *)
Claim(given) ==
    IF ~given.noAttestation THEN "SLSA-verified"
    ELSE IF ~given.noChecksum THEN "integrity-checked" ELSE "unverified"
Replace ==
    /\ upgrade.at = "replace"
    /\ \/ FailsWith(upgrade)
       \/ upgrade' = [Returned(upgrade, "complete") EXCEPT
                        !.installed = [version |-> upgrade.latest, archive |-> upgrade.archive],
                        !.claim = Claim(upgrade.flags)]

UpgradeNext ==
    \/ ManagedRedirect \/ FetchMetadata \/ CompareVersion \/ Download
    \/ VerifyChecksum \/ VerifyAttestation \/ Extract \/ Replace

UpgradeSpec == UpgradeInit /\ [][UpgradeNext]_upgradeVars

-----------------------------------------------------------------------------
(* Along every combination of flags and every failure: the binary is        *)
(* replaced only by a whole one from the release that was compared, newer   *)
(* unless forced, that holds what the closing line claims of it, and no     *)
(* staging directory is left (upgrade.rs 395 to 580).                       *)
ReplacedAsClaimed ==
    /\ upgrade.claim = "SLSA-verified" => upgrade.installed.archive.attested
    /\ upgrade.claim = "integrity-checked" => upgrade.installed.archive.published
    /\ ~upgrade.flags.noChecksum /\ upgrade.claim # "none" => upgrade.installed.archive.published
    /\ (upgrade.claim # "none") <=> (upgrade.at = "complete")
    /\ upgrade.installed.version # RunningVersion =>
         upgrade.installed.archive.unpacks /\ ~upgrade.flags.checkOnly
           /\ (upgrade.flags.force \/ upgrade.installed.version > RunningVersion)
    /\ upgrade.at \in {"failed", "complete", "up to date", "would upgrade", "redirected"} => ~upgrade.staged
=============================================================================

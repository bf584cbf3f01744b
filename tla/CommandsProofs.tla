--------------------------- MODULE CommandsProofs ---------------------------
(***************************************************************************)
(* What holds of the machines MCCommands runs side by side, for every set  *)
(* of processes and every bound: that a sign-in keeps to the server's      *)
(* terms and leaves a token and a name that belong together, that an       *)
(* upgrade replaces the binary only by what its last line claims, that a   *)
(* diff since a version says of each path what the versions listed do,     *)
(* that a read verb writes what stands at the one version it pinned, and   *)
(* that the document of a changeset means one tree.                        *)
(***************************************************************************)
EXTENDS DeviceLogin, Upgrade, DiffSince, PathReads, Changeset, FiniteSetTheorems,
        SequenceTheorems, WellFoundedInduction, TLAPS

(***************************************************************************)
(* Signing in.  The interval never falls below what the server asked, cut  *)
(* off at the client's own bound; that has to be kept through the steps    *)
(* between polls, where SignsInOnTerms says nothing of it.                 *)
(***************************************************************************)
FlowSteps == {"start", "polling", "polled", "approved", "stored", "named", "done", "failed"}
FlowType ==
    [at : FlowSteps, now : Nat, deadline : Nat, interval : Nat,
     demanded : Nat, polled : Nat, sent : BOOLEAN]
MaybeToken == Logins \cup {NoToken}
LoginType ==
    [flow : [Logins -> FlowType], file : [token : MaybeToken, username : MaybeToken],
     out : [at : {"start", "read", "signed out", "done", "failed"}, token : MaybeToken],
     revoked : SUBSET MaybeToken]

IntervalHolds == \A l \in Logins : Flow(l).interval >= AtMost(Flow(l).demanded, MaxInterval)
LoginInv == login \in LoginType /\ IntervalHolds /\ SignsInOnTerms

\* A step that leaves the file alone and moves one login keeps the
\* invariant when what it moves that login to does.
LEMMA StepKeeps ==
  ASSUME LoginInv, NEW l \in Logins, NEW flow \in FlowType, Step(l, flow),
         flow.interval >= AtMost(flow.demanded, MaxInterval),
         flow.at = "polled" => /\ flow.now <= flow.deadline
                               /\ flow.polled >= AtMost(flow.demanded, MaxInterval)
  PROVE  LoginInv'
  <1>1. /\ login'.flow = [login.flow EXCEPT ![l] = flow]
        /\ login'.file = login.file
        /\ login'.out = login.out /\ login'.revoked = login.revoked
        /\ login' \in LoginType
    BY DEF LoginInv, LoginType, Step
  <1>2. \A k \in Logins : Flow(k)' = IF k = l THEN flow ELSE Flow(k)
    BY <1>1 DEF Flow, LoginInv, LoginType
  <1> QED
    BY <1>1, <1>2 DEF LoginInv, IntervalHolds, SignsInOnTerms, PollsOnTerms, NameIsTheTokens

\* Every step of a sign-in and of a sign-out keeps the invariant.
LEMMA LoginStep == LoginInv /\ [LoginNext]_loginVars => LoginInv'
  <1> SUFFICES ASSUME LoginInv, [LoginNext]_loginVars
               PROVE  LoginInv'
    OBVIOUS
  <1>0. ASSUME NEW l \in Logins
        PROVE  /\ Flow(l) \in FlowType
               /\ Flow(l).interval >= AtMost(Flow(l).demanded, MaxInterval)
               /\ Flow(l).at = "polled" =>
                    /\ Flow(l).now <= Flow(l).deadline
                    /\ Flow(l).polled >= AtMost(Flow(l).demanded, MaxInterval)
    BY <1>0 DEF LoginInv, LoginType, Flow, IntervalHolds, SignsInOnTerms, PollsOnTerms
  <1>f. ASSUME NEW l \in Logins, Fails(l)
        PROVE  LoginInv'
    <2>1. [Flow(l) EXCEPT !.at = "failed"] \in FlowType
      BY <1>0 DEF FlowType, FlowSteps
    <2> QED
      BY <1>0, <1>f, <2>1, StepKeeps DEF Fails, FlowType
  <1>1. ASSUME NEW l \in Logins, DeviceCode(l)
        PROVE  LoginInv'
    <2>1. CASE Fails(l)
      BY <2>1, <1>f
    <2>2. ASSUME NEW life \in Lifetimes, NEW interval \in Intervals,
                 Step(l, [Flow(l) EXCEPT !.at = "polling", !.deadline = AtMost(life, MaxLife),
                                         !.interval = AtLeast(interval, DefaultInterval),
                                         !.demanded = AtLeast(interval, DefaultInterval)])
          PROVE  LoginInv'
      <3> DEFINE flow == [Flow(l) EXCEPT !.at = "polling", !.deadline = AtMost(life, MaxLife),
                                         !.interval = AtLeast(interval, DefaultInterval),
                                         !.demanded = AtLeast(interval, DefaultInterval)]
      <3>1. AtMost(life, MaxLife) \in Nat /\ AtLeast(interval, DefaultInterval) \in Nat
        BY LoginAssumption DEF AtMost, AtLeast, DefaultInterval
      <3>2. /\ flow \in FlowType /\ flow.at = "polling"
            /\ flow.interval = AtLeast(interval, DefaultInterval)
            /\ flow.demanded = AtLeast(interval, DefaultInterval)
        BY <1>0, <3>1 DEF FlowType, FlowSteps
      <3>3. flow.interval >= AtMost(flow.demanded, MaxInterval)
        BY <3>1, <3>2, LoginAssumption DEF AtMost
      <3> QED
        BY <2>2, <3>2, <3>3, StepKeeps
    <2> QED
      BY <1>1, <2>1, <2>2 DEF DeviceCode
  <1>2. ASSUME NEW l \in Logins, Expired(l)
        PROVE  LoginInv'
    BY <1>2, <1>f DEF Expired
  <1>3. ASSUME NEW l \in Logins, Poll(l)
        PROVE  LoginInv'
    <2> DEFINE flow == [Flow(l) EXCEPT !.at = "polled", !.now = @ + Flow(l).interval,
                                       !.polled = Flow(l).interval]
    <2>0. Flow(l).now + Flow(l).interval \in Nat /\ Flow(l).interval \in Nat
      BY <1>0 DEF FlowType
    <2>1. /\ flow \in FlowType
          /\ flow.interval = Flow(l).interval /\ flow.demanded = Flow(l).demanded
          /\ flow.polled = Flow(l).interval /\ flow.deadline = Flow(l).deadline
          /\ flow.now = Flow(l).now + Flow(l).interval
      BY <1>0, <2>0 DEF FlowType, FlowSteps
    <2>2. flow.now <= flow.deadline
      BY <1>0, <1>3, <2>1 DEF Poll, Expires, FlowType
    <2> QED
      BY <1>0, <1>3, <2>1, <2>2, StepKeeps DEF Poll
  <1>4. ASSUME NEW l \in Logins, PollAnswers(l)
        PROVE  LoginInv'
    <2>1. PICK lag \in 0 .. MaxLag :
            LET answered == [Flow(l) EXCEPT !.now = @ + lag]
            IN \/ Step(l, [answered EXCEPT !.at = "polling"])
               \/ Step(l, [answered EXCEPT !.at = "polling",
                                           !.interval = SlowedDown(@),
                                           !.demanded = @ + SlowDownIncrement])
               \/ Step(l, [answered EXCEPT !.at = "approved"])
               \/ Fails(l)
      BY <1>4 DEF PollAnswers
    <2> DEFINE answered == [Flow(l) EXCEPT !.now = @ + lag]
               waits == [answered EXCEPT !.at = "polling"]
               slows == [answered EXCEPT !.at = "polling", !.interval = SlowedDown(@),
                                         !.demanded = @ + SlowDownIncrement]
               approves == [answered EXCEPT !.at = "approved"]
    <2>2. /\ answered \in FlowType
          /\ answered.interval = Flow(l).interval /\ answered.demanded = Flow(l).demanded
      BY <1>0, LoginAssumption DEF FlowType, FlowSteps
    <2>3. /\ waits \in FlowType /\ waits.at = "polling"
          /\ waits.interval = Flow(l).interval /\ waits.demanded = Flow(l).demanded
          /\ approves \in FlowType /\ approves.at = "approved"
          /\ approves.interval = Flow(l).interval /\ approves.demanded = Flow(l).demanded
      BY <2>2 DEF FlowType, FlowSteps
    <2>4. CASE Step(l, waits)
      BY <1>0, <2>3, <2>4, StepKeeps
    <2>5. CASE Step(l, approves)
      BY <1>0, <2>3, <2>5, StepKeeps
    <2>6. CASE Step(l, slows)
      <3>1. SlowedDown(Flow(l).interval) \in Nat
        BY <1>0, LoginAssumption DEF FlowType, SlowedDown, AtMost, SlowDownIncrement
      <3>4. Flow(l).demanded + SlowDownIncrement \in Nat
        BY <1>0 DEF FlowType, SlowDownIncrement
      <3>2. /\ slows \in FlowType /\ slows.at = "polling"
            /\ slows.interval = SlowedDown(Flow(l).interval)
            /\ slows.demanded = Flow(l).demanded + SlowDownIncrement
        BY <2>2, <3>1, <3>4 DEF FlowType, FlowSteps
      <3>3. slows.interval >= AtMost(slows.demanded, MaxInterval)
        BY <1>0, <3>2, LoginAssumption DEF FlowType, SlowedDown, AtMost, SlowDownIncrement
      <3> QED
        BY <2>6, <3>2, <3>3, StepKeeps
    <2> QED
      BY <2>1, <2>4, <2>5, <2>6, <1>f
  <1>m. ASSUME NEW l \in Logins, NEW at \in FlowSteps \ {"polled"},
               Step(l, [Flow(l) EXCEPT !.at = at])
        PROVE  LoginInv'
    <2> DEFINE flow == [Flow(l) EXCEPT !.at = at]
    <2>1. /\ flow \in FlowType /\ flow.at = at
          /\ flow.interval = Flow(l).interval /\ flow.demanded = Flow(l).demanded
      BY <1>0 DEF FlowType
    <2> QED
      BY <1>0, <1>m, <2>1, StepKeeps
  <1>w. ASSUME NEW l \in Logins, NEW at \in FlowSteps \ {"polled"}, NEW file,
               file \in [token : MaybeToken, username : MaybeToken],
               file.username # NoToken => file.username = file.token,
               login' = [login EXCEPT !.file = file, !.flow[l].at = at]
        PROVE  LoginInv'
    <2>0. /\ login'.file = file
          /\ login'.flow = [login.flow EXCEPT ![l] = [login.flow[l] EXCEPT !.at = at]]
          /\ login' = [login EXCEPT !.file = file, !.flow = login'.flow]
      BY <1>w DEF LoginInv, LoginType
    <2>1. /\ login'.file = file /\ login' \in LoginType
          /\ login'.flow = [login.flow EXCEPT ![l] = [login.flow[l] EXCEPT !.at = at]]
      <3>1. [login.flow[l] EXCEPT !.at = at] \in FlowType
        BY <1>0 DEF Flow, FlowType
      <3> QED
        BY <1>w, <2>0, <3>1 DEF LoginInv, LoginType
    <2>2. \A k \in Logins : Flow(k)' = IF k = l THEN [Flow(k) EXCEPT !.at = at] ELSE Flow(k)
      BY <2>1 DEF Flow, LoginInv, LoginType
    <2>3. \A k \in Logins : /\ Flow(k)'.interval = Flow(k).interval
                            /\ Flow(k)'.demanded = Flow(k).demanded
                            /\ Flow(k)'.at = "polled" => Flow(k)' = Flow(k)
      BY <1>0, <1>w, <2>2 DEF FlowType
    <2> QED
      BY <1>0, <1>w, <2>1, <2>3 DEF LoginInv, IntervalHolds, SignsInOnTerms, PollsOnTerms,
         NameIsTheTokens
  <1>5. ASSUME NEW l \in Logins, Store(l)
        PROVE  LoginInv'
    <2>1. CASE Fails(l)
      BY <2>1, <1>f
    <2>2. CASE login' = [login EXCEPT !.file = [token |-> l, username |-> NoToken],
                                      !.flow[l].at = "stored"]
      <3>1. [token |-> l, username |-> NoToken] \in [token : MaybeToken, username : MaybeToken]
        BY DEF MaybeToken
      <3> QED
        BY <2>2, <3>1, <1>w DEF FlowSteps
    <2> QED
      BY <1>5, <2>1, <2>2 DEF Store
  <1>6. ASSUME NEW l \in Logins, AskSession(l)
        PROVE  LoginInv'
    BY <1>6, <1>m DEF AskSession, FlowSteps
  <1>7. ASSUME NEW l \in Logins, StoreName(l)
        PROVE  LoginInv'
    <2>1. CASE Step(l, [Flow(l) EXCEPT !.at = "done"])
      BY <2>1, <1>m DEF FlowSteps
    <2>2. CASE login' = [login EXCEPT !.file = Named(@, l), !.flow[l].at = "done"]
      <3>1. login' = [login EXCEPT !.file = [token |-> l, username |-> l],
                                   !.flow[l].at = "done"]
        BY <2>2 DEF Named
      <3>2. [token |-> l, username |-> l] \in [token : MaybeToken, username : MaybeToken]
        BY DEF MaybeToken
      <3> QED
        BY <3>1, <3>2, <1>w DEF FlowSteps
    <2> QED
      BY <1>7, <2>1, <2>2 DEF StoreName
  <1>8. CASE ReadToken \/ SignOut \/ ClearCredentials
    <2>2. ASSUME ReadToken
          PROVE  login'.flow = login.flow /\ login' \in LoginType /\ login'.file \in {login.file, NoCredentials}
      BY <2>2 DEF LoginInv, LoginType, ReadToken
    <2>3. ASSUME SignOut
          PROVE  login'.flow = login.flow /\ login' \in LoginType /\ login'.file \in {login.file, NoCredentials}
      <3>1. PICK revoked \in {{}, {login.out.token}} :
              login' = [login EXCEPT !.out.at = "signed out", !.revoked = @ \cup revoked]
        BY <2>3 DEF SignOut
      <3>2. login.revoked \cup revoked \in SUBSET MaybeToken
        BY <3>1 DEF LoginInv, LoginType
      <3>3. [login.out EXCEPT !.at = "signed out"]
              \in [at : {"start", "read", "signed out", "done", "failed"}, token : MaybeToken]
        BY DEF LoginInv, LoginType
      <3> QED
        BY <3>1, <3>2, <3>3 DEF LoginInv, LoginType
    <2>4. ASSUME ClearCredentials
          PROVE  login'.flow = login.flow /\ login' \in LoginType /\ login'.file \in {login.file, NoCredentials}
      <3>1. NoCredentials \in [token : MaybeToken, username : MaybeToken]
        BY DEF NoCredentials, MaybeToken
      <3>2. \A at \in {"done", "failed"} : [login.out EXCEPT !.at = at]
              \in [at : {"start", "read", "signed out", "done", "failed"}, token : MaybeToken]
        BY DEF LoginInv, LoginType
      <3>3. CASE login' = [login EXCEPT !.out.at = "done", !.file = NoCredentials]
        BY <3>1, <3>2, <3>3 DEF LoginInv, LoginType
      <3>4. CASE login' = [login EXCEPT !.out.at = "failed"]
        BY <3>2, <3>4 DEF LoginInv, LoginType
      <3> QED
        BY <2>4, <3>3, <3>4 DEF ClearCredentials
    <2>1. login'.flow = login.flow /\ login' \in LoginType
          /\ login'.file \in {login.file, NoCredentials}
      BY <1>8, <2>2, <2>3, <2>4
    <2> QED
      BY <2>1 DEF LoginInv, IntervalHolds, SignsInOnTerms, PollsOnTerms, NameIsTheTokens,
         NoCredentials, Flow
  <1>9. CASE UNCHANGED loginVars
    BY <1>9 DEF loginVars, LoginInv, IntervalHolds, SignsInOnTerms, PollsOnTerms,
       NameIsTheTokens, Flow
  <1> QED
    BY <1>1, <1>2, <1>3, <1>4, <1>5, <1>6, <1>7, <1>8, <1>9 DEF LoginNext

\* Every poll is sent within the code's life and no sooner than the server
\* asked, and the name in the credentials file is its token's, however
\* many logins and a logout interleave.
THEOREM SignInOnTerms == LoginSpec => []SignsInOnTerms
  <1>1. LoginInit => LoginInv
    BY LoginAssumption DEF LoginInit, LoginInv, LoginType, FlowType, FlowSteps, MaybeToken,
       NoFlow, NoCredentials, IntervalHolds, SignsInOnTerms, PollsOnTerms, NameIsTheTokens,
       Flow, AtMost
  <1>2. LoginInv => SignsInOnTerms
    BY DEF LoginInv
  <1> QED
    BY <1>1, <1>2, LoginStep, PTL DEF LoginSpec

(***************************************************************************)
(* Upgrading.  What the closing line claims was settled several steps      *)
(* before it is printed, so the invariant carries what each verification   *)
(* found of the archive up to the step that puts it in place.              *)
(***************************************************************************)
Ends == {"failed", "complete", "up to date", "would upgrade", "redirected"}
UpgradeSteps ==
    {"metadata", "compare", "download", "checksum", "attestation", "extract", "replace"}
Claims == {"none", "SLSA-verified", "integrity-checked", "unverified"}
UpgradeType ==
    [flags : Flags, method : InstallMethods, at : UpgradeSteps \cup Ends,
     latest : ReleaseVersions \cup {RunningVersion},
     installed : [version : ReleaseVersions \cup {RunningVersion}, archive : Archives],
     staged : BOOLEAN, archive : Archives, extracted : BOOLEAN, claim : Claims]

Verified(u) ==
    /\ u.at \in {"download", "checksum", "attestation", "extract", "replace"} =>
         ~u.flags.checkOnly /\ (u.flags.force \/ u.latest > RunningVersion)
    /\ u.at \in {"attestation", "extract", "replace"} =>
         u.flags.noChecksum \/ u.archive.published
    /\ u.at \in {"extract", "replace"} => u.flags.noAttestation \/ u.archive.attested
    /\ u.at = "replace" => u.archive.unpacks
    /\ u.at # "complete" => u.installed.version = RunningVersion /\ u.claim = "none"
UpgradeInv == upgrade \in UpgradeType /\ Verified(upgrade) /\ ReplacedAsClaimed

\* A step that leaves the installed binary and the claim alone keeps the
\* invariant when it keeps what was verified.
LEMMA UpgradeKeeps ==
  ASSUME UpgradeInv, upgrade.at \in UpgradeSteps, upgrade' \in UpgradeType, Verified(upgrade'),
         upgrade'.at # "complete", upgrade'.flags = upgrade.flags,
         upgrade'.at \in Ends => ~upgrade'.staged
  PROVE  UpgradeInv'
  BY DEF UpgradeInv, Verified, ReplacedAsClaimed, Ends

\* An upgrade that ends without replacing anything keeps the invariant.
LEMMA EndKeeps ==
  ASSUME UpgradeInv, upgrade.at \in UpgradeSteps, NEW how \in Ends \ {"complete"},
         upgrade' = Returned(upgrade, how)
  PROVE  UpgradeInv'
  <1>1. /\ upgrade' \in UpgradeType /\ upgrade'.at = how /\ upgrade'.staged = FALSE
        /\ upgrade'.flags = upgrade.flags /\ upgrade'.installed = upgrade.installed
        /\ upgrade'.claim = upgrade.claim
    BY DEF UpgradeInv, UpgradeType, Returned
  <1>2. Verified(upgrade')
    BY <1>1 DEF UpgradeInv, Verified, Ends, UpgradeSteps
  <1> QED
    BY <1>1, <1>2, UpgradeKeeps

\* Every step of an upgrade keeps the invariant.
LEMMA UpgradeStep == UpgradeInv /\ [UpgradeNext]_upgradeVars => UpgradeInv'
  <1> SUFFICES ASSUME UpgradeInv, [UpgradeNext]_upgradeVars
               PROVE  UpgradeInv'
    OBVIOUS
  <1> USE DEF UpgradeSteps
  <1>1. CASE ManagedRedirect
    BY <1>1, EndKeeps DEF ManagedRedirect, Ends
  <1>2. CASE FetchMetadata
    <2>1. CASE FailsWith(upgrade)
      BY <1>2, <2>1, EndKeeps DEF FetchMetadata, FailsWith, Ends
    <2>2. ASSUME NEW latest \in ReleaseVersions,
                 upgrade' = [upgrade EXCEPT !.at = "compare", !.latest = latest]
          PROVE  UpgradeInv'
      <3>1. /\ upgrade' \in UpgradeType /\ upgrade'.at = "compare"
            /\ upgrade'.flags = upgrade.flags /\ upgrade'.installed = upgrade.installed
            /\ upgrade'.claim = upgrade.claim
        BY <2>2 DEF UpgradeInv, UpgradeType
      <3>2. Verified(upgrade')
        BY <1>2, <3>1 DEF FetchMetadata, UpgradeInv, Verified
      <3> QED
        BY <1>2, <3>1, <3>2, UpgradeKeeps DEF FetchMetadata, Ends
    <2> QED
      BY <1>2, <2>1, <2>2 DEF FetchMetadata
  <1>3. CASE CompareVersion
    <2>1. CASE \E how \in Ends \ {"complete"} : upgrade' = Returned(upgrade, how)
      BY <1>3, <2>1, EndKeeps DEF CompareVersion
    <2>2. CASE /\ ~UpToDate /\ ~upgrade.flags.checkOnly
               /\ upgrade' = [upgrade EXCEPT !.at = "download", !.staged = TRUE]
      <3>1. /\ upgrade' \in UpgradeType /\ upgrade'.at = "download"
            /\ upgrade'.flags = upgrade.flags /\ upgrade'.installed = upgrade.installed
            /\ upgrade'.claim = upgrade.claim /\ upgrade'.latest = upgrade.latest
        BY <2>2 DEF UpgradeInv, UpgradeType
      <3>2. upgrade.latest \in Int /\ RunningVersion \in Int
        BY UpgradeAssumption DEF UpgradeInv, UpgradeType
      <3>3. Verified(upgrade')
        <4>1. upgrade.flags.force \/ upgrade.latest > RunningVersion
          BY <2>2, <3>2 DEF UpToDate
        <4> QED
          BY <1>3, <2>2, <3>1, <4>1 DEF CompareVersion, UpgradeInv, Verified
      <3> QED
        BY <1>3, <3>1, <3>3, UpgradeKeeps DEF CompareVersion, Ends
    <2> QED
      BY <1>3, <2>1, <2>2 DEF CompareVersion, FailsWith, Ends
  <1>4. CASE Download
    <2>1. CASE FailsWith(upgrade)
      BY <1>4, <2>1, EndKeeps DEF Download, FailsWith, Ends
    <2>2. ASSUME NEW archive \in Archives,
                 upgrade' = [upgrade EXCEPT !.archive = archive, !.at = "checksum"]
          PROVE  UpgradeInv'
      <3>1. /\ upgrade' \in UpgradeType /\ upgrade'.at = "checksum"
            /\ upgrade'.flags = upgrade.flags /\ upgrade'.installed = upgrade.installed
            /\ upgrade'.claim = upgrade.claim /\ upgrade'.latest = upgrade.latest
        BY <2>2 DEF UpgradeInv, UpgradeType
      <3>2. Verified(upgrade')
        BY <1>4, <3>1 DEF Download, UpgradeInv, Verified
      <3> QED
        BY <1>4, <3>1, <3>2, UpgradeKeeps DEF Download, Ends
    <2> QED
      BY <1>4, <2>1, <2>2 DEF Download
  <1>5. CASE VerifyChecksum
    <2>1. CASE FailsWith(upgrade)
      BY <1>5, <2>1, EndKeeps DEF VerifyChecksum, FailsWith, Ends
    <2>2. CASE /\ upgrade.flags.noChecksum \/ upgrade.archive.published
               /\ upgrade' = [upgrade EXCEPT !.at = "attestation"]
      <3>1. /\ upgrade' \in UpgradeType /\ upgrade'.at = "attestation"
            /\ upgrade'.flags = upgrade.flags /\ upgrade'.installed = upgrade.installed
            /\ upgrade'.claim = upgrade.claim /\ upgrade'.latest = upgrade.latest
            /\ upgrade'.archive = upgrade.archive
        BY <2>2 DEF UpgradeInv, UpgradeType
      <3>2. Verified(upgrade')
        BY <1>5, <2>2, <3>1 DEF VerifyChecksum, UpgradeInv, Verified
      <3> QED
        BY <1>5, <3>1, <3>2, UpgradeKeeps DEF VerifyChecksum, Ends
    <2> QED
      BY <1>5, <2>1, <2>2 DEF VerifyChecksum, ChecksumFails
  <1>6. CASE VerifyAttestation
    <2>1. CASE FailsWith(upgrade)
      BY <1>6, <2>1, EndKeeps DEF VerifyAttestation, FailsWith, Ends
    <2>2. CASE /\ upgrade.flags.noAttestation \/ upgrade.archive.attested
               /\ upgrade' = [upgrade EXCEPT !.at = "extract"]
      <3>1. /\ upgrade' \in UpgradeType /\ upgrade'.at = "extract"
            /\ upgrade'.flags = upgrade.flags /\ upgrade'.installed = upgrade.installed
            /\ upgrade'.claim = upgrade.claim /\ upgrade'.latest = upgrade.latest
            /\ upgrade'.archive = upgrade.archive
        BY <2>2 DEF UpgradeInv, UpgradeType
      <3>2. Verified(upgrade')
        BY <1>6, <2>2, <3>1 DEF VerifyAttestation, UpgradeInv, Verified
      <3> QED
        BY <1>6, <3>1, <3>2, UpgradeKeeps DEF VerifyAttestation, Ends
    <2> QED
      BY <1>6, <2>1, <2>2 DEF VerifyAttestation
  <1>7. CASE Extract
    <2>1. CASE FailsWith(upgrade)
      BY <1>7, <2>1, EndKeeps DEF Extract, FailsWith, Ends
    <2>2. CASE /\ upgrade.archive.unpacks
               /\ upgrade' = [upgrade EXCEPT !.extracted = TRUE, !.at = "replace"]
      <3>1. /\ upgrade' \in UpgradeType /\ upgrade'.at = "replace"
            /\ upgrade'.flags = upgrade.flags /\ upgrade'.installed = upgrade.installed
            /\ upgrade'.claim = upgrade.claim /\ upgrade'.latest = upgrade.latest
            /\ upgrade'.archive = upgrade.archive
        BY <2>2 DEF UpgradeInv, UpgradeType
      <3>2. Verified(upgrade')
        BY <1>7, <2>2, <3>1 DEF Extract, UpgradeInv, Verified
      <3> QED
        BY <1>7, <3>1, <3>2, UpgradeKeeps DEF Extract, Ends
    <2> QED
      BY <1>7, <2>1, <2>2 DEF Extract
  <1>8. CASE Replace
    <2>1. CASE FailsWith(upgrade)
      BY <1>8, <2>1, EndKeeps DEF Replace, FailsWith, Ends
    <2>2. CASE upgrade' = [Returned(upgrade, "complete") EXCEPT
                             !.installed = [version |-> upgrade.latest,
                                            archive |-> upgrade.archive],
                             !.claim = Claim(upgrade.flags)]
      <3>1. /\ upgrade' \in UpgradeType /\ upgrade'.at = "complete"
            /\ upgrade'.flags = upgrade.flags /\ ~upgrade'.staged
            /\ upgrade'.installed = [version |-> upgrade.latest, archive |-> upgrade.archive]
            /\ upgrade'.claim = Claim(upgrade.flags)
        <4>1. Claim(upgrade.flags) \in Claims
          BY DEF Claim, Claims
        <4>2. [version |-> upgrade.latest, archive |-> upgrade.archive]
                \in [version : ReleaseVersions \cup {RunningVersion}, archive : Archives]
          BY DEF UpgradeInv, UpgradeType
        <4>3. Returned(upgrade, "complete") \in UpgradeType
              /\ Returned(upgrade, "complete").at = "complete"
              /\ Returned(upgrade, "complete").flags = upgrade.flags
              /\ ~Returned(upgrade, "complete").staged
          BY DEF UpgradeInv, UpgradeType, Returned, Ends
        <4> QED
          BY <2>2, <4>1, <4>2, <4>3 DEF UpgradeType
      <3>2. Verified(upgrade')
        BY <3>1 DEF Verified
      <3>3. upgrade.latest \in Int /\ RunningVersion \in Int
        BY UpgradeAssumption DEF UpgradeInv, UpgradeType
      <3>4. ReplacedAsClaimed'
        BY <1>8, <3>1, <3>3 DEF Replace, UpgradeInv, Verified, ReplacedAsClaimed, Claim
      <3> QED
        BY <3>1, <3>2, <3>4 DEF UpgradeInv
    <2> QED
      BY <1>8, <2>1, <2>2 DEF Replace
  <1>9. CASE UNCHANGED upgradeVars
    BY <1>9 DEF upgradeVars, UpgradeInv, Verified, ReplacedAsClaimed
  <1> QED
    BY <1>1, <1>2, <1>3, <1>4, <1>5, <1>6, <1>7, <1>8, <1>9 DEF UpgradeNext

\* Whatever the flags and whichever step fails, the binary is replaced only
\* by a whole one from the release compared, holding what is claimed of it.
THEOREM UpgradeAsClaimed == UpgradeSpec => []ReplacedAsClaimed
  <1>1. UpgradeInit => UpgradeInv
    <2> SUFFICES ASSUME NEW given \in Flags, NEW method \in InstallMethods,
                        upgrade = UpgradeStart(given, method)
                 PROVE  UpgradeInv
      BY DEF UpgradeInit
    <2>1. upgrade \in UpgradeType
      BY DEF UpgradeStart, UpgradeType, UpgradeSteps, Claims, NoArchive, Archives
    <2> QED
      BY <2>1 DEF UpgradeStart, UpgradeInv, Verified, ReplacedAsClaimed, NoArchive
  <1>2. UpgradeInv => ReplacedAsClaimed
    BY DEF UpgradeInv
  <1> QED
    BY <1>1, <1>2, UpgradeStep, PTL DEF UpgradeSpec

-----------------------------------------------------------------------------
(***************************************************************************)
(* What changed since a version.  The list only grows in front, so what a  *)
(* page was read at an offset stands at that offset or behind it: a walk   *)
(* that saw a version saw all between it and the newer end, and what it    *)
(* has still to see stands behind the offset it reads next.                *)
(***************************************************************************)
Listed == [version : Nat \ {0}, files : SUBSET DiffPaths]
WalkSteps == {"idle", "first", "place", "jump", "next", "done"}
Walks == [at : WalkSteps, from : Nat, to : Nat, head : BOOLEAN, asked : SUBSET DiffPaths,
          offset : Nat, jump : Nat, page : Seq(Listed), seen : SUBSET Nat,
          credit : [DiffPaths -> Nat]]

NewestFirst ==
    /\ listed \in Seq(Listed)
    /\ \A i, j \in DOMAIN listed : i < j => listed[i].version > listed[j].version

Between(w, n) == n > w.from /\ n <= w.to
SeenToOlder(w) ==
    /\ \A i, j \in DOMAIN listed :
          /\ listed[j].version \in w.seen
          /\ listed[i].version >= listed[j].version /\ listed[i].version <= w.to
          => listed[i].version \in w.seen
    /\ \A n \in w.seen : n <= w.to /\ \E i \in DOMAIN listed : listed[i].version = n
StillBehind(w, offset) ==
    \A i \in DOMAIN listed :
        listed[i].version <= w.to /\ listed[i].version \notin w.seen => i > offset
NamesIn(w, path, i) ==
    path \in listed[i].files /\ Between(w, listed[i].version) /\ listed[i].version \in w.seen
CreditedInSeen(w) ==
    \A path \in w.asked :
        /\ w.credit[path] # NoVersion =>
              \E i \in DOMAIN listed : NamesIn(w, path, i) /\ listed[i].version = w.credit[path]
        /\ \A i \in DOMAIN listed : NamesIn(w, path, i) => listed[i].version <= w.credit[path]
SpanSeen(w) ==
    \A i \in DOMAIN listed : Between(w, listed[i].version) => listed[i].version \in w.seen

WalkSays ==
    /\ walked.at # "idle" => walked.from <= walked.to /\ walked.to \in Numbers(listed)
    /\ walked.at \in {"first", "place", "jump"} =>
          walked.seen = {} /\ \A path \in DiffPaths : walked.credit[path] = NoVersion
    /\ walked.at \in {"place", "jump"} =>
          /\ walked.page # <<>> /\ \A i \in DOMAIN walked.page : walked.page[i].version > walked.to
          /\ StillBehind(walked, PageSize)
    /\ walked.at = "jump" => walked.jump < Len(listed)
    /\ walked.at \in {"next", "done"} => SeenToOlder(walked) /\ CreditedInSeen(walked)
    /\ walked.at = "next" => StillBehind(walked, walked.offset)
    /\ walked.at = "done" => AllCredited(walked) \/ SpanSeen(walked)

WalkInv == NewestFirst /\ walked \in Walks /\ WalkSays

\* A page holds the versions from its offset on, and the last one all of them.
LEMMA PageHolds ==
  ASSUME NewestFirst, NEW offset \in Nat
  PROVE  /\ PageAt(offset) \in Seq(Listed)
         /\ \A i \in DOMAIN PageAt(offset) :
               offset + i \in DOMAIN listed /\ PageAt(offset)[i] = listed[offset + i] /\ i <= PageSize
         /\ \A i \in DOMAIN listed :
               i > offset /\ i <= offset + PageSize => i - offset \in DOMAIN PageAt(offset)
         /\ IsLast(PageAt(offset), offset) => \A i \in DOMAIN listed : i <= offset + PageSize
         /\ ~IsLast(PageAt(offset), offset) => PageAt(offset) # <<>>
  <1>1. PageSize \in Nat \ {0} /\ Len(listed) \in Nat /\ DOMAIN listed = 1 .. Len(listed)
    BY DiffSinceAssumption DEF NewestFirst
  <1> DEFINE end == offset + PageSize
             size == Len(listed)
  <1>2. PICK last \in Nat : /\ last = Min({end, size})
                            /\ last \in {end, size} /\ last <= end /\ last <= size
    <2>1. end \in Nat /\ size \in Nat
      BY <1>1
    <2> HIDE DEF end, size
    <2>2. PICK n \in {end, size} : \A y \in {end, size} : n <= y
      <3>1. CASE end <= size
        BY <2>1, <3>1
      <3>2. CASE size <= end
        BY <2>1, <3>2
      <3> QED
        BY <2>1, <3>1, <3>2
    <2>3. \A x \in {end, size} : (\A y \in {end, size} : x <= y) => x = n
      BY <2>1, <2>2
    <2>4. Min({end, size}) = n
      BY <2>2, <2>3 DEF Min
    <2> QED
      BY <2>1, <2>2, <2>4
  <1>3. PICK page : page = PageAt(offset)
    OBVIOUS
  <1>4. page = SubSeq(listed, offset + 1, last)
    BY <1>2, <1>3 DEF PageAt
  <1>5. page \in Seq(Listed) /\ Len(page) = (IF offset + 1 <= last THEN last - offset ELSE 0)
    <2>1. listed \in Seq(Listed) /\ offset + 1 \in Nat /\ last \in Nat /\ last <= Len(listed)
      BY <1>1, <1>2 DEF NewestFirst
    <2>2. Len(page) = (IF offset + 1 <= last THEN last - offset ELSE 0)
      BY <1>4, <2>1
    <2>3. page \in Seq(Listed)
      BY <1>4, <2>1, SubSeqProperties
    <2> QED
      BY <2>2, <2>3
  <1>6. \A i \in 1 .. Len(page) : page[i] = listed[offset + i]
    <2>1. offset + 1 \in Int /\ last \in Int /\ \A i \in offset + 1 .. last : listed[i] \in Listed
      <3>1. \A i \in 1 .. Len(listed) : listed[i] \in Listed
        BY <1>1 DEF NewestFirst
      <3>2. \A i \in offset + 1 .. last : i \in 1 .. Len(listed)
        BY <1>1, <1>2
      <3>3. \A i \in offset + 1 .. last : listed[i] \in Listed
        BY <3>1, <3>2
      <3>4. offset + 1 \in Int /\ last \in Int
        OBVIOUS
      <3> QED
        BY <3>3, <3>4
    <2>2. \A i \in 1 .. last - (offset + 1) + 1 : page[i] = listed[offset + 1 + i - 1]
      BY <1>4, <2>1, SubSeqProperties
    <2>3. \A i \in 1 .. Len(page) : i \in 1 .. last - (offset + 1) + 1 /\ offset + 1 + i - 1 = offset + i
      BY <1>2, <1>5
    <2> QED
      BY <2>2, <2>3
  <1>7. DOMAIN page = 1 .. Len(page) /\ Len(page) \in Nat
    BY <1>5
  <1>8. \A i \in DOMAIN page : offset + i \in DOMAIN listed /\ i <= PageSize
    BY <1>1, <1>2, <1>5, <1>7
  <1>9. \A i \in DOMAIN listed : i > offset /\ i <= offset + PageSize => i - offset \in DOMAIN page
    BY <1>1, <1>2, <1>5, <1>7
  <1>10. Len(page) < PageSize \/ offset + Len(page) >= Len(listed) =>
            \A i \in DOMAIN listed : i <= offset + PageSize
    BY <1>1, <1>2, <1>5, <1>7
  <1>11. page = <<>> => Len(page) = 0
    OBVIOUS
  <1> QED
    BY <1>1, <1>3, <1>5, <1>6, <1>7, <1>8, <1>9, <1>10, <1>11 DEF IsLast

\* A set of numbers of a page has a least one.
LEMMA LeastOf ==
  ASSUME NEW bound \in Nat, NEW numbers \in SUBSET (1 .. bound), numbers # {}
  PROVE  Min(numbers) \in numbers /\ \A n \in numbers : Min(numbers) <= n
  <1> DEFINE Below(n) == {o \in numbers : o < n}
             Belows == {Below(n) : n \in numbers}
  <1>1. IsFiniteSet(numbers) /\ numbers \subseteq Nat
    <2>1. numbers \in SUBSET Nat /\ \A n \in numbers : n <= bound
      OBVIOUS
    <2> QED
      BY <2>1, FS_BoundedSetOfNaturals
  <1>2. Belows \subseteq FiniteSubsetsOf(numbers) /\ Belows # {}
    <2>1. Belows # {} /\ \A s \in Belows : s \in SUBSET numbers
      OBVIOUS
    <2>2. ASSUME NEW s \in Belows
          PROVE  s \in FiniteSubsetsOf(numbers)
      <3> HIDE DEF Belows
      <3> QED
        BY <1>1, <2>1, <2>2, FS_Subset DEF FiniteSubsetsOf
    <2> QED
      BY <2>1, <2>2
  <1>3. IsWellFoundedOn(StrictSubsetOrdering(numbers), FiniteSubsetsOf(numbers))
    BY FS_StrictSubsetOrderingWellFounded
  <1>4. PICK least \in Belows :
           \A s \in Belows : ~ (<<s, least>> \in StrictSubsetOrdering(numbers))
    <2> HIDE DEF Belows
    <2> QED
      BY <1>2, <1>3, WFMin
  <1>5. PICK n \in numbers : least = Below(n)
    OBVIOUS
  <1>6. ASSUME NEW o \in numbers, ~(n <= o)
        PROVE  FALSE
    <2>1. Below(o) \subseteq Below(n) /\ o \in Below(n) /\ o \notin Below(o)
      <3>1. n \in Nat /\ o \in Nat /\ o < n /\ \A q \in numbers : q \in Nat
        BY <1>1, <1>6
      <3>2. ASSUME NEW q \in numbers, q < o
            PROVE  q < n
        BY <3>1, <3>2
      <3>3. ~(o < o)
        BY <3>1
      <3> QED
        BY <3>1, <3>2, <3>3
    <2>2. <<Below(o), least>> \in StrictSubsetOrdering(numbers)
      BY <1>5, <2>1 DEF StrictSubsetOrdering
    <2> QED
      BY <1>4, <2>2
  <1>7. \A x \in numbers : x <= n /\ n <= x => x = n
    BY <1>1
  <1> QED
    BY <1>6, <1>7 DEF Min

\* Among the versions listed the newer stand before the older.
LEMMA Ordered ==
  ASSUME NewestFirst
  PROVE  /\ DOMAIN listed \subseteq Nat \ {0} /\ \A i \in DOMAIN listed : listed[i] \in Listed
         /\ \A i, j \in DOMAIN listed : /\ listed[i].version > listed[j].version <=> i < j
                                        /\ listed[i].version = listed[j].version <=> i = j
  <1>1. DOMAIN listed \subseteq Nat \ {0} /\ \A i \in DOMAIN listed : listed[i] \in Listed
    BY DEF NewestFirst
  <1>2. \A i \in DOMAIN listed : listed[i].version \in Nat
    BY <1>1 DEF Listed
  <1> QED
    BY <1>1, <1>2 DEF NewestFirst

\* A page consumed: the walk has seen its versions too, and credits the paths
\* they name.
LEMMA PageConsumed ==
  ASSUME NewestFirst, NEW w \in Walks, NEW offset \in Nat, NEW page, page = PageAt(offset),
         SeenToOlder(w), CreditedInSeen(w), StillBehind(w, offset),
         NEW v, v = Consumed(w, page)
  PROVE  /\ v \in Walks /\ v.from = w.from /\ v.to = w.to /\ v.asked = w.asked
         /\ SeenToOlder(v) /\ CreditedInSeen(v) /\ StillBehind(v, offset + PageSize)
         /\ ReachedFrom(w, page) \/ IsLast(page, offset) => SpanSeen(v)
  <1> DEFINE new == {page[k].version : k \in Fresh(w, page)}
  <1>1. /\ page \in Seq(Listed)
        /\ \A k \in DOMAIN page : offset + k \in DOMAIN listed /\ page[k] = listed[offset + k] /\ k <= PageSize
        /\ \A i \in DOMAIN listed : i > offset /\ i <= offset + PageSize => i - offset \in DOMAIN page
        /\ IsLast(page, offset) => \A i \in DOMAIN listed : i <= offset + PageSize
    BY PageHolds
  <1>2. DOMAIN page = 1 .. Len(page) /\ Len(page) \in Nat /\ PageSize \in Nat
    BY <1>1, DiffSinceAssumption
  <1>3. /\ v.at = w.at /\ v.from = w.from /\ v.to = w.to /\ v.asked = w.asked
        /\ v.seen = w.seen \cup new
        /\ v.credit = [path \in DiffPaths |->
                  IF path \in w.asked /\ w.credit[path] = NoVersion /\ Naming(w, page, path) # {}
                  THEN page[Min(Naming(w, page, path))].version ELSE w.credit[path]]
        /\ v.head = w.head /\ v.offset = w.offset /\ v.jump = w.jump /\ v.page = w.page
        /\ DOMAIN v = DOMAIN w
    BY DEF Consumed, Walks
  <1>4. \A i \in DOMAIN listed : listed[i].version \in new <=>
            /\ i > offset /\ i <= offset + PageSize /\ listed[i].version <= w.to
            /\ listed[i].version \notin w.seen
    <2> SUFFICES ASSUME NEW i \in DOMAIN listed
                 PROVE  listed[i].version \in new <=>
                           /\ i > offset /\ i <= offset + PageSize /\ listed[i].version <= w.to
                           /\ listed[i].version \notin w.seen
      OBVIOUS
    <2>1. ASSUME listed[i].version \in new
          PROVE  /\ i > offset /\ i <= offset + PageSize /\ listed[i].version <= w.to
                 /\ listed[i].version \notin w.seen
      <3>1. PICK k \in Fresh(w, page) : page[k].version = listed[i].version
        BY <2>1
      <3>2. k \in DOMAIN page /\ page[k].version <= w.to /\ page[k].version \notin w.seen
        BY DEF Fresh
      <3>3. i = offset + k
        BY <1>1, <3>1, <3>2, Ordered
      <3> QED
        BY <1>1, <1>2, <3>1, <3>2, <3>3
    <2>2. ASSUME i > offset, i <= offset + PageSize, listed[i].version <= w.to, listed[i].version \notin w.seen
          PROVE  listed[i].version \in new
      <3>1. i - offset \in DOMAIN page
        BY <1>1, <2>2
      <3>2. offset + (i - offset) = i
        BY Ordered
      <3>3. page[i - offset] = listed[i]
        BY <1>1, <3>1, <3>2
      <3>4. i - offset \in Fresh(w, page)
        BY <2>2, <3>1, <3>3 DEF Fresh
      <3> QED
        BY <3>3, <3>4
    <2> QED
      BY <2>1, <2>2
  <1>5. \A n \in new : n <= w.to /\ \E i \in DOMAIN listed : listed[i].version = n
    BY <1>1 DEF Fresh
  <1> HIDE DEF new
  <1>6. \A i \in DOMAIN listed : listed[i].version \in Nat \ {0} /\ i \in Nat
    BY Ordered DEF Listed
  <1>7. w.to \in Nat /\ w.from \in Nat /\ w.seen \subseteq Nat
        /\ w.asked \subseteq DiffPaths /\ w.credit \in [DiffPaths -> Nat]
    BY DEF Walks
  <1>8. SeenToOlder(v)
    <2>1. ASSUME NEW i \in DOMAIN listed, NEW j \in DOMAIN listed, listed[j].version \in w.seen \cup new,
                 listed[i].version >= listed[j].version, listed[i].version <= w.to,
                 listed[i].version \notin w.seen
          PROVE  listed[i].version \in new
      <3>1. listed[j].version \in new
        BY <2>1 DEF SeenToOlder
      <3>2. i <= j
        BY <1>6, <2>1, Ordered
      <3>3. i > offset
        BY <2>1 DEF StillBehind
      <3>4. j <= offset + PageSize
        BY <1>4, <3>1
      <3> QED
        BY <1>2, <1>4, <1>6, <2>1, <3>2, <3>3, <3>4
    <2> QED
      BY <1>3, <1>5, <2>1 DEF SeenToOlder
  <1>9. StillBehind(v, offset + PageSize)
    <2>1. ASSUME NEW i \in DOMAIN listed, listed[i].version <= w.to,
                 listed[i].version \notin w.seen, listed[i].version \notin new
          PROVE  i > offset + PageSize
      BY <1>2, <1>4, <1>6, <2>1 DEF StillBehind
    <2> QED
      BY <1>3, <2>1 DEF StillBehind
  <1>10. ReachedFrom(w, page) \/ IsLast(page, offset) => SpanSeen(v)
    <2>1. ASSUME ReachedFrom(w, page)
          PROVE  SpanSeen(v)
      <3>1. PICK k \in Fresh(w, page) : page[k].version <= w.from
        BY <2>1 DEF ReachedFrom
      <3>2. offset + k \in DOMAIN listed /\ page[k] = listed[offset + k]
            /\ listed[offset + k].version <= w.from /\ listed[offset + k].version \in v.seen
        BY <1>1, <1>3, <3>1, SMTT(30) DEF Fresh, new
      <3> QED
        BY <1>3, <1>6, <1>7, <1>8, <3>2 DEF SeenToOlder, SpanSeen, Between
    <2>2. ASSUME IsLast(page, offset)
          PROVE  SpanSeen(v)
      BY <1>1, <1>2, <1>3, <1>4, <1>6, <2>2 DEF StillBehind, SpanSeen, Between
    <2> QED
      BY <2>1, <2>2
  <1>11. ASSUME NEW path \in w.asked
         PROVE  /\ v.credit[path] \in Nat
                /\ v.credit[path] # NoVersion =>
                      \E i \in DOMAIN listed : NamesIn(v, path, i) /\ listed[i].version = v.credit[path]
                /\ \A i \in DOMAIN listed : NamesIn(v, path, i) => listed[i].version <= v.credit[path]
    <2> DEFINE naming == Naming(w, page, path)
    <2>1. path \in DiffPaths /\ w.credit[path] \in Nat
      BY <1>7
    <2>2. \A i \in DOMAIN listed : NamesIn(v, path, i) <=>
              NamesIn(w, path, i) \/ (i - offset \in naming /\ i > offset)
      <3> SUFFICES ASSUME NEW i \in DOMAIN listed
                   PROVE  NamesIn(v, path, i) <=> NamesIn(w, path, i) \/ (i - offset \in naming /\ i > offset)
        OBVIOUS
      <3>1. offset + (i - offset) = i
        BY <1>6
      <3>2. i - offset \in naming /\ i > offset <=>
                /\ i > offset /\ i - offset \in DOMAIN page /\ listed[i].version <= w.to
                /\ listed[i].version \notin w.seen /\ listed[i].version > w.from /\ path \in listed[i].files
        BY <1>1, <3>1 DEF Naming, Fresh
      <3>3. i > offset /\ i - offset \in DOMAIN page <=> i > offset /\ i <= offset + PageSize
        <4>1. i - offset \in DOMAIN page => i - offset <= PageSize
          BY <1>1
        <4> QED
          BY <1>1, <1>2, <1>6, <4>1
      <3> QED
        BY <1>3, <1>4, <3>2, <3>3 DEF NamesIn, Between
    <2>3. CASE w.credit[path] = NoVersion /\ naming # {}
      <3>1. naming \in SUBSET (1 .. Len(page)) /\ Len(page) \in Nat
        BY <1>2 DEF Naming, Fresh
      <3>2. PICK k : k = Min(naming)
        OBVIOUS
      <3>3. k \in naming /\ \A n \in naming : k <= n
        BY <2>3, <3>1, <3>2, LeastOf
      <3>4. k \in DOMAIN page /\ offset + k \in DOMAIN listed /\ page[k] = listed[offset + k] /\ k > 0
        BY <1>1, <1>2, <3>1, <3>3
      <3>5. v.credit[path] = listed[offset + k].version
        BY <1>3, <2>1, <2>3, <3>2, <3>4
      <3>6. (offset + k) - offset = k /\ offset + k > offset
        BY <1>2, <3>4
      <3>7. NamesIn(v, path, offset + k)
        <4> HIDE DEF naming
        <4>1. (offset + k) - offset \in naming
          BY <3>3, <3>6
        <4> QED
          BY <2>2, <3>4, <3>6, <4>1
      <3>8. ASSUME NEW i \in DOMAIN listed, NamesIn(v, path, i)
            PROVE  listed[i].version <= listed[offset + k].version
        <4>1. ~NamesIn(w, path, i)
          BY <1>6, <2>3 DEF CreditedInSeen, NoVersion
        <4>2. i - offset \in naming /\ k <= i - offset
          BY <2>2, <3>3, <3>8, <4>1
        <4>3. offset + k <= i
          BY <1>2, <1>6, <3>4, <4>2
        <4> QED
          BY <1>6, <3>4, <4>3, Ordered
      <3> QED
        BY <1>6, <3>4, <3>5, <3>7, <3>8
    <2>4. CASE ~(w.credit[path] = NoVersion /\ naming # {})
      <3>1. v.credit[path] = w.credit[path]
        BY <1>3, <2>1, <2>4
      <3>2. ASSUME w.credit[path] # NoVersion
            PROVE  \E i \in DOMAIN listed : NamesIn(v, path, i) /\ listed[i].version = w.credit[path]
        BY <2>2, <3>2 DEF CreditedInSeen
      <3>3. ASSUME NEW i \in DOMAIN listed, NamesIn(v, path, i)
            PROVE  listed[i].version <= w.credit[path]
        <4>1. CASE NamesIn(w, path, i)
          BY <4>1 DEF CreditedInSeen
        <4>2. CASE ~NamesIn(w, path, i)
          <5>1. i - offset \in naming
            BY <2>2, <3>3, <4>2
          <5>2. w.credit[path] # NoVersion
            BY <2>4, <5>1
          <5>3. PICK j \in DOMAIN listed : NamesIn(w, path, j) /\ listed[j].version = w.credit[path]
            BY <5>2 DEF CreditedInSeen
          <5>4. listed[j].version \in w.seen /\ listed[i].version <= w.to /\ listed[i].version \notin w.seen
            BY <1>3, <3>3, <4>2, <5>3 DEF NamesIn, Between
          <5> QED
            BY <1>6, <5>3, <5>4 DEF SeenToOlder
        <4> QED
          BY <4>1, <4>2
      <3> QED
        BY <2>1, <3>1, <3>2, <3>3
    <2> QED
      BY <2>3, <2>4
  <1>12. CreditedInSeen(v)
    BY <1>3, <1>11 DEF CreditedInSeen
  <1>13. v \in Walks
    <2>1. new \in SUBSET Nat
      BY <1>5, <1>6
    <2>2. v.credit \in [DiffPaths -> Nat]
      <3>1. \A path \in DiffPaths : v.credit[path] \in Nat
        BY <1>3, <1>7, <1>11
      <3> QED
        BY <1>3, <3>1
    <2>3. v = [w EXCEPT !.seen = v.seen, !.credit = v.credit]
      BY DEF Consumed, Walks
    <2> QED
      BY <1>3, <1>7, <2>1, <2>2, <2>3 DEF Walks
  <1> QED
    BY <1>3, <1>8, <1>9, <1>10, <1>12, <1>13

\* A version that lands stands in front of the list and above every walk's
\* newer end.
LEMMA LandsInFront ==
  ASSUME WalkInv, LandVersion
  PROVE  WalkInv'
  <1>1. PICK number \in Top + 1 .. Top + 2, files \in ChangeSets :
           listed' = <<[version |-> number, files |-> files]>> \o listed
    BY DEF LandVersion
  <1> DEFINE new == [version |-> number, files |-> files]
  <1>2. /\ listed \in Seq(Listed) /\ walked' = walked /\ walked \in Walks /\ walked.to \in Nat
        /\ \A i \in DOMAIN listed : listed[i] \in Listed
    BY DEF WalkInv, NewestFirst, LandVersion, Walks
  <1>3. Top \in Nat /\ \A i \in DOMAIN listed : listed[i].version \in Nat \ {0} /\ listed[i].version <= Top
    <2>1. ASSUME NEW i \in DOMAIN listed
          PROVE  listed # <<>> /\ 1 \in DOMAIN listed /\ listed[i].version \in Nat \ {0}
                 /\ listed[1].version \in Nat /\ listed[i].version <= listed[1].version
      <3>1. 1 \in DOMAIN listed /\ i \in Nat \ {0} /\ listed # <<>>
        BY <1>2, <2>1
      <3>2. listed[i].version \in Nat \ {0} /\ listed[1].version \in Nat
        BY <1>2, <3>1 DEF Listed
      <3>3. i = 1 \/ 1 < i
        BY <3>1
      <3> QED
        BY <3>1, <3>2, <3>3 DEF WalkInv, NewestFirst
    <2>2. CASE listed = <<>>
      BY <2>2 DEF Top
    <2>3. CASE listed # <<>>
      <3>1. 1 \in DOMAIN listed
        BY <1>2, <2>3
      <3> QED
        BY <2>1, <2>3, <3>1 DEF Top
    <2> QED
      BY <2>2, <2>3
  <1>4. new \in Listed /\ new.version > Top
    BY <1>3, DiffSinceAssumption DEF Listed
  <1> HIDE DEF new
  <1>5. /\ listed' \in Seq(Listed) /\ Len(listed') = Len(listed) + 1 /\ listed'[1] = new
        /\ \A i \in DOMAIN listed : i + 1 \in DOMAIN listed' /\ listed'[i + 1] = listed[i]
        /\ \A j \in DOMAIN listed' : j = 1 \/ (j - 1 \in DOMAIN listed /\ listed'[j] = listed[j - 1])
    <2>1. listed' = <<new>> \o listed
      BY <1>1 DEF new
    <2>2. <<new>> \in Seq(Listed) /\ Len(<<new>>) = 1
      BY <1>4
    <2>3. /\ listed' \in Seq(Listed) /\ Len(listed') = 1 + Len(listed)
          /\ \A i \in 1 .. 1 + Len(listed) :
                listed'[i] = IF i <= 1 THEN <<new>>[i] ELSE listed[i - 1]
      BY <1>2, <2>1, <2>2, ConcatProperties
    <2> QED
      BY <1>2, <2>3
  <1>6. \A j \in DOMAIN listed' : j \in Nat \ {0}
    BY <1>5
  <1>7. 1 \in DOMAIN listed' /\ \A i \in DOMAIN listed : i \in Nat \ {0}
    BY <1>2, <1>5
  <1>8. NewestFirst'
    <2> SUFFICES ASSUME NEW i \in DOMAIN listed', NEW j \in DOMAIN listed', i < j
                 PROVE  listed'[i].version > listed'[j].version
      BY <1>5 DEF NewestFirst
    <2>1. j - 1 \in DOMAIN listed /\ listed'[j] = listed[j - 1]
      BY <1>5, <1>6
    <2>2. CASE i = 1
      <3>1. listed[j - 1].version <= Top /\ listed[j - 1].version \in Nat /\ new.version \in Nat
        BY <1>3, <1>4, <2>1 DEF Listed
      <3> QED
        BY <1>3, <1>4, <1>5, <2>1, <2>2, <3>1
    <2>3. CASE i # 1
      <3>1. i - 1 \in DOMAIN listed /\ listed'[i] = listed[i - 1]
        BY <1>5, <2>3
      <3>2. i - 1 < j - 1
        BY <1>6
      <3> QED
        BY <2>1, <3>1, <3>2 DEF WalkInv, NewestFirst
    <2> QED
      BY <2>2, <2>3
  <1>9. ASSUME walked.at # "idle"
        PROVE  new.version > walked.to /\ walked.to \in Numbers(listed)'
    <2>1. PICK i \in DOMAIN listed : listed[i].version = walked.to
      BY <1>9 DEF WalkInv, WalkSays, Numbers
    <2>2. walked.to <= Top /\ i + 1 \in DOMAIN listed' /\ listed'[i + 1].version = walked.to
      BY <1>3, <1>5, <2>1
    <2> QED
      BY <1>2, <1>3, <1>4, <2>2 DEF Numbers, Listed
  <1>10. ASSUME walked.at # "idle", NEW offset \in Nat, StillBehind(walked, offset)
         PROVE  StillBehind(walked, offset)'
    <2> SUFFICES ASSUME NEW j \in DOMAIN listed', listed'[j].version <= walked.to,
                        listed'[j].version \notin walked.seen
                 PROVE  j > offset
      BY <1>2 DEF StillBehind
    <2>1. new.version \in Nat
      BY <1>4 DEF Listed
    <2>2. j # 1
      BY <1>2, <1>5, <1>9, <1>10, <2>1
    <2>3. j - 1 \in DOMAIN listed /\ listed'[j] = listed[j - 1]
      BY <1>5, <2>2
    <2>4. j - 1 > offset
      BY <1>10, <2>3 DEF StillBehind
    <2> QED
      BY <1>6, <2>4
  <1>11. new.version \in Nat
    BY <1>4 DEF Listed
  <1>12. ASSUME walked.at # "idle", SpanSeen(walked)
         PROVE  SpanSeen(walked)'
    <2> SUFFICES ASSUME NEW j \in DOMAIN listed', Between(walked, listed'[j].version)
                 PROVE  listed'[j].version \in walked.seen
      BY <1>2 DEF SpanSeen, Between
    <2>1. j # 1
      BY <1>2, <1>5, <1>9, <1>11, <1>12 DEF Between
    <2>2. j - 1 \in DOMAIN listed /\ listed'[j] = listed[j - 1]
      BY <1>5, <2>1
    <2> QED
      BY <1>12, <2>2 DEF SpanSeen
  <1>13. ASSUME walked.at # "idle", SeenToOlder(walked), CreditedInSeen(walked)
         PROVE  SeenToOlder(walked)' /\ CreditedInSeen(walked)'
    <2>1. new.version > walked.to
      BY <1>9, <1>13
    <2>2. SeenToOlder(walked)'
      <3>1. ASSUME NEW n \in walked.seen
            PROVE  n <= walked.to /\ \E i \in DOMAIN listed' : listed'[i].version = n
        BY <1>5, <1>13 DEF SeenToOlder
      <3>2. new.version \notin walked.seen
        BY <1>2, <1>11, <2>1, <3>1
      <3>3. ASSUME NEW i \in DOMAIN listed', NEW j \in DOMAIN listed', listed'[j].version \in walked.seen,
                   listed'[i].version >= listed'[j].version, listed'[i].version <= walked.to
            PROVE  listed'[i].version \in walked.seen
        <4>1. i # 1 /\ j # 1
          BY <1>2, <1>5, <1>11, <2>1, <3>2, <3>3
        <4>2. i - 1 \in DOMAIN listed /\ listed'[i] = listed[i - 1] /\ j - 1 \in DOMAIN listed /\ listed'[j] = listed[j - 1]
          BY <1>5, <4>1
        <4> QED
          BY <1>13, <3>3, <4>2 DEF SeenToOlder
      <3> QED
        BY <1>2, <3>1, <3>3 DEF SeenToOlder
    <2>3. CreditedInSeen(walked)'
      <3>1. \A path, i : i \in DOMAIN listed => (NamesIn(walked, path, i) <=>
               path \in listed'[i + 1].files /\ Between(walked, listed'[i + 1].version) /\ listed'[i + 1].version \in walked.seen)
        BY <1>5 DEF NamesIn
      <3>2. ASSUME NEW path \in walked.asked, NEW j \in DOMAIN listed', path \in listed'[j].files,
                   Between(walked, listed'[j].version), listed'[j].version \in walked.seen
            PROVE  listed'[j].version <= walked.credit[path]
        <4>1. j # 1
          BY <1>2, <1>5, <1>11, <2>1, <3>2 DEF Between
        <4>2. j - 1 \in DOMAIN listed /\ listed'[j] = listed[j - 1]
          BY <1>5, <4>1
        <4>3. NamesIn(walked, path, j - 1)
          BY <3>2, <4>2 DEF NamesIn
        <4> QED
          BY <1>13, <4>2, <4>3 DEF CreditedInSeen
      <3>3. ASSUME NEW path \in walked.asked, walked.credit[path] # NoVersion
            PROVE  \E j \in DOMAIN listed' : /\ path \in listed'[j].files /\ Between(walked, listed'[j].version)
                                             /\ listed'[j].version \in walked.seen
                                             /\ listed'[j].version = walked.credit[path]
        <4>1. PICK i \in DOMAIN listed : NamesIn(walked, path, i) /\ listed[i].version = walked.credit[path]
          BY <1>13, <3>3 DEF CreditedInSeen
        <4> QED
          BY <1>5, <3>1, <4>1
      <3> QED
        BY <1>2, <3>2, <3>3 DEF CreditedInSeen, NamesIn, Between
    <2> QED
      BY <2>2, <2>3
  <1>14. WalkSays'
    <2>1. Len(listed) \in Nat /\ PageSize \in Nat /\ walked.offset \in Nat /\ walked.jump \in Nat
      BY <1>2, DiffSinceAssumption DEF Walks
    <2>2. AllCredited(walked)' = AllCredited(walked)
      BY <1>2 DEF AllCredited
    <2>3. WalkSays
      BY DEF WalkInv
    <2>4. /\ (walked.at # "idle" => walked.from <= walked.to /\ walked.to \in Numbers(listed))'
          /\ (walked.at \in {"place", "jump"} => StillBehind(walked, PageSize))'
          /\ (walked.at = "jump" => walked.jump < Len(listed))'
          /\ (walked.at \in {"next", "done"} => SeenToOlder(walked) /\ CreditedInSeen(walked))'
          /\ (walked.at = "next" => StillBehind(walked, walked.offset))'
          /\ (walked.at = "done" => AllCredited(walked) \/ SpanSeen(walked))'
      <3>1. (walked.at # "idle" => walked.from <= walked.to /\ walked.to \in Numbers(listed))'
        BY <1>2, <1>9, <2>3 DEF WalkSays
      <3>2. (walked.at \in {"place", "jump"} => StillBehind(walked, PageSize))'
        BY <1>2, <1>10, <2>1, <2>3 DEF WalkSays
      <3>3. (walked.at = "jump" => walked.jump < Len(listed))'
        BY <1>2, <1>5, <2>1, <2>3 DEF WalkSays
      <3>4. (walked.at \in {"next", "done"} => SeenToOlder(walked) /\ CreditedInSeen(walked))'
        BY <1>2, <1>13, <2>3 DEF WalkSays
      <3>5. (walked.at = "next" => StillBehind(walked, walked.offset))'
        BY <1>2, <1>10, <2>1, <2>3 DEF WalkSays, StillBehind
      <3>6. (walked.at = "done" => AllCredited(walked) \/ SpanSeen(walked))'
        BY <1>2, <1>12, <2>2, <2>3 DEF WalkSays
      <3> QED
        BY <3>1, <3>2, <3>3, <3>4, <3>5, <3>6
    <2> QED
      BY <1>2, <2>3, <2>4 DEF WalkSays
  <1> QED
    BY <1>2, <1>8, <1>14 DEF WalkInv

\* One turn of the loop.
LEMMA Turns ==
  ASSUME NewestFirst, NEW w \in Walks, NEW offset \in Nat,
         SeenToOlder(w), CreditedInSeen(w), StillBehind(w, offset),
         w.from <= w.to, w.to \in Numbers(listed),
         walked' = Turn(w, PageAt(offset), offset), listed' = listed
  PROVE  WalkInv'
  <1>1. PICK page : page = PageAt(offset)
    OBVIOUS
  <1>2. PICK v : v = Consumed(w, page)
    OBVIOUS
  <1>3. /\ v \in Walks /\ v.from = w.from /\ v.to = w.to /\ v.asked = w.asked
        /\ SeenToOlder(v) /\ CreditedInSeen(v) /\ StillBehind(v, offset + PageSize)
        /\ ReachedFrom(w, page) \/ IsLast(page, offset) => SpanSeen(v)
    BY <1>1, <1>2, PageConsumed
  <1>4. PICK done \in BOOLEAN : done = (AllCredited(v) \/ ReachedFrom(w, page) \/ IsLast(page, offset))
    OBVIOUS
  <1>5. walked' = [v EXCEPT !.at = IF done THEN "done" ELSE "next", !.offset = offset + PageSize,
                            !.page = <<>>, !.jump = 0]
    BY <1>1, <1>2, <1>4 DEF Turn
  <1>6. /\ walked'.at = (IF done THEN "done" ELSE "next") /\ walked'.offset = offset + PageSize
        /\ walked'.from = v.from /\ walked'.to = v.to /\ walked'.asked = v.asked
        /\ walked'.seen = v.seen /\ walked'.credit = v.credit /\ walked' \in Walks
    <2>1. offset + PageSize \in Nat
      BY DiffSinceAssumption
    <2>2. <<>> \in Seq(Listed)
      OBVIOUS
    <2>3. PICK at \in WalkSteps : at = IF done THEN "done" ELSE "next"
      BY DEF WalkSteps
    <2>4. PICK next \in Nat : next = offset + PageSize
      BY <2>1
    <2>4a. PICK none \in Seq(Listed) : none = <<>>
      BY <2>2
    <2>5. walked' = [v EXCEPT !.at = at, !.offset = next, !.page = none, !.jump = 0]
      BY <1>5, <2>3, <2>4, <2>4a
    <2>6. walked' \in Walks
      <3>1. 0 \in Nat
        OBVIOUS
      <3> QED
        BY <1>3, <2>5, <3>1 DEF Walks
    <2>7. /\ walked'.at = at /\ walked'.offset = next /\ walked'.from = v.from /\ walked'.to = v.to
          /\ walked'.asked = v.asked /\ walked'.seen = v.seen /\ walked'.credit = v.credit
      BY <1>3, <2>5 DEF Walks
    <2> QED
      BY <2>3, <2>4, <2>6, <2>7
  <1>7. SeenToOlder(walked)' /\ CreditedInSeen(walked)' /\ StillBehind(walked, offset + PageSize)'
    BY <1>3, <1>6 DEF SeenToOlder, CreditedInSeen, StillBehind, NamesIn, Between
  <1>8. done => AllCredited(walked)' \/ SpanSeen(walked)'
    BY <1>3, <1>4, <1>6 DEF AllCredited, SpanSeen, Between
  <1>9. WalkSays'
    BY <1>3, <1>6, <1>7, <1>8 DEF WalkSays, StillBehind, Numbers
  <1> QED
    BY <1>6, <1>9 DEF WalkInv, NewestFirst

\* Nothing seen, all the list stands behind the first offset; so it does
\* behind one whose version is not older than the newer end.
LEMMA NothingSeen ==
  ASSUME WalkInv, walked.at \in {"first", "place", "jump"}
  PROVE  /\ SeenToOlder(walked) /\ CreditedInSeen(walked) /\ StillBehind(walked, 0)
         /\ walked \in Walks /\ NewestFirst /\ walked.from <= walked.to /\ walked.to \in Numbers(listed)
  BY Ordered DEF WalkInv, WalkSays, SeenToOlder, CreditedInSeen, StillBehind, NamesIn, Walks, NoVersion

LEMMA FirstPageRead ==
  ASSUME WalkInv, ReadFirstPage
  PROVE  WalkInv'
  <1>1. PICK page : page = PageAt(0)
    OBVIOUS
  <1>2. walked.at = "first" /\ listed' = listed
    BY DEF ReadFirstPage
  <1>3. CASE walked' = Turn(walked, page, 0)
    BY <1>1, <1>2, <1>3, NothingSeen, Turns
  <1>4. CASE ~IsLast(page, 0) /\ (\A number \in Numbers(page) : number > walked.to)
             /\ walked' = [walked EXCEPT !.at = "place", !.page = page]
    <2>1. walked \in Walks /\ NewestFirst /\ WalkSays
      BY DEF WalkInv
    <2>2. page \in Seq(Listed) /\ page # <<>>
      BY <1>1, <1>4, <2>1, PageHolds
    <2>3. walked' \in Walks /\ walked'.at = "place" /\ walked'.page = page
          /\ walked'.from = walked.from /\ walked'.to = walked.to /\ walked'.seen = walked.seen
          /\ walked'.credit = walked.credit
      BY <1>4, <2>1, <2>2 DEF Walks, WalkSteps
    <2>4. StillBehind(walked, PageSize)
      <3> SUFFICES ASSUME NEW i \in DOMAIN listed, listed[i].version <= walked.to, ~(i > PageSize)
                   PROVE  FALSE
        BY DEF StillBehind
      <3>1. i > 0 /\ i <= 0 + PageSize /\ i \in Nat /\ i - 0 = i
        BY <2>1, DiffSinceAssumption DEF NewestFirst
      <3>2. i \in DOMAIN page /\ page[i] = listed[i]
        <4>1. 0 + i = i
          BY <3>1
        <4> QED
          BY <1>1, <2>1, <3>1, <4>1, PageHolds
      <3>3. listed[i].version \in Nat /\ walked.to \in Nat
        BY <2>1, Ordered DEF Listed, Walks
      <3> QED
        BY <1>4, <3>2, <3>3 DEF Numbers
    <2>5. \A i \in DOMAIN page : page[i].version > walked.to
      BY <1>4 DEF Numbers
    <2> QED
      BY <1>2, <2>1, <2>2, <2>3, <2>4, <2>5 DEF WalkInv, WalkSays, NewestFirst, StillBehind, Numbers
  <1> QED
    BY <1>1, <1>3, <1>4 DEF ReadFirstPage

\* The versions above the newer end stand in front of it, so there are fewer
\* of them than versions.
LEMMA PlaceInList ==
  ASSUME NewestFirst, NEW to \in Numbers(listed)
  PROVE  /\ Cardinality({n \in Numbers(listed) : n > to}) \in Nat
         /\ Cardinality({n \in Numbers(listed) : n > to}) < Len(listed)
  <1>1. PICK at \in DOMAIN listed : listed[at].version = to
    BY DEF Numbers
  <1>2. at \in 1 .. Len(listed) /\ Len(listed) \in Nat
    BY DEF NewestFirst
  <1> DEFINE above == {n \in Numbers(listed) : n > to}
             front == 1 .. at - 1
             of == [i \in front |-> listed[i].version]
  <1>3. IsFiniteSet(front) /\ Cardinality(front) = at - 1
    <2>1. 1 \in Int /\ at - 1 \in Int
      BY <1>2
    <2>2. /\ IsFiniteSet(front)
          /\ Cardinality(front) = IF 1 > at - 1 THEN 0 ELSE (at - 1) - 1 + 1
      BY <2>1, FS_Interval
    <2> QED
      BY <1>2, <2>2
  <1>4. of \in Surjection(front, above)
    <2>1. \A i \in front : listed[i].version \in above
      BY <1>1, <1>2, Ordered DEF Numbers, NewestFirst
    <2>2. \A n \in above : \E i \in front : of[i] = n
      BY <1>1, <1>2, Ordered DEF Numbers
    <2> QED
      BY <2>1, <2>2 DEF Surjection
  <1>5. IsFiniteSet(above) /\ Cardinality(above) <= Cardinality(front)
    BY <1>3, <1>4, FS_Surjection
  <1>6. Cardinality(above) \in Nat
    BY <1>5, FS_CardinalityType
  <1> QED
    BY <1>2, <1>3, <1>5, <1>6

LEMMA PlaceAsked ==
  ASSUME WalkInv, AskPlace
  PROVE  WalkInv'
  <1>1. walked \in Walks /\ NewestFirst /\ WalkSays /\ walked.at = "place" /\ listed' = listed
    BY DEF WalkInv, AskPlace
  <1>2. walked.to \in Numbers(listed) /\ walked.to \in Nat
    BY <1>1 DEF WalkSays, Walks
  <1>3. walked.page \in Seq(Listed) /\ walked.page[1].version - walked.to \in Nat
    <2>1. walked.page \in Seq(Listed) /\ 1 \in DOMAIN walked.page
      BY <1>1 DEF WalkSays, Walks
    <2>2. walked.page[1] \in Listed
      BY <2>1
    <2> QED
      BY <1>1, <1>2, <2>1, <2>2 DEF WalkSays, Listed
  <1>4. PICK jump : jump \in Nat /\ jump < Len(listed) /\ walked' = [walked EXCEPT !.at = "jump", !.jump = jump]
    BY <1>1, <1>2, <1>3, PlaceInList DEF AskPlace
  <1>5. walked' \in Walks /\ walked'.at = "jump" /\ walked'.jump = jump
        /\ walked'.from = walked.from /\ walked'.to = walked.to /\ walked'.seen = walked.seen
        /\ walked'.credit = walked.credit /\ walked'.page = walked.page
    BY <1>1, <1>4 DEF Walks, WalkSteps
  <1> QED
    BY <1>1, <1>4, <1>5 DEF WalkInv, WalkSays, NewestFirst, StillBehind, Numbers

LEMMA PlaceJumpedTo ==
  ASSUME WalkInv, JumpToPlace
  PROVE  WalkInv'
  <1>1. walked \in Walks /\ NewestFirst /\ WalkSays /\ walked.at = "jump" /\ listed' = listed
    BY DEF WalkInv, JumpToPlace
  <1>2. PICK page : page = PageAt(walked.jump)
    OBVIOUS
  <1>3. walked.jump \in Nat /\ walked.to \in Nat /\ PageSize \in Nat \ {0}
    BY <1>1, DiffSinceAssumption DEF Walks
  <1>4. CASE Missed(page)
    <2>1. walked' = [Consumed(walked, walked.page) EXCEPT !.at = "next", !.offset = PageSize, !.page = <<>>]
      BY <1>2, <1>4 DEF JumpToPlace
    <2>2. Fresh(walked, walked.page) = {}
      <3>1. ASSUME NEW i \in DOMAIN walked.page
            PROVE  ~(walked.page[i].version <= walked.to)
        <4>1. walked.page[i] \in Listed
          BY <1>1 DEF Walks
        <4> QED
          BY <1>1, <1>3, <4>1 DEF WalkSays, Listed
      <3> QED
        BY <3>1 DEF Fresh
    <2>3. Consumed(walked, walked.page) = walked
      <3>1. \A path \in DiffPaths : Naming(walked, walked.page, path) = {}
        BY <2>2 DEF Naming
      <3>2. PICK credit : credit = [path \in DiffPaths |->
                  IF path \in walked.asked /\ walked.credit[path] = NoVersion /\ Naming(walked, walked.page, path) # {}
                  THEN walked.page[Min(Naming(walked, walked.page, path))].version ELSE walked.credit[path]]
        OBVIOUS
      <3>3. credit = walked.credit
        BY <1>1, <3>1, <3>2 DEF Walks
      <3>4. PICK seen : seen = {walked.page[i].version : i \in Fresh(walked, walked.page)}
        OBVIOUS
      <3>5. seen = {}
        BY <2>2, <3>4
      <3>6. Consumed(walked, walked.page) = [walked EXCEPT !.seen = @ \cup seen, !.credit = credit]
        BY <3>2, <3>4 DEF Consumed
      <3>7. walked.seen \cup seen = walked.seen
        BY <3>5
      <3>8. Consumed(walked, walked.page) = [walked EXCEPT !.seen = walked.seen, !.credit = walked.credit]
        BY <3>3, <3>6, <3>7
      <3> QED
        BY <1>1, <3>8 DEF Walks
    <2>4. <<>> \in Seq(Listed)
      OBVIOUS
    <2>5. walked' \in Walks /\ walked'.at = "next" /\ walked'.offset = PageSize /\ walked'.asked = walked.asked
          /\ walked'.from = walked.from /\ walked'.to = walked.to /\ walked'.seen = walked.seen
          /\ walked'.credit = walked.credit
      BY <1>1, <1>3, <2>1, <2>3, <2>4 DEF Walks, WalkSteps
    <2>6. SeenToOlder(walked) /\ CreditedInSeen(walked)
      BY <1>1, NothingSeen
    <2> QED
      BY <1>1, <2>5, <2>6 DEF WalkInv, WalkSays, NewestFirst, StillBehind, Numbers, SeenToOlder,
         CreditedInSeen, NamesIn, Between
  <1>5. CASE ~Missed(page)
    <2>1. walked' = Turn(walked, page, walked.jump)
      BY <1>2, <1>5 DEF JumpToPlace
    <2>2. StillBehind(walked, walked.jump)
      <3> SUFFICES ASSUME NEW i \in DOMAIN listed, listed[i].version <= walked.to, ~(i > walked.jump)
                   PROVE  FALSE
        BY DEF StillBehind
      <3>1. walked.jump + 1 \in DOMAIN listed /\ walked.jump + 1 > walked.jump
            /\ walked.jump + 1 <= walked.jump + PageSize /\ (walked.jump + 1) - walked.jump = 1
        BY <1>1, <1>3 DEF WalkSays, NewestFirst
      <3>2. 1 \in DOMAIN page /\ page[1] = listed[walked.jump + 1]
        BY <1>1, <1>2, <1>3, <3>1, PageHolds
      <3>3. listed[walked.jump + 1].version \in Nat /\ listed[i].version \in Nat /\ i \in Nat
        BY <1>1, <3>1, Ordered DEF Listed
      <3>4. page # <<>> /\ ~(listed[walked.jump + 1].version < walked.to)
        BY <1>5, <3>2 DEF Missed
      <3>5. i < walked.jump + 1
        BY <1>3, <3>3
      <3> QED
        BY <1>1, <1>3, <3>1, <3>3, <3>4, <3>5, SMTT(30) DEF NewestFirst
    <2> QED
      BY <1>1, <1>2, <1>3, <2>1, <2>2, NothingSeen, Turns
  <1> QED
    BY <1>4, <1>5

LEMMA WalkKeeps ==
  ASSUME WalkInv, WalkNext
  PROVE  WalkInv'
  <1>1. CASE LandVersion
    BY <1>1, LandsInFront
  <1>2. CASE AskChanges
    <2>1. PICK from \in Numbers(listed), to \in Numbers(listed),
              asked \in (SUBSET UNION ChangeSets) \ {{}}, head \in BOOLEAN :
              /\ from <= to
              /\ walked' = [Idle EXCEPT !.at = "first", !.from = from, !.to = to, !.asked = asked, !.head = head]
      BY <1>2 DEF AskChanges
    <2>2. from \in Nat /\ to \in Nat /\ asked \in SUBSET DiffPaths
      BY DiffSinceAssumption, Ordered DEF Numbers, WalkInv, Listed
    <2>3. <<>> \in Seq(Listed)
      OBVIOUS
    <2>4. walked' \in Walks /\ walked'.at = "first" /\ walked'.from = from /\ walked'.to = to
          /\ walked'.seen = {} /\ walked'.credit = [path \in DiffPaths |-> NoVersion]
      BY <2>1, <2>2, <2>3 DEF Idle, Walks, WalkSteps, NoVersion
    <2> QED
      BY <1>2, <2>1, <2>4 DEF AskChanges, WalkInv, WalkSays, NewestFirst, Numbers
  <1>3. CASE ReadFirstPage
    BY <1>3, FirstPageRead
  <1>4. CASE AskPlace
    BY <1>4, PlaceAsked
  <1>5. CASE JumpToPlace
    BY <1>5, PlaceJumpedTo
  <1>6. CASE ReadNextPage
    BY <1>6, Turns DEF ReadNextPage, WalkInv, WalkSays, Walks
  <1>7. CASE PrintCredits
    <2>1. Idle \in Walks
      BY DEF Idle, Walks, WalkSteps, NoVersion
    <2> QED
      BY <1>7, <2>1 DEF PrintCredits, WalkInv, WalkSays, NewestFirst, Idle
  <1> QED
    BY <1>1, <1>2, <1>3, <1>4, <1>5, <1>6, <1>7 DEF WalkNext

\* What a finished walk says.
LEMMA CreditsNewest == WalkInv => CreditedToNewest
  <1> SUFFICES ASSUME WalkInv, walked.at = "done", NEW path \in walked.asked
               PROVE  walked.credit[path] =
                        Max({listed[i].version : i \in {j \in DOMAIN listed :
                              /\ path \in listed[j].files
                              /\ listed[j].version > walked.from /\ listed[j].version <= walked.to}}
                            \cup {NoVersion})
    BY DEF CreditedToNewest
  <1> DEFINE naming == {listed[i].version : i \in {j \in DOMAIN listed :
                              /\ path \in listed[j].files
                              /\ listed[j].version > walked.from /\ listed[j].version <= walked.to}}
  <1>1. walked \in Walks /\ NewestFirst /\ WalkSays
    BY DEF WalkInv
  <1>2. walked.credit[path] \in Nat
    BY <1>1 DEF Walks
  <1>3. naming \subseteq Nat
    BY <1>1, Ordered DEF Listed
  <1>4. walked.credit[path] \in naming \cup {NoVersion}
    BY <1>1 DEF WalkSays, CreditedInSeen, NamesIn, Between
  <1>5. ASSUME NEW i \in DOMAIN listed, path \in listed[i].files, Between(walked, listed[i].version)
        PROVE  listed[i].version <= walked.credit[path]
    <2>1. SeenToOlder(walked) /\ CreditedInSeen(walked) /\ (AllCredited(walked) \/ SpanSeen(walked))
      BY <1>1 DEF WalkSays
    <2>2. CASE listed[i].version \in walked.seen
      BY <1>5, <2>1, <2>2 DEF CreditedInSeen, NamesIn
    <2>3. CASE listed[i].version \notin walked.seen
      <3>1. walked.credit[path] # NoVersion
        BY <1>5, <2>1, <2>3 DEF SpanSeen, AllCredited
      <3>2. PICK j \in DOMAIN listed : NamesIn(walked, path, j) /\ listed[j].version = walked.credit[path]
        BY <2>1, <3>1 DEF CreditedInSeen
      <3>3. ~(listed[i].version >= listed[j].version)
        BY <1>5, <2>1, <2>3, <3>2 DEF SeenToOlder, NamesIn, Between
      <3>4. listed[i].version \in Nat /\ listed[j].version \in Nat
        BY <1>1, Ordered DEF Listed
      <3> QED
        BY <3>2, <3>3, <3>4
    <2> QED
      BY <2>2, <2>3
  <1>6. \A n \in naming \cup {NoVersion} : n <= walked.credit[path]
    BY <1>2, <1>5 DEF Between, NoVersion
  <1> HIDE DEF naming
  <1>7. \A n \in naming \cup {NoVersion} : n \in Nat
    <2>1. NoVersion \in Nat
      BY DEF NoVersion
    <2> QED
      BY <1>3, <2>1
  <1>8. \A n \in naming \cup {NoVersion} :
           (\A m \in naming \cup {NoVersion} : n >= m) <=> n = walked.credit[path]
    BY <1>2, <1>4, <1>6, <1>7
  <1>9. Max(naming \cup {NoVersion}) = walked.credit[path]
    BY <1>4, <1>8 DEF Max
  <1> QED
    BY <1>9 DEF naming

-----------------------------------------------------------------------------
\* What is shown of a path.

LEMMA TextShown == ShowText => TextOrDeferred'
  <1> SUFFICES ASSUME ShowText, shown'.what = "text"
               PROVE  \/ shown'.says.deferred
                      \/ shown'.says.text = (IF shown'.kind = "file" THEN shown'.holds ELSE "null")
    BY DEF TextOrDeferred
  <1>1. PICK kind \in Kinds, holds \in DiffTexts \cup {"null"}, frame \in Frames, stored \in BOOLEAN :
           shown' = [what |-> "text", kind |-> kind, holds |-> holds, says |-> TextOf(kind, holds, frame, stored)]
    BY DEF ShowText
  <1> QED
    BY <1>1 DEF TextOf, Says, StoreLost, Kinds, Frames

FolderTold(old, new, entries, path) ==
    /\ (\E e \in entries : (e.status = "deleted" /\ e.path = path) \/ (e.status = "renamed" /\ e.from = path))
          <=> path \in Gone(old, new)
    /\ (\E e \in entries : e.status \in {"added", "renamed"} /\ e.path = path)
          <=> path \in Added(old, new)
    /\ (\E e \in entries : e.status = "modified" /\ e.path = path)
          <=> old[path] # new[path] /\ NoText \notin {old[path], new[path]}

\* Of a folder's path the entries say what its trees do, whichever of the
\* paths gone and added the server paired.
LEMMA FolderSays ==
  ASSUME NEW old \in Trees, NEW new \in Trees, NEW under \in SUBSET InFolder,
         NEW renames \in RenamesOf(old, new), NEW path \in under, NEW entries,
         entries = {e \in UNION {ScopedEntry(s) : s \in Served(old, new, renames)} :
                       {e.path, e.from} \cap under # {}}
  PROVE  FolderTold(old, new, entries, path)
  <1>1. path \in InFolder /\ path \in DiffPaths
    BY DiffSinceAssumption
  <1>2. /\ renames \subseteq Gone(old, new) \X Added(old, new)
        /\ \A pair \in renames : /\ pair[1] \in Gone(old, new) /\ pair[2] \in Added(old, new)
                                 /\ pair = <<pair[1], pair[2]>>
    BY DEF RenamesOf
  <1>3. \A status, p, from : LET e == Entry(status, p, from)
                             IN e.status = status /\ e.path = p /\ e.from = from
    BY DEF Entry
  <1>4. ASSUME NEW e \in entries
        PROVE  \/ \E pair \in renames : e = Entry("renamed", pair[2], pair[1])
               \/ \E pair \in renames : e = Entry("added", pair[2], NoText)
               \/ \E pair \in renames : e = Entry("deleted", pair[1], NoText)
               \/ \E p \in Gone(old, new) : e = Entry("deleted", p, NoText)
               \/ \E p \in Added(old, new) : e = Entry("added", p, NoText)
               \/ \E p \in DiffPaths : /\ e = Entry("modified", p, NoText)
                                       /\ old[p] # new[p] /\ NoText \notin {old[p], new[p]}
    <2>1. PICK s \in Served(old, new, renames) : e \in ScopedEntry(s)
      BY <1>4
    <2>2. CASE \E pair \in renames : s = Entry("renamed", pair[2], pair[1])
      <3>1. PICK pair \in renames : s = Entry("renamed", pair[2], pair[1])
        BY <2>2
      <3>2. s.status = "renamed" /\ s.path = pair[2] /\ s.from = pair[1]
        BY <1>3, <3>1
      <3>3. e = s \/ e = Entry("added", pair[2], NoText) \/ e = Entry("deleted", pair[1], NoText)
        BY <2>1, <3>2 DEF ScopedEntry
      <3> QED
        BY <3>1, <3>3
    <2>3. CASE \E p \in Gone(old, new) : s = Entry("deleted", p, NoText)
      <3>1. s.status = "deleted"
        BY <1>3, <2>3
      <3>2. e = s
        BY <2>1, <3>1 DEF ScopedEntry
      <3> QED
        BY <2>3, <3>2
    <2>4. CASE \E p \in Added(old, new) : s = Entry("added", p, NoText)
      <3>1. s.status = "added"
        BY <1>3, <2>4
      <3>2. e = s
        BY <2>1, <3>1 DEF ScopedEntry
      <3> QED
        BY <2>4, <3>2
    <2>5. CASE \E p \in {q \in DiffPaths : old[q] # new[q] /\ NoText \notin {old[q], new[q]}} :
                  s = Entry("modified", p, NoText)
      <3>1. s.status = "modified"
        BY <1>3, <2>5
      <3>2. e = s
        BY <2>1, <3>1 DEF ScopedEntry
      <3> QED
        BY <2>5, <3>2
    <2> QED
      BY <2>2, <2>3, <2>4, <2>5 DEF Served
  <1>5. ASSUME NEW s \in Served(old, new, renames), NEW e \in ScopedEntry(s), e.path = path \/ e.from = path
        PROVE  e \in entries
    BY <1>5
  <1>6. ASSUME NEW pair \in renames, pair[1] = path \/ pair[2] = path
        PROVE  /\ pair[2] = path => \E e \in entries : e.status \in {"added", "renamed"} /\ e.path = path
               /\ pair[1] = path => \E e \in entries : \/ e.status = "deleted" /\ e.path = path
                                                       \/ e.status = "renamed" /\ e.from = path
    <2>1. PICK s : s = Entry("renamed", pair[2], pair[1])
      OBVIOUS
    <2>2. s \in Served(old, new, renames) /\ s.status = "renamed" /\ s.path = pair[2] /\ s.from = pair[1]
      BY <1>3, <2>1 DEF Served
    <2>3. CASE {pair[1], pair[2]} \subseteq InFolder
      <3>1. s \in ScopedEntry(s)
        BY <2>2, <2>3 DEF ScopedEntry
      <3> QED
        BY <1>5, <1>6, <2>2, <3>1
    <2>4. CASE pair[2] = path /\ ~({pair[1], pair[2]} \subseteq InFolder)
      <3>1. PICK e : e = Entry("added", path, NoText)
        OBVIOUS
      <3>2. e \in ScopedEntry(s) /\ e.status = "added" /\ e.path = path
        BY <1>1, <1>3, <2>2, <2>4, <3>1 DEF ScopedEntry
      <3>3. pair[1] # path
        BY <1>1, <2>4
      <3> QED
        BY <1>5, <2>2, <3>2, <3>3
    <2>5. CASE pair[1] = path /\ ~({pair[1], pair[2]} \subseteq InFolder)
      <3>1. PICK e : e = Entry("deleted", path, NoText)
        OBVIOUS
      <3>2. pair[2] # path /\ pair[2] \notin InFolder
        BY <1>1, <2>5
      <3>3. e \in ScopedEntry(s) /\ e.status = "deleted" /\ e.path = path
        BY <1>1, <1>3, <2>2, <2>5, <3>1, <3>2 DEF ScopedEntry
      <3> QED
        BY <1>5, <2>2, <3>2, <3>3
    <2> QED
      BY <1>6, <2>3, <2>4, <2>5
  <1>7. ASSUME NEW status \in {"deleted", "added", "modified"},
               Entry(status, path, NoText) \in Served(old, new, renames)
        PROVE  \E e \in entries : e.status = status /\ e.path = path
    <2>1. PICK e : e = Entry(status, path, NoText)
      OBVIOUS
    <2>2. e.status = status /\ e.path = path
      BY <1>3, <2>1
    <2>3. e \in ScopedEntry(e)
      BY <1>1, <2>2 DEF ScopedEntry
    <2> QED
      BY <1>5, <1>7, <2>1, <2>2, <2>3
  <1>8. (\E e \in entries : (e.status = "deleted" /\ e.path = path) \/ (e.status = "renamed" /\ e.from = path))
            => path \in Gone(old, new)
    BY <1>2, <1>3, <1>4
  <1>9. (\E e \in entries : e.status \in {"added", "renamed"} /\ e.path = path) => path \in Added(old, new)
    BY <1>2, <1>3, <1>4
  <1>10. (\E e \in entries : e.status = "modified" /\ e.path = path)
            => old[path] # new[path] /\ NoText \notin {old[path], new[path]}
    BY <1>3, <1>4
  <1>11. path \in Gone(old, new) =>
            \E e \in entries : (e.status = "deleted" /\ e.path = path) \/ (e.status = "renamed" /\ e.from = path)
    <2> SUFFICES ASSUME path \in Gone(old, new)
                 PROVE  \E e \in entries : \/ e.status = "deleted" /\ e.path = path
                                           \/ e.status = "renamed" /\ e.from = path
      OBVIOUS
    <2>1. CASE path \in {pair[1] : pair \in renames}
      BY <1>6, <2>1
    <2>2. CASE path \notin {pair[1] : pair \in renames}
      <3>1. Entry("deleted", path, NoText) \in Served(old, new, renames)
        BY <2>2 DEF Served
      <3> QED
        BY <1>7, <3>1
    <2> QED
      BY <2>1, <2>2
  <1>12. path \in Added(old, new) => \E e \in entries : e.status \in {"added", "renamed"} /\ e.path = path
    <2> SUFFICES ASSUME path \in Added(old, new)
                 PROVE  \E e \in entries : e.status \in {"added", "renamed"} /\ e.path = path
      OBVIOUS
    <2>1. CASE path \in {pair[2] : pair \in renames}
      BY <1>6, <2>1
    <2>2. CASE path \notin {pair[2] : pair \in renames}
      <3>1. Entry("added", path, NoText) \in Served(old, new, renames)
        BY <2>2 DEF Served
      <3> QED
        BY <1>7, <3>1
    <2> QED
      BY <2>1, <2>2
  <1>13. old[path] # new[path] /\ NoText \notin {old[path], new[path]} =>
            \E e \in entries : e.status = "modified" /\ e.path = path
    <2> SUFFICES ASSUME old[path] # new[path], NoText \notin {old[path], new[path]}
                 PROVE  \E e \in entries : e.status = "modified" /\ e.path = path
      OBVIOUS
    <2>1. Entry("modified", path, NoText) \in Served(old, new, renames)
      BY <1>1 DEF Served
    <2> QED
      BY <1>7, <2>1
  <1> QED
    BY <1>8, <1>9, <1>10, <1>11, <1>12, <1>13 DEF FolderTold

LEMMA DiffShown == ShowDiff => ScopedAsTheFolder'
  <1> SUFFICES ASSUME ShowDiff
               PROVE  ScopedAsTheFolder'
    OBVIOUS
  <1>1. PICK old \in Trees, new \in Trees, under \in SUBSET InFolder :
           \E renames \in RenamesOf(old, new) :
             shown' = [what |-> "diff", old |-> old, new |-> new, under |-> under,
                       entries |-> {e \in UNION {ScopedEntry(s) : s \in Served(old, new, renames)} :
                                       {e.path, e.from} \cap under # {}}]
    BY DEF ShowDiff
  <1>2. PICK renames \in RenamesOf(old, new) :
             shown' = [what |-> "diff", old |-> old, new |-> new, under |-> under,
                       entries |-> {e \in UNION {ScopedEntry(s) : s \in Served(old, new, renames)} :
                                       {e.path, e.from} \cap under # {}}]
    BY <1>1
  <1>3. PICK entries : entries = {e \in UNION {ScopedEntry(s) : s \in Served(old, new, renames)} :
                                       {e.path, e.from} \cap under # {}}
    OBVIOUS
  <1>4. shown'.old = old /\ shown'.new = new /\ shown'.under = under /\ shown'.entries = entries
    BY <1>2, <1>3
  <1>5. ASSUME NEW path \in under
        PROVE  /\ path \in {e.path : e \in {e \in entries : e.status = "deleted"}}
                            \cup {e.from : e \in {e \in entries : e.status = "renamed"}}
                    <=> path \in Gone(old, new)
               /\ path \in {e.path : e \in {e \in entries : e.status = "added"}
                                            \cup {e \in entries : e.status = "renamed"}}
                    <=> path \in Added(old, new)
               /\ path \in {e.path : e \in {e \in entries : e.status = "modified"}}
                    <=> old[path] # new[path] /\ NoText \notin {old[path], new[path]}
    <2>1. FolderTold(old, new, entries, path)
      BY <1>3, FolderSays
    <2>2. /\ path \in {e.path : e \in {e \in entries : e.status = "deleted"}}
                      \cup {e.from : e \in {e \in entries : e.status = "renamed"}}
               <=> \E e \in entries : (e.status = "deleted" /\ e.path = path) \/ (e.status = "renamed" /\ e.from = path)
          /\ path \in {e.path : e \in {e \in entries : e.status = "added"}
                                       \cup {e \in entries : e.status = "renamed"}}
               <=> \E e \in entries : e.status \in {"added", "renamed"} /\ e.path = path
          /\ path \in {e.path : e \in {e \in entries : e.status = "modified"}}
               <=> \E e \in entries : e.status = "modified" /\ e.path = path
      OBVIOUS
    <2> QED
      BY <2>1, <2>2 DEF FolderTold
  <1> QED
    BY <1>4, <1>5 DEF ScopedAsTheFolder

(* Each path is credited with the newest version of the span that names it, *)
(* whatever lands while the list is paged and wherever the walk starts; a   *)
(* standing text is shown or named as deferred; and a diff narrowed to a    *)
(* folder says what the folder's trees do (diff_since.rs, diff.rs).         *)
THEOREM SinceAsListed == DiffSpec => []DiffsAsListed
  <1> DEFINE DiffInv == WalkInv /\ TextOrDeferred /\ ScopedAsTheFolder
  <1>1. DiffInit => DiffInv
    <2> SUFFICES ASSUME DiffInit PROVE DiffInv
      OBVIOUS
    <2>1. <<>> \in Seq(Listed) /\ DOMAIN <<>> = {}
      OBVIOUS
    <2>2. Idle \in Walks
      BY <2>1 DEF Idle, Walks, WalkSteps, NoVersion
    <2>3. WalkInv
      BY <2>1, <2>2 DEF DiffInit, WalkInv, NewestFirst, WalkSays, Idle
    <2> QED
      BY <2>3 DEF DiffInit, NothingShown, TextOrDeferred, ScopedAsTheFolder
  <1>2. DiffInv /\ [DiffNext]_diffVars => DiffInv'
    <2> SUFFICES ASSUME DiffInv, [DiffNext]_diffVars PROVE DiffInv'
      OBVIOUS
    <2>1. UNCHANGED <<listed, walked>> => WalkInv'
      BY DEF WalkInv, NewestFirst, WalkSays, StillBehind, SeenToOlder, CreditedInSeen, SpanSeen,
         AllCredited, NamesIn, Numbers, Between
    <2>2. UNCHANGED shown => TextOrDeferred' /\ ScopedAsTheFolder'
      BY DEF TextOrDeferred, ScopedAsTheFolder
    <2>3. CASE WalkNext
      <3>1. UNCHANGED shown
        BY <2>3 DEF WalkNext, LandVersion, AskChanges, ReadFirstPage, AskPlace, JumpToPlace, ReadNextPage, PrintCredits
      <3> QED
        BY <2>2, <2>3, <3>1, WalkKeeps
    <2>4. CASE ShowText
      <3>1. ScopedAsTheFolder' /\ UNCHANGED <<listed, walked>>
        BY <2>4 DEF ShowText, ScopedAsTheFolder
      <3> QED
        BY <2>1, <2>4, <3>1, TextShown
    <2>5. CASE ShowDiff
      <3>1. TextOrDeferred' /\ UNCHANGED <<listed, walked>>
        BY <2>5 DEF ShowDiff, TextOrDeferred
      <3> QED
        BY <2>1, <2>5, <3>1, DiffShown
    <2>6. CASE UNCHANGED diffVars
      BY <2>1, <2>2, <2>6 DEF diffVars
    <2> QED
      BY <2>3, <2>4, <2>5, <2>6 DEF DiffNext, ShowNext
  <1>3. DiffInv => DiffsAsListed
    BY CreditsNewest DEF DiffsAsListed
  <1> QED
    BY <1>1, <1>2, <1>3, PTL DEF DiffSpec

(***************************************************************************)
(* A read at a pin.  Of the commit: everything a run may pin is no older   *)
(* than the newest version at its start.  Of the bytes and their type: the *)
(* hint the runs share never names a type its content has not.             *)
(***************************************************************************)

ReadContents == Texts \cup Typed
MediaMarks == {"none", "seen", "unknown", "unnamed"}
HintSpace == [sha : ReadContents \cup {NoContent}, media : Typed \cup MediaMarks]
Reader == [at : {"idle", "head", "asked", "named", "record", "lookup", "pinned", "sent", "read"},
           verb : {"cat", "json", "grep"}, from : Nat, kept : Nat, record : Nat, newest : Nat,
           pin : Nat, held : HintSpace, bytes : ReadContents \cup {NoContent},
           media : Typed \cup MediaMarks, note : HintSpace]
PathReadsTypeOK ==
    /\ history \in Seq(ReadContents \cup {NoContent})
    /\ account \in [head : Nat, hint : HintSpace, blobs : SUBSET ReadContents]
    /\ run \in [ReadRuns -> Reader]

(* A hint's type is its content's, or not known yet.                        *)
HintTells(hint) ==
    \/ hint.sha \in Texts /\ hint.media \in {"unknown", "unnamed"}
    \/ hint.sha \in Typed /\ hint.media \in {"unknown", hint.sha}
    \/ hint.sha = NoContent /\ hint.media = "unknown"
(* A note as a hint; one of a hash merely seen says nothing of its type.    *)
NoteTells(note) == HintTells(note) \/ (note.sha \in ReadContents /\ note.media = "seen")

(* What a run may still pin is no older than its start.                     *)
PinIsLate(x, newest) ==
    /\ x.from <= newest
    /\ x.at \in {"head", "asked"} => x.record = 0 /\ x.newest = 0
    /\ x.at = "named" => x.kept >= x.from /\ x.kept >= 1 /\ x.kept <= newest
    /\ x.at = "record" => \A v \in {x.record, x.newest} : v = 0 \/ (v >= x.from /\ v <= newest)
    /\ x.at = "lookup" => x.record >= x.from /\ x.record >= 1
    /\ x.at = "pinned" => x.pin >= x.from
    /\ x.at \in {"pinned", "sent", "read"} => x.pin >= 1 /\ x.pin <= newest
(* What a run sent for may be printed as it is where the server confirms it.*)
HeldTells(x) ==
    /\ x.at # "read" => x.note = NoHint
    /\ x.at = "sent" =>
         \/ x.held = NoHint
         \/ HintTells(x.held) /\ x.held.sha # NoContent
              /\ (x.verb = "json" => x.held.media # "unknown" \/ x.held.sha \in Texts)
AsAFreshRead(x, content) ==
    x.at = "read" =>
      /\ x.bytes = content /\ (x.verb = "json" => x.media = TypeOf(content))
      /\ NoteTells(x.note)

RunReadsWell(x) ==
    /\ PinIsLate(x, Len(history))
    /\ HeldTells(x)
    /\ AsAFreshRead(x, history[x.pin])
PathReadsInv ==
    /\ PathReadsTypeOK
    /\ Len(history) >= 1 /\ HintTells(account.hint)
    /\ \A r \in ReadRuns : RunReadsWell(run[r])

(* A step of one run, what others left standing.                            *)
LEMMA OneRunReads ==
    ASSUME PathReadsInv, NEW r \in ReadRuns, NEW x \in Reader,
           UNCHANGED history, run' = [run EXCEPT ![r] = x],
           account' \in [head : Nat, hint : HintSpace, blobs : SUBSET ReadContents],
           HintTells(account'.hint), RunReadsWell(x)
    PROVE  PathReadsInv'
<1>1. PathReadsTypeOK' BY DEF PathReadsInv, PathReadsTypeOK
<1>2. ASSUME NEW q \in ReadRuns PROVE RunReadsWell(run[q])'
  <2>1. RunReadsWell(run[q])' <=> RunReadsWell(run'[q])
    BY DEF RunReadsWell
  <2>2. run'[q] = IF q = r THEN x ELSE run[q]
    BY DEF PathReadsInv, PathReadsTypeOK
  <2> QED BY <2>1, <2>2 DEF PathReadsInv
<1> QED BY <1>1, <1>2 DEF PathReadsInv

(* The same where the account stays.                                        *)
LEMMA OneRunAlone ==
    ASSUME PathReadsInv, NEW r \in ReadRuns, NEW x \in Reader,
           UNCHANGED <<history, account>>, run' = [run EXCEPT ![r] = x], RunReadsWell(x)
    PROVE  PathReadsInv'
BY OneRunReads DEF PathReadsInv, PathReadsTypeOK

LEMMA NoReaderIdle ==
    ASSUME PathReadsInv PROVE NoReader \in Reader /\ RunReadsWell(NoReader)
BY DEF NoReader, Reader, HintSpace, NoHint, RunReadsWell, PinIsLate, HeldTells, AsAFreshRead,
       PathReadsInv, PathReadsTypeOK, MediaMarks, ReadContents

(* A run goes on past its reference.                                        *)
LEMMA PinnedReads ==
    ASSUME PathReadsInv, NEW r \in ReadRuns, NEW pin \in Nat,
           pin >= 1, pin >= run[r].from, pin <= Len(history), Pins(r, pin),
           UNCHANGED history,
           account' \in [head : Nat, hint : HintSpace, blobs : SUBSET ReadContents],
           HintTells(account'.hint)
    PROVE  PathReadsInv'
<1>. DEFINE x == [NoReader EXCEPT !.at = "pinned", !.verb = run[r].verb,
                                  !.from = run[r].from, !.pin = pin]
<1>1. run[r] \in Reader BY DEF PathReadsInv, PathReadsTypeOK
<1>2. x \in Reader BY <1>1, NoReaderIdle DEF NoReader, Reader
<1>3. x.at = "pinned" /\ x.from = run[r].from /\ x.pin = pin /\ x.note = NoHint
  BY DEF NoReader
<1>4. RunReadsWell(x)
  BY <1>1, <1>3 DEF RunReadsWell, PinIsLate, HeldTells, AsAFreshRead, PathReadsInv, Reader
<1> HIDE DEF x
<1>5. run' = [run EXCEPT ![r] = x] BY DEF Pins, x
<1> QED BY <1>2, <1>4, <1>5, OneRunReads

LEMMA BeginReadKept ==
    ASSUME PathReadsAssumption, PathReadsInv, NEW r \in ReadRuns, BeginRead(r) PROVE PathReadsInv'
<1>1. PICK verb \in {"cat", "json", "grep"}, typed \in 0 .. MaxTyped :
        run' = [run EXCEPT ![r] =
            [NoReader EXCEPT !.verb = verb, !.record = typed,
                             !.from = IF typed = 0 THEN NewestListed ELSE 0,
                             !.at = IF typed = 0 THEN "head" ELSE "lookup"]]
  BY DEF BeginRead
<1>. DEFINE from == IF typed = 0 THEN NewestListed ELSE 0
            at == IF typed = 0 THEN "head" ELSE "lookup"
            x == [NoReader EXCEPT !.verb = verb, !.record = typed, !.from = from, !.at = at]
<1>2. typed \in Nat /\ from \in Nat /\ at \in {"head", "lookup"} /\ from <= Len(history)
      /\ (at = "head" => typed = 0) /\ (at = "lookup" => typed >= 1 /\ from = 0)
  BY DEF PathReadsAssumption, PathReadsInv, PathReadsTypeOK, NewestListed
<1>5. run' = [run EXCEPT ![r] = x] BY <1>1
<1> HIDE DEF from, at
<1>3. x \in Reader BY <1>2, NoReaderIdle DEF NoReader, Reader
<1>4. RunReadsWell(x)
  <2>1. x.at = at /\ x.from = from /\ x.record = typed /\ x.newest = 0 /\ x.note = NoHint
    BY DEF NoReader
  <2> QED BY <2>1, <1>2, <1>3 DEF RunReadsWell, PinIsLate, HeldTells, AsAFreshRead, Reader
<1> HIDE DEF x
<1> QED BY <1>3, <1>4, <1>5, OneRunAlone DEF BeginRead

LEMMA AskHeadKept ==
    ASSUME PathReadsInv, NEW r \in ReadRuns, AskHead(r) PROVE PathReadsInv'
<1>. DEFINE x == [run[r] EXCEPT !.at = "asked", !.kept = account.head]
<1>1. run[r] \in Reader /\ RunReadsWell(run[r]) /\ account.head \in Nat
  BY DEF PathReadsInv, PathReadsTypeOK
<1>2. x \in Reader BY <1>1 DEF Reader
<1>3. RunReadsWell(x)
  BY <1>1 DEF AskHead, Reads, RunReadsWell, PinIsLate, HeldTells, AsAFreshRead, Reader
<1>4. run' = [run EXCEPT ![r] = x] BY <1>1 DEF AskHead
<1> QED BY <1>2, <1>3, <1>4, OneRunAlone DEF AskHead

LEMMA HeadAnswersKept ==
    ASSUME PathReadsInv, NEW r \in ReadRuns,
           HeadNotModified(r) \/ HeadNamed(r) \/ KeepHead(r) \/ HeadAbsent(r)
    PROVE  PathReadsInv'
<1>1. run[r] \in Reader /\ RunReadsWell(run[r]) /\ Len(history) \in Nat
  BY DEF PathReadsInv, PathReadsTypeOK
<1>2. CASE HeadNotModified(r)
  <2>1. /\ Pins(r, Len(history)) /\ UNCHANGED <<history, account>>
        /\ run[r].from <= Len(history) /\ Len(history) >= 1
    BY <1>1, <1>2 DEF HeadNotModified, Kept, NewestListed, RunReadsWell, PinIsLate, PathReadsInv
  <2> QED BY <2>1, <1>1, PinnedReads DEF PathReadsInv, PathReadsTypeOK
<1>3. CASE HeadNamed(r)
  <2>. DEFINE x == [run[r] EXCEPT !.at = "named", !.kept = NewestListed]
  <2>1. x \in Reader BY <1>1 DEF Reader, NewestListed
  <2>2. RunReadsWell(x)
    BY <1>1, <1>3 DEF HeadNamed, Reads, RunReadsWell, PinIsLate, HeldTells, AsAFreshRead, Reader,
                      NewestListed, PathReadsInv
  <2>3. run' = [run EXCEPT ![r] = x] BY <1>1, <1>3 DEF HeadNamed
  <2> QED BY <1>3, <2>1, <2>2, <2>3, OneRunAlone DEF HeadNamed
<1>4. CASE KeepHead(r)
  <2>1. run[r].kept \in Nat /\ run[r].kept >= 1 /\ run[r].kept >= run[r].from
        /\ run[r].kept <= Len(history)
    BY <1>1, <1>4 DEF KeepHead, Reads, RunReadsWell, PinIsLate, Reader
  <2>2. /\ account' \in [head : Nat, hint : HintSpace, blobs : SUBSET ReadContents]
        /\ HintTells(account'.hint)
    BY <1>4, <2>1 DEF KeepHead, PathReadsInv, PathReadsTypeOK
  <2> QED BY <1>4, <2>1, <2>2, PinnedReads DEF KeepHead
<1>5. CASE HeadAbsent(r)
  <2>. DEFINE x == [run[r] EXCEPT !.at = "record", !.kept = 0]
  <2>0. run[r].record = 0 /\ run[r].newest = 0
    BY <1>1, <1>5 DEF HeadAbsent, Reads, RunReadsWell, PinIsLate
  <2>1. x \in Reader BY <1>1 DEF Reader
  <2>2. RunReadsWell(x)
    BY <1>1, <1>5, <2>0 DEF HeadAbsent, Reads, RunReadsWell, PinIsLate, HeldTells, AsAFreshRead, Reader
  <2>3. run' = [run EXCEPT ![r] = x] BY <1>1, <1>5 DEF HeadAbsent
  <2> QED BY <1>5, <2>1, <2>2, <2>3, OneRunAlone DEF HeadAbsent
<1> QED BY <1>2, <1>3, <1>4, <1>5

(* The record and the newest version, read at once, each no older than the  *)
(* start; the one that becomes the reference is either.                     *)
LEMMA RecordKept ==
    ASSUME PathReadsInv, NEW r \in ReadRuns,
           RecordAnswers(r) \/ NewestAnswers(r) \/ RecordPins(r) \/ LookUp(r)
    PROVE  PathReadsInv'
<1>1. run[r] \in Reader /\ RunReadsWell(run[r]) /\ Len(history) \in Nat /\ Len(history) >= 1
  BY DEF PathReadsInv, PathReadsTypeOK
<1>2. CASE RecordAnswers(r)
  <2>. DEFINE x == [run[r] EXCEPT !.record = NewestListed]
  <2>1. x \in Reader BY <1>1 DEF Reader, NewestListed
  <2>2. RunReadsWell(x)
    BY <1>1, <1>2 DEF RecordAnswers, Reads, NewestListed, RunReadsWell, PinIsLate, HeldTells,
                      AsAFreshRead, Reader
  <2>3. run' = [run EXCEPT ![r] = x] BY <1>1, <1>2 DEF RecordAnswers
  <2> QED BY <1>2, <2>1, <2>2, <2>3, OneRunAlone DEF RecordAnswers
<1>3. CASE NewestAnswers(r)
  <2>. DEFINE x == [run[r] EXCEPT !.newest = NewestListed]
  <2>1. x \in Reader BY <1>1 DEF Reader, NewestListed
  <2>2. RunReadsWell(x)
    BY <1>1, <1>3 DEF NewestAnswers, Reads, NewestListed, RunReadsWell, PinIsLate, HeldTells,
                      AsAFreshRead, Reader
  <2>3. run' = [run EXCEPT ![r] = x] BY <1>1, <1>3 DEF NewestAnswers
  <2> QED BY <1>3, <2>1, <2>2, <2>3, OneRunAlone DEF NewestAnswers
<1>4. CASE RecordPins(r)
  <2>1. \A v \in {run[r].record, run[r].newest} :
          v \in Nat /\ v >= 1 /\ v >= run[r].from /\ v <= Len(history)
    BY <1>1, <1>4 DEF RecordPins, Reads, RunReadsWell, PinIsLate, Reader
  <2>2. CASE Pins(r, run[r].newest)
    BY <1>4, <2>1, <2>2, PinnedReads DEF RecordPins, PathReadsInv, PathReadsTypeOK
  <2>3. CASE run' = [run EXCEPT ![r].at = "lookup", ![r].newest = 0]
    <3>. DEFINE x == [run[r] EXCEPT !.at = "lookup", !.newest = 0]
    <3>1. x \in Reader BY <1>1 DEF Reader
    <3>2. RunReadsWell(x)
      BY <1>1, <1>4, <2>1 DEF RecordPins, Reads, RunReadsWell, PinIsLate, HeldTells, AsAFreshRead, Reader
    <3>3. run' = [run EXCEPT ![r] = x] BY <1>1, <2>3
    <3> QED BY <1>4, <3>1, <3>2, <3>3, OneRunAlone DEF RecordPins
  <2> QED BY <1>4, <2>2, <2>3 DEF RecordPins
<1>5. CASE LookUp(r)
  <2>1. run[r].record \in Nat /\ run[r].record >= 1 /\ run[r].record >= run[r].from
    BY <1>1, <1>5 DEF LookUp, Reads, RunReadsWell, PinIsLate, Reader
  <2>2. CASE Pins(r, run[r].record) /\ run[r].record <= Len(history)
    BY <1>5, <2>1, <2>2, PinnedReads DEF LookUp, PathReadsInv, PathReadsTypeOK
  <2>3. CASE EndsRun(r)
    BY <1>5, <2>3, NoReaderIdle, OneRunAlone DEF LookUp, EndsRun
  <2> QED BY <1>5, <2>2, <2>3 DEF LookUp, NewestListed
<1> QED BY <1>2, <1>3, <1>4, <1>5

(* What stands at a pinned version is a content or none.                    *)
LEMMA StandingThere ==
    ASSUME PathReadsInv, NEW r \in ReadRuns, run[r].at \in {"pinned", "sent", "read"}
    PROVE  run[r].pin \in 1 .. Len(history) /\ Standing(r) \in ReadContents \cup {NoContent}
<1>1. run[r] \in Reader /\ RunReadsWell(run[r]) /\ Len(history) \in Nat
      /\ history \in Seq(ReadContents \cup {NoContent})
  BY DEF PathReadsInv, PathReadsTypeOK
<1>2. run[r].pin \in 1 .. Len(history)
  BY <1>1 DEF RunReadsWell, PinIsLate, Reader
<1> QED BY <1>1, <1>2 DEF Standing

LEMMA AsksKept ==
    ASSUME PathReadsAssumption, PathReadsInv, NEW r \in ReadRuns, Asks(r) PROVE PathReadsInv'
<1>1. run[r] \in Reader /\ RunReadsWell(run[r]) /\ Reads(r, "pinned")
      /\ account.hint \in HintSpace /\ HintTells(account.hint)
      /\ account.blobs \subseteq ReadContents /\ NoHint \in HintSpace
  BY DEF PathReadsInv, PathReadsTypeOK, Asks, NoHint, HintSpace, MediaMarks
<1>2. PICK found \in Found(account.hint.sha) :
        run' = [run EXCEPT ![r].at = "sent", ![r].from = 0,
                  ![r].held = IF found /\ TypeKnown(r, account.hint) THEN account.hint ELSE NoHint]
  BY DEF Asks
<1>. DEFINE held == IF found /\ TypeKnown(r, account.hint) THEN account.hint ELSE NoHint
            x == [run[r] EXCEPT !.at = "sent", !.from = 0, !.held = held]
<1>3. run' = [run EXCEPT ![r] = x] BY <1>1, <1>2
<1>4. held \in HintSpace BY <1>1
<1>5. \/ held = NoHint
      \/ HintTells(held) /\ held.sha # NoContent
           /\ (run[r].verb = "json" => held.media # "unknown" \/ held.sha \in Texts)
  <2>1. found \in BOOLEAN /\ (found => account.hint.sha \in account.blobs) BY DEF Found
  <2>2. CASE ~(found /\ TypeKnown(r, account.hint)) BY <2>2
  <2>3. CASE found /\ TypeKnown(r, account.hint)
    <3>1. held = account.hint BY <2>3
    <3>2. account.hint.sha # NoContent
      BY <1>1, <2>1, <2>3 DEF PathReadsAssumption, ReadContents
    <3> HIDE DEF held
    <3> QED BY <1>1, <2>3, <3>1, <3>2 DEF TypeKnown
  <2> QED BY <2>2, <2>3
<1> HIDE DEF held
<1>6. x \in Reader BY <1>1, <1>4 DEF Reader
<1>7. RunReadsWell(x)
  BY <1>1, <1>5 DEF RunReadsWell, PinIsLate, HeldTells, AsAFreshRead, Reader, Reads
<1> HIDE DEF x
<1> QED BY <1>3, <1>6, <1>7, OneRunAlone DEF Asks

(* A run that prints what a fresh read would.                               *)
LEMMA PrintsFresh ==
    ASSUME PathReadsInv, NEW r \in ReadRuns, run[r].at \in {"pinned", "sent"},
           NEW content \in ReadContents, content = Standing(r),
           NEW media \in Typed \cup MediaMarks, run[r].verb = "json" => media = TypeOf(content),
           NEW note \in HintSpace, NoteTells(note),
           UNCHANGED history,
           run' = [Prints(r, content, media) EXCEPT ![r].note = note],
           account' \in [head : Nat, hint : HintSpace, blobs : SUBSET ReadContents],
           HintTells(account'.hint)
    PROVE  PathReadsInv'
<1>1. run[r] \in Reader /\ RunReadsWell(run[r]) /\ run \in [ReadRuns -> Reader] /\ NoHint \in HintSpace
  BY DEF PathReadsInv, PathReadsTypeOK, NoHint, HintSpace, MediaMarks
<1>. DEFINE x == [run[r] EXCEPT !.at = "read", !.from = 0, !.held = NoHint,
                                !.bytes = content, !.media = media, !.note = note]
<1>2. run' = [run EXCEPT ![r] = x] BY <1>1 DEF Prints
<1>3. x \in Reader BY <1>1 DEF Reader
<1>4. RunReadsWell(x)
  BY <1>1 DEF RunReadsWell, PinIsLate, HeldTells, AsAFreshRead, Reader, Standing
<1> HIDE DEF x
<1> QED BY <1>2, <1>3, <1>4, OneRunReads

LEMMA PrintsNotingNothing ==
    ASSUME PathReadsInv, NEW r \in ReadRuns, run[r].note = NoHint, NEW content, NEW media
    PROVE  Prints(r, content, media) = [Prints(r, content, media) EXCEPT ![r].note = NoHint]
<1>1. run \in [ReadRuns -> Reader] /\ run[r] \in Reader BY DEF PathReadsInv, PathReadsTypeOK
<1>. DEFINE x == [run[r] EXCEPT !.at = "read", !.from = 0, !.held = NoHint,
                                !.bytes = content, !.media = media]
<1>2. Prints(r, content, media) = [run EXCEPT ![r] = x] BY <1>1 DEF Prints
<1>3. [x EXCEPT !.note = NoHint] = x BY <1>1 DEF Reader
<1> HIDE DEF x
<1>4. [[run EXCEPT ![r] = x] EXCEPT ![r].note = NoHint] = [run EXCEPT ![r] = [x EXCEPT !.note = NoHint]]
  BY <1>1
<1> QED BY <1>2, <1>3, <1>4

LEMMA AnswersKept ==
    ASSUME PathReadsAssumption, PathReadsInv, NEW r \in ReadRuns,
           NotModified(r) \/ NamesAnother(r) \/ BodyAnswers(r) \/ PathRefused(r)
    PROVE  PathReadsInv'
<1>1. run[r] \in Reader /\ RunReadsWell(run[r]) /\ run[r].at = "sent" /\ NoHint \in HintSpace
      /\ account \in [head : Nat, hint : HintSpace, blobs : SUBSET ReadContents]
      /\ HintTells(account.hint)
  BY DEF PathReadsInv, PathReadsTypeOK, NotModified, NamesAnother, BodyAnswers, PathRefused, Reads,
         NoHint, HintSpace, MediaMarks
<1>n. run[r].note = NoHint /\ NoteTells(NoHint)
  <2>1. run[r].note = NoHint BY <1>1 DEF RunReadsWell, HeldTells
  <2>2. NoHint.sha = NoContent /\ NoHint.media = "unknown" BY DEF NoHint
  <2> QED BY <2>1, <2>2 DEF NoteTells, HintTells
<1>2. CASE NotModified(r)
  <2>1. /\ HintTells(run[r].held) /\ run[r].held.sha \in ReadContents
        /\ run[r].held.sha = Standing(r)
        /\ (run[r].verb = "json" => run[r].held.media # "unknown" \/ run[r].held.sha \in Texts)
    BY <1>1, <1>2 DEF NotModified, RunReadsWell, HeldTells, Reader, HintSpace
  <2>2. run[r].verb = "json" => MediaOf(run[r].held) = TypeOf(run[r].held.sha)
    BY <2>1 DEF MediaOf, TypeOf, HintTells, PathReadsAssumption, ReadContents
  <2>3. MediaOf(run[r].held) \in Typed \cup MediaMarks
    BY <2>1 DEF MediaOf, HintTells, MediaMarks, PathReadsAssumption
  <2>4. run' = [Prints(r, run[r].held.sha, MediaOf(run[r].held)) EXCEPT ![r].note = NoHint]
    BY <1>1, <1>2, <1>n DEF NotModified, Prints, PathReadsInv, PathReadsTypeOK, Reader
  <2> QED BY <1>1, <1>2, <1>n, <2>1, <2>2, <2>3, <2>4, PrintsFresh DEF NotModified
<1>3. CASE NamesAnother(r)
  <2>. DEFINE x == [run[r] EXCEPT !.held = NoHint]
  <2>1. x \in Reader BY <1>1 DEF Reader
  <2>2. RunReadsWell(x)
    BY <1>1 DEF RunReadsWell, PinIsLate, HeldTells, AsAFreshRead, Reader
  <2>3. run' = [run EXCEPT ![r] = x] BY <1>1, <1>3 DEF NamesAnother
  <2> QED BY <1>3, <2>1, <2>2, <2>3, OneRunAlone DEF NamesAnother
<1>4. CASE BodyAnswers(r)
  <2>. DEFINE content == Standing(r)
              media == TypeOf(content)
              note == [sha |-> content, media |-> IF media = "none" THEN "unnamed" ELSE media]
  <2>1. content \in ReadContents BY <1>1, <1>4, StandingThere DEF BodyAnswers
  <2>2. media \in Typed \cup MediaMarks /\ note \in HintSpace /\ NoteTells(note)
    <3>1. CASE content \in Texts
      <4>1. media = "none" /\ note = [sha |-> content, media |-> "unnamed"] BY <3>1 DEF TypeOf
      <4> HIDE DEF content, media, note
      <4> QED BY <3>1, <4>1 DEF HintSpace, MediaMarks, NoteTells, HintTells, ReadContents
    <3>2. CASE content \in Typed
      <4>1. media = content /\ note = [sha |-> content, media |-> content]
        BY <3>2 DEF TypeOf, PathReadsAssumption
      <4> HIDE DEF content, media, note
      <4> QED BY <3>2, <4>1 DEF HintSpace, MediaMarks, NoteTells, HintTells, ReadContents
    <3> QED BY <2>1, <3>1, <3>2 DEF ReadContents
  <2>3. CASE /\ run' = [Prints(r, content, media) EXCEPT ![r].note = note]
             /\ account' = [account EXCEPT !.blobs = @ \cup {content}]
    <3>1. /\ account' \in [head : Nat, hint : HintSpace, blobs : SUBSET ReadContents]
          /\ HintTells(account'.hint)
      BY <1>1, <2>1, <2>3
    <3> QED BY <1>1, <1>4, <2>1, <2>2, <2>3, <3>1, PrintsFresh DEF BodyAnswers
  <2>4. CASE run' = Prints(r, content, media) /\ UNCHANGED account
    <3>1. content = Standing(r) /\ (run[r].verb = "json" => media = TypeOf(content))
          /\ UNCHANGED <<history, account>>
      BY <1>4, <2>4 DEF BodyAnswers
    <3> HIDE DEF content, media, note
    <3>2. run' = [Prints(r, content, media) EXCEPT ![r].note = NoHint]
      BY <1>n, <2>4, PrintsNotingNothing
    <3> QED BY <1>1, <1>n, <2>1, <2>2, <3>1, <3>2, PrintsFresh
  <2> QED BY <1>4, <2>3, <2>4 DEF BodyAnswers
<1>5. CASE PathRefused(r)
  BY <1>5, NoReaderIdle, OneRunAlone DEF PathRefused, EndsRun
<1> QED BY <1>2, <1>3, <1>4, <1>5

LEMMA GrepReadsKept ==
    ASSUME PathReadsAssumption, PathReadsInv, NEW r \in ReadRuns, GrepReads(r) PROVE PathReadsInv'
<1>1. /\ run[r].at = "pinned" /\ run[r].verb = "grep"
      /\ account \in [head : Nat, hint : HintSpace, blobs : SUBSET ReadContents]
      /\ HintTells(account.hint)
  BY DEF PathReadsInv, PathReadsTypeOK, GrepReads, Reads
<1>. DEFINE content == Standing(r)
            note == [sha |-> content, media |-> "seen"]
<1>2. content \in ReadContents BY <1>1, StandingThere DEF GrepReads
<1>3. note \in HintSpace /\ NoteTells(note) /\ "none" \in Typed \cup MediaMarks
  BY <1>2 DEF HintSpace, MediaMarks, NoteTells
<1>4. CASE /\ run' = [Prints(r, content, "none") EXCEPT ![r].note = note]
           /\ account' = [account EXCEPT !.blobs = @ \cup {content}]
  <2>1. /\ account' \in [head : Nat, hint : HintSpace, blobs : SUBSET ReadContents]
        /\ HintTells(account'.hint)
    BY <1>1, <1>2, <1>4
  <2> QED BY <1>1, <1>2, <1>3, <1>4, <2>1, PrintsFresh DEF GrepReads
<1>5. CASE EndsRun(r) /\ UNCHANGED account
  BY <1>5, NoReaderIdle, OneRunAlone DEF GrepReads, EndsRun
<1> QED BY <1>4, <1>5 DEF GrepReads

(* A hint taken over from another run's names that run's content.           *)
LEMMA EndsKept ==
    ASSUME PathReadsInv, NEW r \in ReadRuns, FinishRead(r) \/ KilledRead(r) PROVE PathReadsInv'
<1>1. /\ account \in [head : Nat, hint : HintSpace, blobs : SUBSET ReadContents]
      /\ HintTells(account.hint) /\ run[r] \in Reader /\ RunReadsWell(run[r])
  BY DEF PathReadsInv, PathReadsTypeOK
<1>2. CASE FinishRead(r)
  <2>1. NoteTells(run[r].note) /\ run[r].note \in HintSpace
    BY <1>1, <1>2 DEF FinishRead, Reads, RunReadsWell, AsAFreshRead, Reader
  <2>2. Merged(run[r].note) \in HintSpace /\ HintTells(Merged(run[r].note))
    BY <1>1, <2>1 DEF Merged, NoteTells, HintTells, HintSpace, MediaMarks, ReadContents
  <2>3. /\ account' \in [head : Nat, hint : HintSpace, blobs : SUBSET ReadContents]
        /\ HintTells(account'.hint)
    BY <1>1, <1>2, <2>2 DEF FinishRead
  <2> QED BY <1>2, <2>3, NoReaderIdle, OneRunReads DEF FinishRead, EndsRun
<1>3. CASE KilledRead(r)
  BY <1>3, NoReaderIdle, OneRunAlone DEF KilledRead, EndsRun
<1> QED BY <1>2, <1>3

(* Others publish: no version a run pinned changes.                         *)
LEMMA PublishKept ==
    ASSUME PathReadsInv, Publish PROVE PathReadsInv'
<1>1. PICK content \in ReadContents \cup {NoContent} : history' = Append(history, content)
  BY DEF Publish, ReadContents
<1>2. /\ history \in Seq(ReadContents \cup {NoContent}) /\ Len(history) \in Nat
      /\ UNCHANGED <<account, run>>
  BY DEF Publish, PathReadsInv, PathReadsTypeOK
<1>3. history' \in Seq(ReadContents \cup {NoContent}) /\ Len(history') = Len(history) + 1
      /\ \A v \in 1 .. Len(history) : history'[v] = history[v]
  BY <1>1, <1>2
<1>4. ASSUME NEW r \in ReadRuns PROVE RunReadsWell(run[r])'
  <2>1. RunReadsWell(run[r]) /\ run[r] \in Reader BY DEF PathReadsInv, PathReadsTypeOK
  <2>2. PinIsLate(run[r], Len(history')) BY <1>2, <1>3, <2>1 DEF RunReadsWell, PinIsLate, Reader
  <2>3. AsAFreshRead(run[r], history'[run[r].pin])
    BY <1>2, <1>3, <2>1 DEF RunReadsWell, PinIsLate, AsAFreshRead, Reader
  <2> QED BY <1>2, <2>1, <2>2, <2>3 DEF RunReadsWell, HeldTells, NoHint
<1> QED BY <1>2, <1>3, <1>4 DEF PathReadsInv, PathReadsTypeOK

LEMMA PathReadsInitHolds ==
    ASSUME PathReadsAssumption, PathReadsInit PROVE PathReadsInv
<1>1. PICK first \in ReadContents : PathReadsStart(first) BY DEF PathReadsInit, ReadContents
<1>2. history \in Seq(ReadContents \cup {NoContent}) /\ Len(history) = 1
  BY <1>1 DEF PathReadsStart
<1>3. NoHint \in HintSpace /\ HintTells(NoHint)
  BY DEF NoHint, HintSpace, HintTells, MediaMarks
<1>4. NoReader \in Reader BY <1>3 DEF NoReader, Reader, MediaMarks
<1>5. RunReadsWell(NoReader)
  BY <1>2 DEF NoReader, RunReadsWell, PinIsLate, HeldTells, AsAFreshRead
<1>6. account \in [head : Nat, hint : HintSpace, blobs : SUBSET ReadContents] /\ HintTells(account.hint)
  BY <1>1, <1>3 DEF PathReadsStart
<1> QED BY <1>1, <1>2, <1>4, <1>5, <1>6 DEF PathReadsStart, PathReadsInv, PathReadsTypeOK

(* A run with no version typed reads at one that was the newest at some     *)
(* moment of it, and writes the bytes and the type that stand there.        *)
THEOREM PathReadsWell == PathReadsSpec => []ReadsAtOnePin
<1>1. PathReadsInit => PathReadsInv
  BY PathReadsInitHolds, PathReadsAssumption
<1>2. PathReadsInv /\ [PathReadsNext]_pathReadsVars => PathReadsInv'
  <2>1. ASSUME PathReadsInv, UNCHANGED pathReadsVars PROVE PathReadsInv'
    BY <2>1 DEF pathReadsVars, PathReadsInv, PathReadsTypeOK, RunReadsWell, HeldTells, NoHint
  <2>2. ASSUME PathReadsInv, PathReadsNext PROVE PathReadsInv'
    BY <2>2, PathReadsAssumption, PublishKept, BeginReadKept, AskHeadKept, HeadAnswersKept, RecordKept,
       AsksKept, AnswersKept, GrepReadsKept, EndsKept DEF PathReadsNext
  <2> QED BY <2>1, <2>2
<1>3. PathReadsInv => ReadsAtOnePin
  BY DEF PathReadsInv, RunReadsWell, PinIsLate, AsAFreshRead, ReadsAtOnePin, PinsANewest,
         WritesAsFresh, Standing, Reads
<1> QED BY <1>1, <1>2, <1>3, PTL DEF PathReadsSpec

(***************************************************************************)
(* Changesets.  The moves and copies of a document are a fold over their   *)
(* order, its files and its edits folds over sets: nothing says in which   *)
(* order a fold over a set takes its elements, so what each of them comes  *)
(* to is given in closed form (After, EditedAt) and shown by the smallest  *)
(* set at which the fold and the closed form would part.  The closed form  *)
(* stands because the members of an admitted document nest nowhere.        *)
(***************************************************************************)
KnownPaths == DocPaths \cup UNION {DOMAIN tree : tree \in ParentTrees}
KnownNames == UNION {ToSet(p) : p \in KnownPaths}
TreePaths  == Seq(KnownNames)
AtOrBelow(p, f) == p = f \/ LiesUnder(p, f)

\* Every path of a document or of a parent's tree is a sequence of names.
LEMMA KnownIsPath == KnownPaths \subseteq TreePaths
  <1> SUFFICES ASSUME NEW p \in KnownPaths PROVE p \in TreePaths
    OBVIOUS
  <1>1. p \in Seq(ToSet(p))
    BY DocAssumption DEF KnownPaths
  <1>2. ToSet(p) \subseteq KnownNames
    BY DEF KnownNames
  <1> QED
    BY <1>1, <1>2 DEF TreePaths

\* One path is at or below another where it opens with it.
LEMMA BelowIs ==
  ASSUME NEW p \in TreePaths, NEW f \in TreePaths
  PROVE  /\ AtOrBelow(p, f) <=> Len(f) <= Len(p) /\ \A k \in 1 .. Len(f) : p[k] = f[k]
         /\ Nests(p, f) <=> AtOrBelow(p, f) \/ AtOrBelow(f, p)
         /\ Nests(p, f) <=> Nests(f, p)
  <1>1. \A a, b \in TreePaths :
          IsPrefix(b, a) <=> Len(b) <= Len(a) /\ \A k \in 1 .. Len(b) : a[k] = b[k]
    <2> TAKE a, b \in TreePaths
    <2>1. Len(a) \in Nat /\ Len(b) \in Nat
      BY DEF TreePaths
    <2>2. SUFFICES ASSUME Len(b) <= Len(a)
                   PROVE  SubSeq(b, 1, Len(b)) = SubSeq(a, 1, Len(b)) <=> \A k \in 1 .. Len(b) : a[k] = b[k]
      BY DEF IsPrefix
    <2>3. /\ SubSeq(b, 1, Len(b)) = [k \in 1 .. Len(b) |-> b[k]]
          /\ SubSeq(a, 1, Len(b)) = [k \in 1 .. Len(b) |-> a[k]]
      BY <2>1, <2>2 DEF TreePaths
    <2> QED
      BY <2>3
  <1>2. Len(p) \in Nat /\ Len(f) \in Nat
    BY DEF TreePaths
  <1>3. p = f <=> Len(p) = Len(f) /\ \A k \in 1 .. Len(f) : p[k] = f[k]
    BY DEF TreePaths
  <1>4. AtOrBelow(p, f) <=> Len(f) <= Len(p) /\ \A k \in 1 .. Len(f) : p[k] = f[k]
    BY <1>1, <1>2, <1>3 DEF AtOrBelow, LiesUnder
  <1> QED
    BY <1>4 DEF AtOrBelow, Nests

\* Two paths above one path nest.
LEMMA AboveOneNest ==
  ASSUME NEW p \in TreePaths, NEW f \in TreePaths, NEW g \in TreePaths,
         AtOrBelow(p, f), AtOrBelow(p, g)
  PROVE  Nests(f, g)
  <1>1. Len(p) \in Nat /\ Len(f) \in Nat /\ Len(g) \in Nat
    BY DEF TreePaths
  <1>2. CASE Len(f) <= Len(g)
    <2>1. \A k \in 1 .. Len(f) : g[k] = f[k]
      BY <1>1, <1>2, BelowIs
    <2> QED
      BY <1>2, <2>1, BelowIs
  <1>3. CASE Len(g) <= Len(f)
    <2>1. \A k \in 1 .. Len(g) : f[k] = g[k]
      BY <1>1, <1>3, BelowIs
    <2> QED
      BY <1>3, <2>1, BelowIs
  <1> QED
    BY <1>1, <1>2, <1>3

\* What is carried lands at or below the destination, each path its own.
LEMMA CarriedIs ==
  ASSUME NEW m, m.from \in TreePaths, m.to \in TreePaths,
         NEW p \in TreePaths, AtOrBelow(p, m.from)
  PROVE  /\ Carried(p, m) \in TreePaths /\ AtOrBelow(Carried(p, m), m.to)
         /\ \A q \in TreePaths : AtOrBelow(q, m.from) /\ Carried(q, m) = Carried(p, m) => q = p
  <1> DEFINE n == Len(m.from)
             w == Len(m.to)
             tail(q) == SubSeq(q, n + 1, Len(q))
  <1>1. n \in Nat /\ w \in Nat
    BY DEF TreePaths
  <1>2. \A q \in TreePaths : AtOrBelow(q, m.from) =>
          /\ Len(q) \in Nat /\ n <= Len(q) /\ \A k \in 1 .. n : q[k] = m.from[k]
    BY BelowIs DEF TreePaths
  <1> HIDE DEF n, w
  <1>3. \A q \in TreePaths : AtOrBelow(q, m.from) =>
          /\ Carried(q, m) \in TreePaths /\ Len(Carried(q, m)) = w + (Len(q) - n)
          /\ \A k \in 1 .. w : Carried(q, m)[k] = m.to[k]
          /\ \A k \in 1 .. Len(q) - n : Carried(q, m)[w + k] = q[n + k]
    <2> TAKE q \in TreePaths
    <2> HAVE AtOrBelow(q, m.from)
    <2>1. /\ Len(q) \in Nat /\ n <= Len(q)
          /\ tail(q) \in Seq(KnownNames) /\ Len(tail(q)) = Len(q) - n
          /\ \A k \in 1 .. Len(q) - n : tail(q)[k] = q[n + k]
      <3>1. Len(q) \in Nat /\ n <= Len(q) /\ q \in Seq(KnownNames)
        BY <1>2 DEF TreePaths
      <3> QED
        BY <1>1, <3>1
    <2>2. Carried(q, m) = m.to \o tail(q)
      BY DEF Carried, n
    <2> HIDE DEF tail
    <2>3. m.to \in Seq(KnownNames) /\ Len(m.to) = w
      BY DEF TreePaths, w
    <2>4. m.to \o tail(q) \in Seq(KnownNames) /\ Len(m.to \o tail(q)) = w + (Len(q) - n)
      BY <2>1, <2>3
    <2>5. \A k \in 1 .. w : (m.to \o tail(q))[k] = m.to[k]
      BY <1>1, <2>1, <2>3
    <2>6. \A k \in 1 .. Len(q) - n : (m.to \o tail(q))[w + k] = tail(q)[k]
      <3> TAKE k \in 1 .. Len(q) - n
      <3>1. w + k \in 1 .. w + (Len(q) - n) /\ ~(w + k <= w) /\ (w + k) - w = k
        BY <1>1, <2>1
      <3> QED
        BY <2>1, <2>3, <2>4, <3>1
    <2> QED
      BY <2>1, <2>2, <2>4, <2>5, <2>6 DEF TreePaths
  <1>4. AtOrBelow(Carried(p, m), m.to)
    BY <1>1, <1>2, <1>3, BelowIs DEF w
  <1>5. ASSUME NEW q \in TreePaths, AtOrBelow(q, m.from), Carried(q, m) = Carried(p, m)
        PROVE  q = p
    <2>1. Len(q) \in Nat /\ Len(p) \in Nat /\ n <= Len(q) /\ n <= Len(p)
      BY <1>2, <1>5
    <2>2. Len(q) = Len(p)
      BY <1>1, <1>3, <1>5, <2>1
    <2>3. \A k \in 1 .. Len(p) : q[k] = p[k]
      <3> TAKE k \in 1 .. Len(p)
      <3>1. CASE k <= n
        BY <1>1, <1>2, <1>5, <2>1, <3>1
      <3>2. CASE n < k
        <4>1. PICK j \in 1 .. Len(p) - n : k = n + j
          <5>1. k - n \in 1 .. Len(p) - n /\ k = n + (k - n)
            BY <1>1, <2>1, <3>2
          <5> QED
            BY <5>1
        <4>2. Carried(q, m)[w + j] = q[n + j] /\ Carried(p, m)[w + j] = p[n + j]
          BY <1>3, <1>5, <2>2
        <4> QED
          BY <1>5, <4>1, <4>2
      <3> QED
        BY <1>1, <2>1, <3>1, <3>2
    <2> QED
      BY <2>2, <2>3 DEF TreePaths
  <1> QED
    BY <1>3, <1>4, <1>5

(***************************************************************************)
(* Documents.  A set S of members leaves, of a tree, what none of its      *)
(* moves takes, and beside it what arrives: each path of the parent at or  *)
(* below a source, at its destination.                                     *)
(***************************************************************************)
Member(i) == doc.members[i]
Sources(parent, i) == {p \in DOMAIN parent : AtOrBelow(p, Member(i).from)}
Arrivals(parent, S) == UNION {{Carried(p, Member(i)) : p \in Sources(parent, i)} : i \in S}
Stay(tree, S) ==
    {q \in DOMAIN tree : \A i \in S : Member(i).kind = "move" => ~AtOrBelow(q, Member(i).from)}
Brings(parent, S, q, v) ==
    \E i \in S : \E p \in Sources(parent, i) : q = Carried(p, Member(i)) /\ v = parent[p]
Brought(parent, S, q) == CHOOSE v : Brings(parent, S, q, v)
After(tree, parent, S) ==
    [q \in Stay(tree, S) \cup Arrivals(parent, S) |->
        IF q \in Arrivals(parent, S) THEN Brought(parent, S, q) ELSE tree[q]]

Documents ==
    [members : Seq([kind : {"move", "copy"}, from : DocPaths, to : DocPaths]),
     deletions : SUBSET TypedPaths, files : SUBSET TypedPaths, edits : SUBSET DocPaths]
DocTypes == doc \in Documents /\ IsFiniteSet(doc.files) /\ IsFiniteSet(doc.edits)

\* What a member of a document is made of.
LEMMA MemberIs ==
  ASSUME DocTypes, NEW i \in DOMAIN doc.members
  PROVE  /\ Member(i).kind \in {"move", "copy"}
         /\ Member(i).from \in TreePaths /\ Member(i).to \in TreePaths
  <1> DEFINE T == [kind : {"move", "copy"}, from : DocPaths, to : DocPaths]
  <1>1. Member(i) \in T
    <2>1. doc.members \in Seq(T)
      BY DEF DocTypes, Documents
    <2> HIDE DEF T
    <2> QED
      BY <2>1 DEF Member
  <1>2. DocPaths \subseteq TreePaths
    BY KnownIsPath DEF KnownPaths
  <1> QED
    BY <1>1, <1>2

\* No overlap, of any two members.
LEMMA MembersApart ==
  ASSUME DocTypes, ~Overlaps, NEW i \in DOMAIN doc.members, NEW j \in DOMAIN doc.members
  PROVE  /\ ~Nests(Member(i).from, Member(j).to)
         /\ i # j => /\ ~Nests(Member(i).to, Member(j).to)
                     /\ Nests(Member(i).from, Member(j).from) =>
                           Member(i).kind = "copy" /\ Member(j).kind = "copy"
  <1>1. DOMAIN doc.members = 1 .. Len(doc.members) /\ Len(doc.members) \in Nat
    BY DEF DocTypes, Documents
  <1>2. ~SelfOverlaps(Member(i)) /\ \A a, b \in DOMAIN doc.members : b < a => ~MembersOverlap(Member(a), Member(b))
    <2>1. ASSUME NEW a \in DOMAIN doc.members, NEW b \in DOMAIN doc.members, b < a
          PROVE  ~MembersOverlap(Member(a), Member(b))
      <3>1. b \in 1 .. a - 1
        BY <1>1, <2>1
      <3> QED
        BY <3>1 DEF Overlaps, Member
    <2> QED
      BY <2>1 DEF Overlaps, Member
  <1>3. /\ Member(i).from \in TreePaths /\ Member(i).to \in TreePaths
        /\ Member(j).from \in TreePaths /\ Member(j).to \in TreePaths
    BY MemberIs
  <1>4. CASE i = j
    BY <1>2, <1>3, <1>4, BelowIs DEF SelfOverlaps
  <1>5. CASE j < i
    BY <1>2, <1>3, <1>5, BelowIs DEF MembersOverlap, BothCopies
  <1>6. CASE i < j
    <2>1. ~MembersOverlap(Member(j), Member(i))
      BY <1>2, <1>6
    <2> QED
      BY <1>3, <1>6, <2>1, BelowIs DEF MembersOverlap, BothCopies
  <1> QED
    BY <1>1, <1>4, <1>5, <1>6

\* A path arrives from one place.
LEMMA BroughtIs ==
  ASSUME DocTypes, ~Overlaps, NEW parent, DOMAIN parent \subseteq TreePaths,
         NEW S \in SUBSET DOMAIN doc.members, NEW i \in S, NEW p \in Sources(parent, i)
  PROVE  /\ Carried(p, Member(i)) \in Arrivals(parent, S)
         /\ AtOrBelow(Carried(p, Member(i)), Member(i).to)
         /\ Brought(parent, S, Carried(p, Member(i))) = parent[p]
         /\ \A j \in S : \A r \in Sources(parent, j) :
               Carried(r, Member(j)) = Carried(p, Member(i)) => j = i /\ r = p
  <1> DEFINE c == Carried(p, Member(i))
  <1>1. \A j \in S : \A r \in Sources(parent, j) :
          /\ r \in TreePaths /\ AtOrBelow(r, Member(j).from)
          /\ Member(j).from \in TreePaths /\ Member(j).to \in TreePaths
          /\ Carried(r, Member(j)) \in TreePaths /\ AtOrBelow(Carried(r, Member(j)), Member(j).to)
    BY MemberIs, CarriedIs DEF Sources
  <1>2. ASSUME NEW j \in S, NEW r \in Sources(parent, j), Carried(r, Member(j)) = c
        PROVE  j = i /\ r = p
    <2>1. j = i
      <3>1. Nests(Member(j).to, Member(i).to)
        BY <1>1, <1>2, AboveOneNest
      <3> QED
        BY <3>1, MembersApart
    <2> QED
      BY <1>1, <1>2, <2>1, CarriedIs
  <1>3. c \in Arrivals(parent, S)
    BY DEF Arrivals
  <1>4. Brings(parent, S, c, parent[p]) /\ \A v : Brings(parent, S, c, v) => v = parent[p]
    BY <1>2 DEF Brings
  <1> HIDE DEF c
  <1>5. Brought(parent, S, c) = parent[p]
    BY <1>4 DEF Brought
  <1> QED
    BY <1>1, <1>2, <1>3, <1>5 DEF c

\* What arrives arrives of one member, and from one path.
LEMMA ArrivalIs ==
  ASSUME NEW parent, NEW S, NEW q \in Arrivals(parent, S)
  PROVE  \E i \in S : \E p \in Sources(parent, i) : q = Carried(p, Member(i))
  BY DEF Arrivals

\* One member more.
LEMMA MovedIs ==
  ASSUME DocTypes, ~Overlaps, NEW tree, NEW parent, DOMAIN tree \subseteq TreePaths,
         DOMAIN parent \subseteq TreePaths, NEW S \in SUBSET DOMAIN doc.members, NEW i \in S
  PROVE  Moved(After(tree, parent, S \ {i}), parent, Member(i)) = After(tree, parent, S)
  <1> DEFINE R == S \ {i}
             m == Member(i)
             acc == After(tree, parent, R)
             kept == IF m.kind = "move" THEN Removed(acc, m.from) ELSE acc
             landing == {Carried(p, m) : p \in Sources(parent, i)}
             back(q) == CHOOSE p \in Sources(parent, i) : Carried(p, m) = q
  <1>1. Moved(acc, parent, m) =
          [q \in DOMAIN kept \cup landing |-> IF q \in landing THEN parent[back(q)] ELSE kept[q]]
    BY DEF Moved, Sources, AtOrBelow
  <1>2. /\ DOMAIN acc = Stay(tree, R) \cup Arrivals(parent, R)
        /\ \A q \in DOMAIN acc : acc[q] = IF q \in Arrivals(parent, R) THEN Brought(parent, R, q) ELSE tree[q]
    BY DEF After
  <1>3. Arrivals(parent, S) = Arrivals(parent, R) \cup landing
    BY DEF Arrivals
  <1>4. m.from \in TreePaths /\ m.to \in TreePaths /\ m.kind \in {"move", "copy"} /\ R \in SUBSET DOMAIN doc.members
    BY MemberIs
  <1>5. ASSUME NEW q \in Arrivals(parent, R)
        PROVE  /\ q \notin landing /\ ~AtOrBelow(q, m.from) /\ Brought(parent, R, q) = Brought(parent, S, q)
    <2>1. PICK j \in R : \E p \in Sources(parent, j) : q = Carried(p, Member(j))
      BY ArrivalIs
    <2>2. PICK p \in Sources(parent, j) : q = Carried(p, Member(j))
      BY <2>1
    <2>3. p \in TreePaths /\ AtOrBelow(p, Member(j).from) /\ Member(j).to \in TreePaths /\ Member(j).from \in TreePaths
      BY MemberIs DEF Sources
    <2>4. q \in TreePaths /\ AtOrBelow(q, Member(j).to)
      BY <2>2, <2>3, CarriedIs
    <2>5. ~AtOrBelow(q, m.from)
      <3>1. ~Nests(m.from, Member(j).to)
        BY MembersApart
      <3> QED
        BY <1>4, <2>3, <2>4, <3>1, AboveOneNest
    <2>6. Brought(parent, R, q) = parent[p] /\ Brought(parent, S, q) = parent[p]
      BY <1>4, <2>2, BroughtIs
    <2>7. q \notin landing
      <3>1. SUFFICES ASSUME NEW r \in Sources(parent, i), Carried(r, Member(i)) = Carried(p, Member(j)) PROVE FALSE
        BY <2>2
      <3>2. j \in S
        OBVIOUS
      <3>3. i = j
        BY <3>1, <3>2, BroughtIs
      <3> QED
        BY <3>3
    <2> QED
      BY <2>5, <2>6, <2>7
  <1>6. \A q \in landing : parent[back(q)] = Brought(parent, S, q)
    <2> TAKE q \in landing
    <2>1. PICK p \in Sources(parent, i) : q = Carried(p, m)
      OBVIOUS
    <2>2. back(q) \in Sources(parent, i) /\ Carried(back(q), m) = q
      BY <2>1
    <2> HIDE DEF back
    <2> QED
      BY <2>2, BroughtIs
  <1>7. /\ DOMAIN kept = Stay(tree, S) \cup Arrivals(parent, R)
        /\ \A q \in DOMAIN kept : kept[q] = acc[q]
    <2>1. CASE m.kind = "move"
      <3>1. /\ DOMAIN kept = {q \in DOMAIN acc : ~AtOrBelow(q, m.from)}
            /\ \A q \in DOMAIN kept : kept[q] = acc[q]
        BY <2>1 DEF Removed, AtOrBelow
      <3>2. {q \in Stay(tree, R) : ~AtOrBelow(q, m.from)} = Stay(tree, S)
        BY <2>1 DEF Stay
      <3> HIDE DEF kept, m, acc
      <3> QED
        BY <1>2, <1>5, <3>1, <3>2
    <2>2. CASE m.kind = "copy"
      <3>1. Stay(tree, R) = Stay(tree, S)
        BY <2>2 DEF Stay
      <3> QED
        BY <1>2, <2>2, <3>1
    <2> QED
      BY <1>4, <2>1, <2>2
  <1>8. After(tree, parent, S) = [q \in DOMAIN kept \cup landing |->
                                    IF q \in landing THEN parent[back(q)] ELSE kept[q]]
    <2>1. Stay(tree, S) \cup Arrivals(parent, S) = DOMAIN kept \cup landing
      BY <1>3, <1>7
    <2>2. ASSUME NEW q \in DOMAIN kept \cup landing
          PROVE  (IF q \in Arrivals(parent, S) THEN Brought(parent, S, q) ELSE tree[q])
                    = IF q \in landing THEN parent[back(q)] ELSE kept[q]
      <3>1. CASE q \in landing
        BY <1>3, <1>6, <3>1
      <3>2. CASE q \notin landing
        <4>1. q \in DOMAIN kept /\ kept[q] = acc[q] /\ q \in DOMAIN acc
          <5>1. Stay(tree, S) \subseteq Stay(tree, R)
            BY DEF Stay
          <5> HIDE DEF landing, kept, acc
          <5> QED
            BY <1>2, <1>7, <2>2, <3>2, <5>1
        <4> HIDE DEF kept, landing, acc, R
        <4> QED
          BY <1>2, <1>3, <1>5, <3>2, <4>1
      <3> QED
        BY <3>1, <3>2
    <2> HIDE DEF kept, landing, back
    <2> QED
      BY <2>1, <2>2 DEF After
  <1> QED
    BY <1>1, <1>8

\* A member reads its source where the ones before it left it, or at the parent.
LEMMA MovedInTurn ==
  ASSUME DocTypes, ~Overlaps, NEW parent, DOMAIN parent \subseteq TreePaths,
         NEW S \in SUBSET DOMAIN doc.members, NEW i \in DOMAIN doc.members \ S
  PROVE  LET acc == After(WithDeletions(parent), parent, S)
         IN  Moved(acc, acc, Member(i)) = Moved(acc, parent, Member(i))
  <1> DEFINE cleared == WithDeletions(parent)
             acc == After(cleared, parent, S)
             m == Member(i)
  <1>1. /\ DOMAIN acc = Stay(cleared, S) \cup Arrivals(parent, S)
        /\ \A q \in DOMAIN acc : acc[q] = IF q \in Arrivals(parent, S) THEN Brought(parent, S, q) ELSE cleared[q]
    BY DEF After
  <1>2. /\ DOMAIN cleared = {q \in DOMAIN parent : \A d \in DeletionPaths : ~AtOrBelow(q, d)}
        /\ \A q \in DOMAIN cleared : cleared[q] = parent[q]
    BY DEF WithDeletions, AtOrBelow
  <1>3. m.from \in TreePaths /\ m.to \in TreePaths
    BY MemberIs
  <1>4. \A q \in Arrivals(parent, S) : ~AtOrBelow(q, m.from)
    <2> TAKE q \in Arrivals(parent, S)
    <2>1. PICK j \in S : \E p \in Sources(parent, j) : q = Carried(p, Member(j))
      BY ArrivalIs
    <2>2. PICK p \in Sources(parent, j) : q = Carried(p, Member(j))
      BY <2>1
    <2>3. p \in TreePaths /\ AtOrBelow(p, Member(j).from) /\ Member(j).to \in TreePaths /\ Member(j).from \in TreePaths
      BY MemberIs DEF Sources
    <2>4. q \in TreePaths /\ AtOrBelow(q, Member(j).to)
      BY <2>2, <2>3, CarriedIs
    <2>5. ~Nests(m.from, Member(j).to)
      BY MembersApart
    <2> QED
      BY <1>3, <2>3, <2>4, <2>5, AboveOneNest
  <1>5. \A q \in DOMAIN parent : AtOrBelow(q, m.from) => q \in Stay(cleared, S)
    <2> TAKE q \in DOMAIN parent
    <2> HAVE AtOrBelow(q, m.from)
    <2>1. q \in TreePaths
      OBVIOUS
    <2>2. ASSUME NEW d \in DeletionPaths, AtOrBelow(q, d) PROVE FALSE
      <3>1. d \in TreePaths
        <4>1. d \in DocPaths
          BY DEF DeletionPaths, LexicalPath, DocTypes, Documents, TypedPaths
        <4> QED
          BY <4>1, KnownIsPath DEF KnownPaths
      <3>2. Nests(d, m.from)
        BY <1>3, <2>1, <2>2, <3>1, AboveOneNest
      <3>3. ~DeletionOverlaps(d, m)
        BY DEF Overlaps, Member
      <3> QED
        BY <3>2, <3>3 DEF DeletionOverlaps
    <2>3. ASSUME NEW j \in S, Member(j).kind = "move", AtOrBelow(q, Member(j).from) PROVE FALSE
      <3>1. Member(j).from \in TreePaths
        BY MemberIs
      <3>2. Nests(m.from, Member(j).from)
        BY <1>3, <2>1, <2>3, <3>1, AboveOneNest
      <3> QED
        BY <2>3, <3>2, MembersApart
    <2> QED
      BY <1>2, <2>2, <2>3 DEF Stay
  <1>6. {p \in DOMAIN acc : AtOrBelow(p, m.from)} = Sources(parent, i)
    <2>1. \A p \in DOMAIN acc : AtOrBelow(p, m.from) => p \in DOMAIN parent
      <3>1. \A p \in Stay(cleared, S) : p \in DOMAIN parent
        BY <1>2 DEF Stay
      <3> HIDE DEF acc, m, cleared
      <3> QED
        BY <1>1, <1>4, <3>1
    <2>2. \A p \in DOMAIN parent : AtOrBelow(p, m.from) => p \in DOMAIN acc
      BY <1>1, <1>5
    <2> HIDE DEF acc
    <2> QED
      BY <2>1, <2>2 DEF Sources
  <1>7. \A p \in Sources(parent, i) : acc[p] = parent[p]
    <2> TAKE p \in Sources(parent, i)
    <2>1. p \in DOMAIN parent /\ AtOrBelow(p, m.from)
      BY DEF Sources
    <2>2. p \in DOMAIN acc /\ p \notin Arrivals(parent, S) /\ p \in DOMAIN cleared
      <3>1. p \in Stay(cleared, S)
        BY <1>5, <2>1
      <3>2. p \in DOMAIN cleared
        BY <3>1 DEF Stay
      <3> HIDE DEF acc, m, cleared
      <3> QED
        BY <1>1, <1>4, <2>1, <3>1, <3>2
    <2> HIDE DEF acc, cleared
    <2> QED
      BY <1>1, <1>2, <2>2
  <1> DEFINE kept == IF m.kind = "move" THEN Removed(acc, m.from) ELSE acc
             landing == {Carried(p, m) : p \in Sources(parent, i)}
             back(q) == CHOOSE p \in Sources(parent, i) : Carried(p, m) = q
  <1>8. Moved(acc, parent, m) =
          [q \in DOMAIN kept \cup landing |-> IF q \in landing THEN parent[back(q)] ELSE kept[q]]
    BY DEF Moved, Sources, AtOrBelow
  <1>9. Moved(acc, acc, m) =
          [q \in DOMAIN kept \cup landing |-> IF q \in landing THEN acc[back(q)] ELSE kept[q]]
    <2> DEFINE stood == {p \in DOMAIN acc : AtOrBelow(p, m.from)}
               arrived == {Carried(p, m) : p \in stood}
               behind(q) == CHOOSE p \in stood : Carried(p, m) = q
    <2>1. Moved(acc, acc, m) =
            [q \in DOMAIN kept \cup arrived |-> IF q \in arrived THEN acc[behind(q)] ELSE kept[q]]
      BY DEF Moved, AtOrBelow
    <2>2. stood = Sources(parent, i)
      BY <1>6
    <2> HIDE DEF stood, kept, acc, m
    <2> QED
      BY <2>1, <2>2
  <1>10. \A q \in landing : acc[back(q)] = parent[back(q)]
    <2> TAKE q \in landing
    <2>1. PICK p \in Sources(parent, i) : q = Carried(p, m)
      OBVIOUS
    <2>2. back(q) \in Sources(parent, i)
      BY <2>1
    <2> HIDE DEF back, acc
    <2> QED
      BY <1>7, <2>2
  <1> HIDE DEF kept, landing, back, acc, m
  <1>11. Moved(acc, acc, m) = Moved(acc, parent, m)
    BY <1>8, <1>9, <1>10
  <1> QED
    BY <1>11 DEF acc, m

\* No member leaves nothing behind and brings nothing.
LEMMA AfterNone ==
  ASSUME NEW tree, NEW parent, tree = [q \in DOMAIN tree |-> tree[q]]
  PROVE  After(tree, parent, {}) = tree
  <1>1. Arrivals(parent, {}) = {} /\ Stay(tree, {}) = DOMAIN tree
    BY DEF Arrivals, Stay
  <1> QED
    BY <1>1 DEF After

\* The places of a sequence are as many as it is long.
LEMMA UpToIs ==
  ASSUME NEW n \in Nat
  PROVE  IsFiniteSet(1 .. n) /\ Cardinality(1 .. n) = n
  <1>1. 1 \in Int /\ n \in Int /\ (IF 1 > n THEN 0 ELSE n - 1 + 1) = n
    OBVIOUS
  <1>2. IsFiniteSet(1 .. n) /\ Cardinality(1 .. n) = IF 1 > n THEN 0 ELSE n - 1 + 1
    BY <1>1, FS_Interval, Zenon
  <1> QED
    BY <1>1, <1>2

\* A numbering of the members is one of all of them.
LEMMA OrderIs ==
  ASSUME DocTypes, NEW order \in AnyOrder
  PROVE  /\ IsFiniteSet(DOMAIN order)
         /\ \A k \in DOMAIN order : order[k] \in DOMAIN doc.members
         /\ \A k, j \in DOMAIN order : order[k] = order[j] => k = j
         /\ {order[k] : k \in DOMAIN order} = DOMAIN doc.members
  <1> DEFINE D == DOMAIN doc.members
             n == Len(doc.members)
  <1>1. n \in Nat /\ D = 1 .. n
    BY DEF DocTypes, Documents
  <1>2. IsFiniteSet(D) /\ Cardinality(D) = n
    <2> HIDE DEF n, D
    <2> QED
      BY <1>1, UpToIs, Zenon
  <1> HIDE DEF n, D
  <1>3. AnyOrder = {f \in [1 .. n -> D] : \A i, j \in 1 .. n : i # j => f[i] # f[j]}
    BY <1>2 DEF AnyOrder, SetToSeqs, D
  <1>4. order \in Injection(D, D) /\ DOMAIN order = D
    BY <1>1, <1>3 DEF Injection, IsInjective
  <1>5. order \in Surjection(D, D)
    BY <1>2, <1>4, FS_Injection
  <1>6. {order[k] : k \in D} = D
    BY <1>4, <1>5 DEF Surjection
  <1> QED
    BY <1>2, <1>3, <1>4, <1>6 DEF D, Injection, IsInjective

\* The order of the document is one of them.
LEMMA OneOrder ==
  ASSUME DocTypes
  PROVE  InOrder \in AnyOrder
  <1> DEFINE D == DOMAIN doc.members
             n == Len(doc.members)
  <1>1. n \in Nat /\ D = 1 .. n
    BY DEF DocTypes, Documents
  <1>2. Cardinality(D) = n
    <2> HIDE DEF n, D
    <2> QED
      BY <1>1, UpToIs, Zenon
  <1>3. InOrder = [i \in D |-> i]
    BY DEF InOrder
  <1>4. AnyOrder = {f \in [1 .. Cardinality(D) -> D] : \A i, j \in 1 .. Cardinality(D) : i # j => f[i] # f[j]}
    BY DEF AnyOrder, SetToSeqs
  <1> HIDE DEF n, D
  <1> QED
    BY <1>1, <1>2, <1>3, <1>4

(***************************************************************************)
(* A fold over a finite set takes an element out and folds the rest.  Two  *)
(* functions on its subsets that differ somewhere differ on a set that,    *)
(* but for one element, they agree on.                                     *)
(***************************************************************************)
FirstOf(s) == CHOOSE x \in s : TRUE

\* Two functions of sets that differ, differ at a set one smaller than which
\* they agree on.
LEMMA FirstApart ==
  ASSUME NEW S, IsFiniteSet(S), NEW g, NEW h, g[S] # h[S]
  PROVE  \E t \in SUBSET S :
            g[t] # h[t] /\ (t # {} => FirstOf(t) \in t /\ g[t \ {FirstOf(t)}] = h[t \ {FirstOf(t)}])
  <1> DEFINE Bad == {s \in SUBSET S : g[s] # h[s]}
  <1>1. Bad # {} /\ Bad \subseteq FiniteSubsetsOf(S)
    BY FS_Subset DEF FiniteSubsetsOf
  <1>2. IsWellFoundedOn(StrictSubsetOrdering(S), FiniteSubsetsOf(S))
    BY FS_StrictSubsetOrderingWellFounded
  <1>3. PICK t \in Bad : \A s \in Bad : ~ (<<s, t>> \in StrictSubsetOrdering(S))
    <2> HIDE DEF Bad
    <2> QED
      BY <1>1, <1>2, WFMin
  <1>4. ASSUME t # {} PROVE FirstOf(t) \in t /\ g[t \ {FirstOf(t)}] = h[t \ {FirstOf(t)}]
    <2>1. FirstOf(t) \in t
      BY <1>4 DEF FirstOf
    <2>2. <<t \ {FirstOf(t)}, t>> \in StrictSubsetOrdering(S)
      BY <2>1 DEF StrictSubsetOrdering
    <2> QED
      BY <1>3, <2>1, <2>2
  <1> QED
    BY <1>3, <1>4

\* Whatever the order, the members leave what they leave together.
LEMMA MembersInIs ==
  ASSUME DocTypes, ~Overlaps, NEW tree, NEW parent, tree = [q \in DOMAIN tree |-> tree[q]],
         DOMAIN tree \subseteq TreePaths, DOMAIN parent \subseteq TreePaths, NEW order \in AnyOrder
  PROVE  MembersIn(order, tree, parent) = After(tree, parent, DOMAIN doc.members)
  <1> DEFINE D == DOMAIN order
             Of(s) == {order[k] : k \in s}
             step(g) == [s \in SUBSET D |-> IF s = {} THEN tree
                           ELSE Moved(g[s \ {CHOOSE x \in s : TRUE}], parent,
                                      doc.members[order[CHOOSE x \in s : TRUE]])]
             h == [s \in SUBSET D |-> After(tree, parent, Of(s))]
             iter == CHOOSE g : g = step(g)
  <1>1. MembersIn(order, tree, parent) = iter[D]
    BY DEF MembersIn, FoldSeq, FoldFunction, FoldFunctionOnSet, MapThenFoldSet
  <1>2. \A s \in SUBSET D : s # {} =>
          Moved(After(tree, parent, Of(s \ {FirstOf(s)})), parent, doc.members[order[FirstOf(s)]])
             = After(tree, parent, Of(s))
    <2> TAKE s \in SUBSET D
    <2> HAVE s # {}
    <2>1. FirstOf(s) \in s
      BY DEF FirstOf
    <2>2. /\ Of(s) \in SUBSET DOMAIN doc.members /\ order[FirstOf(s)] \in Of(s)
          /\ Of(s \ {FirstOf(s)}) = Of(s) \ {order[FirstOf(s)]}
      BY <2>1, OrderIs
    <2> HIDE DEF Of
    <2>3. Moved(After(tree, parent, Of(s) \ {order[FirstOf(s)]}), parent, Member(order[FirstOf(s)]))
             = After(tree, parent, Of(s))
      BY <2>2, MovedIs
    <2> QED
      BY <2>2, <2>3 DEF Member
  <1>3. h = step(h)
    <2>1. \A s \in SUBSET D : h[s] =
            IF s = {} THEN tree ELSE Moved(h[s \ {FirstOf(s)}], parent, doc.members[order[FirstOf(s)]])
      <3> TAKE s \in SUBSET D
      <3>1. Of({}) = {}
        OBVIOUS
      <3>2. s \ {FirstOf(s)} \in SUBSET D
        OBVIOUS
      <3> HIDE DEF Of
      <3> QED
        BY <1>2, <3>1, <3>2, AfterNone
    <2> HIDE DEF Of
    <2> QED
      BY <2>1 DEF FirstOf
  <1>4. iter = step(iter)
    <2> HIDE DEF step, h
    <2> QED
      BY <1>3
  <1>7. IsFiniteSet(D)
    BY OrderIs
  <1> HIDE DEF iter, h, D
  <1>5. iter[D] = h[D]
    <2>1. SUFFICES ASSUME iter[D] # h[D] PROVE FALSE
      OBVIOUS
    <2>2. PICK t \in SUBSET D : iter[t] # h[t] /\ (t # {} => FirstOf(t) \in t /\ iter[t \ {FirstOf(t)}] = h[t \ {FirstOf(t)}])
      BY <1>7, <2>1, FirstApart, Z3
    <2>3. /\ iter[t] = IF t = {} THEN tree ELSE Moved(iter[t \ {FirstOf(t)}], parent, doc.members[order[FirstOf(t)]])
          /\ h[t] = IF t = {} THEN tree ELSE Moved(h[t \ {FirstOf(t)}], parent, doc.members[order[FirstOf(t)]])
      BY <1>3, <1>4 DEF FirstOf
    <2> QED
      BY <2>2, <2>3
  <1>6. Of(D) = DOMAIN doc.members
    BY OrderIs DEF D
  <1> QED
    BY <1>1, <1>5, <1>6 DEF h, D

\* So does the fold in which each member reads what those before it left.
LEMMA MembersInTurnIs ==
  ASSUME DocTypes, ~Overlaps, NEW parent, DOMAIN parent \subseteq TreePaths, NEW order \in AnyOrder
  PROVE  MembersInTurn(order, WithDeletions(parent))
            = After(WithDeletions(parent), parent, DOMAIN doc.members)
  <1> DEFINE tree == WithDeletions(parent)
             D == DOMAIN order
             Of(s) == {order[k] : k \in s}
             step(g) == [s \in SUBSET D |-> IF s = {} THEN tree
                           ELSE Moved(g[s \ {CHOOSE x \in s : TRUE}], g[s \ {CHOOSE x \in s : TRUE}],
                                      doc.members[order[CHOOSE x \in s : TRUE]])]
             h == [s \in SUBSET D |-> After(tree, parent, Of(s))]
             iter == CHOOSE g : g = step(g)
  <1>0. /\ DOMAIN tree \subseteq TreePaths /\ tree = [q \in DOMAIN tree |-> tree[q]]
    BY DEF WithDeletions
  <1>1. MembersInTurn(order, tree) = iter[D]
    <2> HIDE DEF tree
    <2> QED
      BY DEF MembersInTurn, FoldSeq, FoldFunction, FoldFunctionOnSet, MapThenFoldSet
  <1>2. \A s \in SUBSET D : s # {} =>
          Moved(After(tree, parent, Of(s \ {FirstOf(s)})), After(tree, parent, Of(s \ {FirstOf(s)})),
                doc.members[order[FirstOf(s)]])
             = After(tree, parent, Of(s))
    <2> TAKE s \in SUBSET D
    <2> HAVE s # {}
    <2>1. FirstOf(s) \in s
      BY DEF FirstOf
    <2>2. /\ Of(s) \in SUBSET DOMAIN doc.members /\ order[FirstOf(s)] \in Of(s)
          /\ Of(s \ {FirstOf(s)}) = Of(s) \ {order[FirstOf(s)]}
      BY <2>1, OrderIs
    <2> DEFINE acc == After(tree, parent, Of(s) \ {order[FirstOf(s)]})
    <2> HIDE DEF Of
    <2>3. Moved(acc, parent, Member(order[FirstOf(s)])) = After(tree, parent, Of(s))
      BY <1>0, <2>2, MovedIs
    <2>4. Moved(acc, acc, Member(order[FirstOf(s)])) = Moved(acc, parent, Member(order[FirstOf(s)]))
      <3>1. /\ Of(s) \ {order[FirstOf(s)]} \in SUBSET DOMAIN doc.members
            /\ order[FirstOf(s)] \in DOMAIN doc.members \ (Of(s) \ {order[FirstOf(s)]})
        BY <2>2
      <3> QED
        BY <3>1, MovedInTurn
    <2> HIDE DEF tree
    <2> QED
      BY <2>2, <2>3, <2>4 DEF Member
  <1> HIDE DEF tree
  <1>3. h = step(h)
    <2>1. \A s \in SUBSET D : h[s] =
            IF s = {} THEN tree
            ELSE Moved(h[s \ {FirstOf(s)}], h[s \ {FirstOf(s)}], doc.members[order[FirstOf(s)]])
      <3> TAKE s \in SUBSET D
      <3>1. Of({}) = {}
        OBVIOUS
      <3>2. s \ {FirstOf(s)} \in SUBSET D
        OBVIOUS
      <3> HIDE DEF Of
      <3> QED
        BY <1>0, <1>2, <3>1, <3>2, AfterNone
    <2> HIDE DEF Of
    <2> QED
      BY <2>1 DEF FirstOf
  <1>4. iter = step(iter)
    <2> HIDE DEF step, h
    <2> QED
      BY <1>3
  <1>7. IsFiniteSet(D)
    BY OrderIs
  <1> HIDE DEF iter, h, D
  <1>5. iter[D] = h[D]
    <2>1. SUFFICES ASSUME iter[D] # h[D] PROVE FALSE
      OBVIOUS
    <2>2. PICK t \in SUBSET D : iter[t] # h[t] /\ (t # {} => FirstOf(t) \in t /\ iter[t \ {FirstOf(t)}] = h[t \ {FirstOf(t)}])
      BY <1>7, <2>1, FirstApart
    <2>3. /\ iter[t] = IF t = {} THEN tree
                       ELSE Moved(iter[t \ {FirstOf(t)}], iter[t \ {FirstOf(t)}], doc.members[order[FirstOf(t)]])
          /\ h[t] = IF t = {} THEN tree
                    ELSE Moved(h[t \ {FirstOf(t)}], h[t \ {FirstOf(t)}], doc.members[order[FirstOf(t)]])
      BY <1>3, <1>4 DEF FirstOf
    <2> QED
      BY <2>2, <2>3
  <1>6. Of(D) = DOMAIN doc.members
    BY OrderIs DEF D
  <1> QED
    BY <1>1, <1>5, <1>6 DEF h, D, tree

\* The files written, and the edits, each over what stood at its path.
LEMMA FilesIs ==
  ASSUME DocTypes, NEW tree, tree = [q \in DOMAIN tree |-> tree[q]]
  PROVE  WithFiles(tree) = [q \in DOMAIN tree \cup FilePaths |-> IF q \in FilePaths THEN "file" ELSE tree[q]]
  <1> DEFINE D == FilePaths
             step(g) == [s \in SUBSET D |-> IF s = {} THEN tree
                           ELSE WithFile(g[s \ {CHOOSE x \in s : TRUE}], CHOOSE x \in s : TRUE, "file")]
             h == [s \in SUBSET D |-> [q \in DOMAIN tree \cup s |-> IF q \in s THEN "file" ELSE tree[q]]]
             iter == CHOOSE g : g = step(g)
  <1>0. IsFiniteSet(D)
    <2> DEFINE f == [typed \in doc.files |-> LexicalPath(typed)]
    <2>1. f \in Surjection(doc.files, D)
      BY DEF Surjection, FilePaths
    <2> HIDE DEF f, D
    <2> QED
      BY <2>1, FS_Surjection DEF DocTypes
  <1>1. WithFiles(tree) = iter[D]
    BY DEF WithFiles, FoldSet, MapThenFoldSet
  <1> HIDE DEF D
  <1>3. h = step(h)
    <2>1. \A s \in SUBSET D : h[s] =
            IF s = {} THEN tree ELSE WithFile(h[s \ {FirstOf(s)}], FirstOf(s), "file")
      <3> TAKE s \in SUBSET D
      <3>1. CASE s = {}
        BY <3>1
      <3>2. CASE s # {}
        <4>1. FirstOf(s) \in s
          BY <3>2 DEF FirstOf
        <4>2. h[s \ {FirstOf(s)}] = [q \in DOMAIN tree \cup (s \ {FirstOf(s)}) |->
                                    IF q \in s \ {FirstOf(s)} THEN "file" ELSE tree[q]]
          OBVIOUS
        <4> HIDE DEF h
        <4>3. WithFile(h[s \ {FirstOf(s)}], FirstOf(s), "file")
                 = [q \in DOMAIN tree \cup s |-> IF q \in s THEN "file" ELSE tree[q]]
          BY <4>1, <4>2 DEF WithFile
        <4> QED
          BY <3>2, <4>3 DEF h
      <3> QED
        BY <3>1, <3>2
    <2>2. h = [s \in SUBSET D |-> h[s]]
      OBVIOUS
    <2> HIDE DEF h
    <2> QED
      BY <2>1, <2>2 DEF FirstOf
  <1>4. iter = step(iter)
    <2> HIDE DEF step, h
    <2> QED
      BY <1>3
  <1> HIDE DEF iter, h
  <1>5. iter[D] = h[D]
    <2>1. SUFFICES ASSUME iter[D] # h[D] PROVE FALSE
      OBVIOUS
    <2>2. PICK t \in SUBSET D : iter[t] # h[t] /\ (t # {} => FirstOf(t) \in t /\ iter[t \ {FirstOf(t)}] = h[t \ {FirstOf(t)}])
      BY <1>0, <2>1, FirstApart
    <2>3. /\ iter[t] = IF t = {} THEN tree ELSE WithFile(iter[t \ {FirstOf(t)}], FirstOf(t), "file")
          /\ h[t] = IF t = {} THEN tree ELSE WithFile(h[t \ {FirstOf(t)}], FirstOf(t), "file")
      BY <1>3, <1>4 DEF FirstOf
    <2> QED
      BY <2>2, <2>3
  <1> QED
    BY <1>1, <1>5 DEF h, D

IsTree(t) == t = [q \in DOMAIN t |-> t[q]]
EditedAt(tree, place) ==
    [q \in DOMAIN tree \cup {place[at] : at \in doc.edits} |->
        IF \E at \in doc.edits : q = place[at] THEN "edited" ELSE tree[q]]

\* The fold over the edits of a document writes each of them at its place.
LEMMA EditsIs ==
  ASSUME DocTypes, NEW tree, NEW place, IsTree(tree)
  PROVE  WithEdits(tree, place) = EditedAt(tree, place)
  <1> USE DEF IsTree, EditedAt
  <1> DEFINE D == doc.edits
             Of(s) == {place[at] : at \in s}
             step(g) == [s \in SUBSET D |-> IF s = {} THEN tree
                           ELSE WithFile(g[s \ {CHOOSE x \in s : TRUE}], place[CHOOSE x \in s : TRUE], "edited")]
             h == [s \in SUBSET D |-> [q \in DOMAIN tree \cup Of(s) |-> IF q \in Of(s) THEN "edited" ELSE tree[q]]]
             iter == CHOOSE g : g = step(g)
  <1>0. IsFiniteSet(D)
    BY DEF DocTypes
  <1>1. WithEdits(tree, place) = iter[D]
    BY DEF WithEdits, FoldSet, MapThenFoldSet
  <1> HIDE DEF D
  <1>3. h = step(h)
    <2>1. \A s \in SUBSET D : h[s] =
            IF s = {} THEN tree ELSE WithFile(h[s \ {FirstOf(s)}], place[FirstOf(s)], "edited")
      <3> TAKE s \in SUBSET D
      <3>1. CASE s = {}
        BY <3>1
      <3>2. CASE s # {}
        <4>1. FirstOf(s) \in s
          BY <3>2 DEF FirstOf
        <4>2. h[s \ {FirstOf(s)}] = [q \in DOMAIN tree \cup Of(s \ {FirstOf(s)}) |->
                                    IF q \in Of(s \ {FirstOf(s)}) THEN "edited" ELSE tree[q]]
          OBVIOUS
        <4>3. Of(s) = Of(s \ {FirstOf(s)}) \cup {place[FirstOf(s)]}
          BY <4>1
        <4> HIDE DEF h, Of
        <4>4. WithFile(h[s \ {FirstOf(s)}], place[FirstOf(s)], "edited")
                 = [q \in DOMAIN tree \cup Of(s) |-> IF q \in Of(s) THEN "edited" ELSE tree[q]]
          BY <4>2, <4>3 DEF WithFile
        <4> QED
          BY <3>2, <4>4 DEF h
      <3> QED
        BY <3>1, <3>2
    <2>2. h = [s \in SUBSET D |-> h[s]]
      OBVIOUS
    <2> HIDE DEF h
    <2> QED
      BY <2>1, <2>2 DEF FirstOf
  <1>4. iter = step(iter)
    <2> HIDE DEF step, h
    <2> QED
      BY <1>3
  <1> HIDE DEF iter, h
  <1>5. iter[D] = h[D]
    <2>1. SUFFICES ASSUME iter[D] # h[D] PROVE FALSE
      OBVIOUS
    <2>2. PICK t \in SUBSET D : iter[t] # h[t] /\ (t # {} => FirstOf(t) \in t /\ iter[t \ {FirstOf(t)}] = h[t \ {FirstOf(t)}])
      BY <1>0, <2>1, FirstApart
    <2>3. /\ iter[t] = IF t = {} THEN tree ELSE WithFile(iter[t \ {FirstOf(t)}], place[FirstOf(t)], "edited")
          /\ h[t] = IF t = {} THEN tree ELSE WithFile(h[t \ {FirstOf(t)}], place[FirstOf(t)], "edited")
      BY <1>3, <1>4 DEF FirstOf
    <2> QED
      BY <2>2, <2>3
  <1> QED
    BY <1>1, <1>5 DEF h, D

\* An edit lands where a move carries its path, or stays.
LEMMA LandsIs ==
  ASSUME DocTypes, ~Overlaps, NEW at \in TreePaths
  PROVE  /\ \A i \in DOMAIN doc.members :
               Member(i).kind = "move" /\ AtOrBelow(at, Member(i).from) => Lands(at) = Carried(at, Member(i))
         /\ (\A i \in DOMAIN doc.members :
               ~(Member(i).kind = "move" /\ AtOrBelow(at, Member(i).from))) => Lands(at) = at
  <1> DEFINE carriers == {i \in DOMAIN doc.members : Member(i).kind = "move" /\ AtOrBelow(at, Member(i).from)}
  <1>1. Lands(at) = IF carriers = {} THEN at ELSE Carried(at, Member(CHOOSE i \in carriers : TRUE))
    BY DEF Lands, Member, AtOrBelow
  <1>2. \A i, j \in carriers : i = j
    <2> TAKE i, j \in carriers
    <2>1. Nests(Member(i).from, Member(j).from)
      BY MemberIs, AboveOneNest
    <2> QED
      BY <2>1, MembersApart
  <1>3. ASSUME NEW i \in carriers PROVE (CHOOSE j \in carriers : TRUE) = i
    <2>1. (CHOOSE j \in carriers : TRUE) \in carriers
      OBVIOUS
    <2> QED
      BY <1>2, <2>1
  <1>4. ASSUME NEW i \in carriers PROVE Lands(at) = Carried(at, Member(i))
    BY <1>1, <1>3, <1>4
  <1> QED
    BY <1>1, <1>4

\* An order of the members of an admitted document makes no difference.
LEMMA OneTreeOfMembers ==
  ASSUME DocTypes
  PROVE  MembersMeanOneTree
  <1> SUFFICES ASSUME Admitted, NEW parent \in ParentTrees, NEW order \in AnyOrder
               PROVE  /\ MembersInTurn(order, WithDeletions(parent)) = MembersIn(InOrder, WithDeletions(parent), parent)
                      /\ MembersIn(order, WithDeletions(parent), parent) = MembersIn(InOrder, WithDeletions(parent), parent)
    BY DEF MembersMeanOneTree
  <1> DEFINE cleared == WithDeletions(parent)
  <1>1. ~Overlaps
    BY DEF Admitted
  <1>2. DOMAIN parent \subseteq TreePaths
    BY KnownIsPath DEF KnownPaths
  <1>3. DOMAIN cleared \subseteq TreePaths /\ cleared = [q \in DOMAIN cleared |-> cleared[q]]
    BY <1>2 DEF WithDeletions
  <1> HIDE DEF cleared
  <1>4. InOrder \in AnyOrder
    BY OneOrder
  <1>5. /\ MembersIn(order, cleared, parent) = After(cleared, parent, DOMAIN doc.members)
        /\ MembersIn(InOrder, cleared, parent) = After(cleared, parent, DOMAIN doc.members)
    BY <1>1, <1>2, <1>3, <1>4, MembersInIs
  <1>6. MembersInTurn(order, cleared) = After(cleared, parent, DOMAIN doc.members)
    BY <1>1, <1>2, MembersInTurnIs DEF cleared
  <1> QED
    BY <1>5, <1>6 DEF cleared

\* The tree left by an admitted document whose edits are made first.
LEMMA EditedLeaves ==
  ASSUME DocTypes, Admitted, NEW parent \in ParentTrees, AppliesTo(parent)
  PROVE  LET body == WithEdits(WithFiles(MembersIn(InOrder, WithDeletions(parent), parent)),
                               [at \in doc.edits |-> Lands(at)])
             edited == WithEdits(parent, [at \in doc.edits |-> at])
         IN  body = WithFiles(MembersIn(InOrder, WithDeletions(edited), edited))
  <1> DEFINE D == DOMAIN doc.members
             edited == WithEdits(parent, [at \in doc.edits |-> at])
             cleared == WithDeletions(parent)
             edcleared == WithDeletions(edited)
             tree == After(cleared, parent, D)
             edtree == After(edcleared, edited, D)
             place == [at \in doc.edits |-> Lands(at)]
             Edits(q) == \E at \in doc.edits : q = Lands(at)
  <1>1. ~Overlaps /\ \A at \in doc.edits : ~EditRefused(at)
    BY DEF Admitted
  <1>2. DOMAIN parent \subseteq TreePaths /\ parent = [q \in DOMAIN parent |-> parent[q]]
    BY KnownIsPath, DocAssumption DEF KnownPaths
  <1>3. doc.edits \subseteq DOMAIN parent
    BY DEF AppliesTo
  <1>4. /\ edited = [q \in DOMAIN edited |-> edited[q]] /\ DOMAIN edited = DOMAIN parent
        /\ \A q \in DOMAIN parent : edited[q] = IF q \in doc.edits THEN "edited" ELSE parent[q]
    <2> DEFINE same == [at \in doc.edits |-> at]
    <2>2. DOMAIN parent \cup {same[at] : at \in doc.edits} = DOMAIN parent
      BY <1>3
    <2>3. \A q : (\E at \in doc.edits : q = same[at]) <=> q \in doc.edits
      OBVIOUS
    <2>4. edited = WithEdits(parent, same)
      OBVIOUS
    <2> HIDE DEF edited, same
    <2>1. edited = [q \in DOMAIN parent \cup {same[at] : at \in doc.edits} |->
                       IF \E at \in doc.edits : q = same[at] THEN "edited" ELSE parent[q]]
      <3>1. IsTree(parent)
        BY <1>2 DEF IsTree
      <3>2. edited = EditedAt(parent, same)
        BY <2>4, <3>1, EditsIs, Zenon
      <3> QED
        BY <3>2, Zenon DEF EditedAt
    <2> QED
      BY <2>1, <2>2, <2>3
  <1>5. /\ DOMAIN cleared \subseteq DOMAIN parent /\ cleared = [q \in DOMAIN cleared |-> cleared[q]]
        /\ \A q \in DOMAIN cleared : cleared[q] = parent[q]
        /\ DOMAIN edcleared = DOMAIN cleared /\ edcleared = [q \in DOMAIN cleared |-> edcleared[q]]
        /\ \A q \in DOMAIN cleared : edcleared[q] = edited[q]
        /\ \A q \in DOMAIN parent : (\A d \in DeletionPaths : ~AtOrBelow(q, d)) => q \in DOMAIN cleared
    <2> HIDE DEF edited
    <2> QED
      BY <1>4 DEF WithDeletions, AtOrBelow
  <1>6. InOrder \in AnyOrder
    BY OneOrder
  <1>7. /\ MembersIn(InOrder, cleared, parent) = tree
        /\ MembersIn(InOrder, edcleared, edited) = edtree
    <2> HIDE DEF edited, cleared, edcleared
    <2> QED
      BY <1>1, <1>2, <1>4, <1>5, <1>6, MembersInIs
  <1>8. /\ DOMAIN tree = Stay(cleared, D) \cup Arrivals(parent, D)
        /\ tree = [q \in DOMAIN tree |-> tree[q]]
        /\ edtree = [q \in DOMAIN tree |-> edtree[q]]
        /\ \A q \in DOMAIN tree : tree[q] = IF q \in Arrivals(parent, D) THEN Brought(parent, D, q) ELSE cleared[q]
        /\ \A q \in DOMAIN tree : edtree[q] = IF q \in Arrivals(parent, D) THEN Brought(edited, D, q) ELSE edcleared[q]
    <2> HIDE DEF edited
    <2>1. \A i : Sources(edited, i) = Sources(parent, i)
      BY <1>4 DEF Sources
    <2>2. Arrivals(edited, D) = Arrivals(parent, D)
      BY <2>1 DEF Arrivals
    <2>3. Stay(edcleared, D) = Stay(cleared, D)
      BY <1>5 DEF Stay
    <2> HIDE DEF D, cleared, edcleared, edited
    <2> QED
      BY <2>2, <2>3 DEF After
  <1>9. \A at \in doc.edits : at \in TreePaths /\ Lands(at) \notin FilePaths
    BY <1>1, <1>2, <1>3 DEF EditRefused
  <1> HIDE DEF edited, cleared, edcleared, tree, edtree, D
  \* An edit carried arrives, and one that is not stays.
  <1>10. ASSUME NEW at \in doc.edits
         PROVE  \/ \E i \in D : /\ Member(i).kind = "move" /\ at \in Sources(parent, i)
                                /\ Lands(at) = Carried(at, Member(i)) /\ Lands(at) \in Arrivals(parent, D)
                \/ /\ Lands(at) = at /\ at \in Stay(cleared, D)
                   /\ \A i \in D : ~(Member(i).kind = "move" /\ AtOrBelow(at, Member(i).from))
    <2>1. CASE \E i \in D : Member(i).kind = "move" /\ AtOrBelow(at, Member(i).from)
      <3>1. PICK i \in D : Member(i).kind = "move" /\ AtOrBelow(at, Member(i).from)
        BY <2>1
      <3>2. Lands(at) = Carried(at, Member(i))
        BY <1>1, <1>9, <3>1, LandsIs DEF D
      <3>3. at \in Sources(parent, i)
        BY <1>3, <3>1 DEF Sources
      <3> QED
        BY <3>1, <3>2, <3>3 DEF Arrivals
    <2>2. CASE \A i \in D : ~(Member(i).kind = "move" /\ AtOrBelow(at, Member(i).from))
      <3>1. Lands(at) = at
        BY <1>1, <1>9, <2>2, LandsIs DEF D
      <3>2. \A d \in DeletionPaths : ~AtOrBelow(at, d)
        BY <1>1 DEF EditRefused, Nests, AtOrBelow
      <3> QED
        BY <1>3, <1>5, <2>2, <3>1, <3>2 DEF Stay
    <2> QED
      BY <2>1, <2>2
  \* What arrives is edited where its source is, and nowhere else.
  <1>11. ASSUME NEW q \in Arrivals(parent, D)
         PROVE  Brought(edited, D, q) = IF Edits(q) THEN "edited" ELSE Brought(parent, D, q)
    <2>1. PICK i \in D : \E p \in Sources(parent, i) : q = Carried(p, Member(i))
      BY ArrivalIs
    <2>2. PICK p \in Sources(parent, i) : q = Carried(p, Member(i))
      BY <2>1
    <2>3. /\ Brought(parent, D, q) = parent[p] /\ AtOrBelow(q, Member(i).to) /\ Brought(edited, D, q) = edited[p]
          /\ \A j \in D : \A r \in Sources(parent, j) : Carried(r, Member(j)) = q => j = i /\ r = p
      <3>1. p \in Sources(edited, i)
        BY <1>4 DEF Sources
      <3> QED
        BY <1>1, <1>2, <1>4, <2>2, <3>1, BroughtIs DEF D
    <2>4. p \in DOMAIN parent /\ AtOrBelow(p, Member(i).from) /\ p \in TreePaths
          /\ Member(i).from \in TreePaths /\ Member(i).to \in TreePaths
      BY <1>2, MemberIs DEF Sources, D
    <2>5. p \in doc.edits => Edits(q)
      <3> HAVE p \in doc.edits
      <3>1. ~EditRefused(p)
        BY <1>1
      <3>2. Nests(p, Member(i).from)
        BY <2>4 DEF Nests, AtOrBelow
      <3>3. Member(i).kind = "move"
        BY <3>1, <3>2, MemberIs DEF EditRefused, Member, D
      <3>4. Lands(p) = q
        BY <1>1, <2>2, <2>4, <3>3, LandsIs DEF D
      <3> QED
        BY <3>4
    <2>6. Edits(q) => p \in doc.edits
      <3> HAVE Edits(q)
      <3>1. PICK at \in doc.edits : q = Lands(at)
        OBVIOUS
      <3>2. CASE \E j \in D : at \in Sources(parent, j) /\ Lands(at) = Carried(at, Member(j))
        BY <2>3, <3>1, <3>2
      <3>3. CASE Lands(at) = at
        <4>1. Nests(at, Member(i).to)
          BY <2>3, <3>1, <3>3 DEF Nests, AtOrBelow
        <4> QED
          BY <1>1, <4>1 DEF EditRefused, Member, D
      <3> QED
        BY <1>10, <3>2, <3>3
    <2> QED
      BY <1>4, <2>3, <2>4, <2>5, <2>6
  \* What stays is edited where it stands.
  <1>12. ASSUME NEW q \in Stay(cleared, D), q \notin Arrivals(parent, D)
         PROVE  edcleared[q] = IF Edits(q) THEN "edited" ELSE cleared[q]
    <2>1. q \in DOMAIN cleared /\ q \in DOMAIN parent
      BY <1>5 DEF Stay
    <2>2. q \in doc.edits => Edits(q)
      <3> HAVE q \in doc.edits
      <3>1. \A i \in D : ~(Member(i).kind = "move" /\ AtOrBelow(q, Member(i).from))
        BY DEF Stay
      <3>2. Lands(q) = q
        BY <1>1, <1>9, <3>1, LandsIs DEF D
      <3> QED
        BY <3>2
    <2>3. Edits(q) => q \in doc.edits
      BY <1>10, <1>12
    <2> QED
      BY <1>4, <1>5, <2>1, <2>2, <2>3
  <1>13. \A q \in DOMAIN tree : edtree[q] = IF Edits(q) THEN "edited" ELSE tree[q]
    <2> HIDE DEF Edits
    <2> QED
      BY <1>8, <1>11, <1>12
  <1>14. \A at \in doc.edits : Lands(at) \in DOMAIN tree
    BY <1>8, <1>10
  <1>15. WithFiles(edtree) = [q \in DOMAIN tree \cup FilePaths |-> IF q \in FilePaths THEN "file" ELSE edtree[q]]
    <2>1. DOMAIN edtree = DOMAIN tree /\ edtree = [q \in DOMAIN edtree |-> edtree[q]]
      BY <1>8
    <2> QED
      BY <2>1, FilesIs
  <1> DEFINE filed == WithFiles(tree)
  <1>16. filed = [q \in DOMAIN tree \cup FilePaths |-> IF q \in FilePaths THEN "file" ELSE tree[q]]
    BY <1>8, FilesIs
  <1> HIDE DEF filed
  <1>17. WithEdits(filed, place) =
           [q \in DOMAIN tree \cup FilePaths |-> IF Edits(q) THEN "edited" ELSE filed[q]]
    <2>1. DOMAIN filed = DOMAIN tree \cup FilePaths /\ filed = [q \in DOMAIN filed |-> filed[q]]
      BY <1>16
    <2>3. DOMAIN filed \cup {place[at] : at \in doc.edits} = DOMAIN tree \cup FilePaths
      BY <1>14, <2>1
    <2>4. \A q : (\E at \in doc.edits : q = place[at]) <=> Edits(q)
      OBVIOUS
    <2> HIDE DEF Edits, place
    <2>2. WithEdits(filed, place) =
            [q \in DOMAIN filed \cup {place[at] : at \in doc.edits} |->
               IF \E at \in doc.edits : q = place[at] THEN "edited" ELSE filed[q]]
      <3>1. IsTree(filed)
        BY <2>1 DEF IsTree
      <3>2. WithEdits(filed, place) = EditedAt(filed, place)
        BY <3>1, EditsIs, Zenon
      <3> QED
        BY <3>2, Zenon DEF EditedAt
    <2> QED
      BY <2>2, <2>3, <2>4
  <1>18. \A q \in DOMAIN tree \cup FilePaths :
           (IF Edits(q) THEN "edited" ELSE filed[q]) = IF q \in FilePaths THEN "file" ELSE edtree[q]
    <2>1. \A q \in FilePaths : ~Edits(q)
      BY <1>9
    <2> HIDE DEF Edits
    <2> QED
      BY <1>13, <1>16, <2>1
  <1>19. WithEdits(filed, place) = WithFiles(edtree)
    <2> HIDE DEF Edits, place
    <2> QED
      BY <1>15, <1>17, <1>18
  <1> QED
    BY <1>7, <1>19 DEF filed, edited, cleared, edcleared

(***************************************************************************)
(* The changeset document, entry by entry.                                 *)
(***************************************************************************)
LEMMA DocStarts == DocInit => DocTypes
  BY FS_EmptySet DEF DocInit, EmptyDoc, DocTypes, Documents

\* And an entry more leaves a document one.
LEMMA DocSteps == DocTypes /\ [DocNext]_docVars => DocTypes'
  <1> SUFFICES ASSUME DocTypes, [DocNext]_docVars PROVE DocTypes'
    OBVIOUS
  <1> DEFINE T == [kind : {"move", "copy"}, from : DocPaths, to : DocPaths]
  <1>0. /\ doc.members \in Seq(T) /\ doc.deletions \in SUBSET TypedPaths /\ doc.files \in SUBSET TypedPaths
        /\ doc.edits \in SUBSET DocPaths /\ IsFiniteSet(doc.files) /\ IsFiniteSet(doc.edits)
        /\ DOMAIN doc = {"members", "deletions", "files", "edits"}
        /\ doc = [k \in DOMAIN doc |-> doc[k]]
    BY DEF DocTypes, Documents
  <1>1. ASSUME NEW kind \in {"move", "copy"}, NEW from \in DocPaths, NEW to \in DocPaths,
               doc' = [doc EXCEPT !.members = Append(@, [kind |-> kind, from |-> from, to |-> to])]
        PROVE  DocTypes'
    <2>1. [kind |-> kind, from |-> from, to |-> to] \in T
      OBVIOUS
    <2> HIDE DEF T
    <2>2. Append(doc.members, [kind |-> kind, from |-> from, to |-> to]) \in Seq(T)
      BY <1>0, <2>1
    <2>3. /\ doc'.members \in Seq(T) /\ doc'.deletions = doc.deletions
          /\ doc'.files = doc.files /\ doc'.edits = doc.edits
      BY <1>0, <1>1, <2>2
    <2>4. doc' \in [members : Seq(T), deletions : SUBSET TypedPaths, files : SUBSET TypedPaths, edits : SUBSET DocPaths]
      BY <1>0, <1>1, <2>2
    <2> QED
      BY <1>0, <2>3, <2>4 DEF DocTypes, Documents, T
  <1>2. ASSUME NEW typed \in TypedPaths, doc' = [doc EXCEPT !.deletions = @ \cup {typed}]
        PROVE  DocTypes'
    BY <1>2 DEF DocTypes, Documents
  <1>3. ASSUME NEW typed \in TypedPaths, doc' = [doc EXCEPT !.files = @ \cup {typed}]
        PROVE  DocTypes'
    <2>1. IsFiniteSet(doc.files \cup {typed})
      BY <1>0, FS_AddElement
    <2> QED
      BY <1>3, <2>1 DEF DocTypes, Documents
  <1>4. ASSUME NEW at \in DocPaths, doc' = [doc EXCEPT !.edits = @ \cup {at}]
        PROVE  DocTypes'
    <2>1. IsFiniteSet(doc.edits \cup {at})
      BY <1>0, FS_AddElement
    <2> QED
      BY <1>4, <2>1 DEF DocTypes, Documents
  <1>5. CASE UNCHANGED docVars
    BY <1>5 DEF docVars, DocTypes
  <1> QED
    BY <1>1, <1>2, <1>3, <1>4, <1>5 DEF DocNext, AddMember, AddDeletion, AddFile, AddEdit

(* An admitted document means one tree whatever the order its moves and     *)
(* copies are made in, and an edit follows its file, for every document of  *)
(* any length and every tree of its parent (write/mod.rs 345 to 425,        *)
(* commit_edits.rs 105 to 215).                                             *)
THEOREM DocumentsMeanOneTree == DocSpec => []DocumentMeansOneTree
  <1>1. DocTypes => DocumentMeansOneTree
    BY OneTreeOfMembers, EditedLeaves DEF DocumentMeansOneTree, EditsMoveWithTheirFile
  <1> QED
    BY <1>1, DocStarts, DocSteps, PTL DEF DocSpec
=============================================================================

----------------------- MODULE OsCustomization_proofs -----------------------
(***************************************************************************)
(* OS customizations, for every set of RPM sources, kernels, base images   *)
(* and configuration chains, and for any number of runs.                   *)
(*                                                                         *)
(* The package step: RpmMountsHaveDirectory is not inductive: a source may *)
(* be mounted only at a step at which the directory exists, and a run may  *)
(* only start over, with nothing mounted, when no package step is under    *)
(* way (RpmInv).  What the operations leave in the image is closed step by *)
(* step (FlowInv), so that outside of them nothing is held (PackagesInv).  *)
(*                                                                         *)
(* The image: the properties speak of the end of a run; the invariant      *)
(* (ImageInv) says, for each position in Steps, what already holds there.  *)
(***************************************************************************)
EXTENDS OsCustomization, TLAPS, WellFoundedInduction

\* The fields that close and mountRpmSources look at.
ReposTyped ==
    repos \in [dir : BOOLEAN, created : BOOLEAN, opened : SUBSET RpmSources,
               mounted : SUBSET RpmSources, allRepos : BOOLEAN]

\* While sources are being mounted their directory is there.
MountStepHasDirectory == pkgStep = "mount" => repos.dir

\* Packages are managed only while a run is under way.
PackagesOnlyInRun == result # "running" => pkgStep = "idle"

RpmInv == ReposTyped /\ RpmMountsHaveDirectory /\ MountStepHasDirectory /\ PackagesOnlyInRun

-----------------------------------------------------------------------------
(* The order of the package operations.                                     *)

\* The four operations, in their order.
LEMMA OpsInOrderValues ==
    /\ OpsInOrder[1] = "remove" /\ OpsInOrder[2] = "updateExisting"
    /\ OpsInOrder[3] = "install" /\ OpsInOrder[4] = "update"
BY DEF OpsInOrder

\* After an operation comes another one, or the close of the RPM sources.
LEMMA OpAfterRange ==
    ASSUME NEW c, NEW i \in 0..4
    PROVE  OpAfter(c, i) \in PackageOps \union {"close"}
<1> DEFINE later == {j \in (i + 1)..4 : OpsInOrder[j] \in c.ops}
<1>1. CASE later = {}
  BY <1>1 DEF OpAfter
<1>2. CASE later # {}
  <2>1. later \subseteq 1..4
    OBVIOUS
  <2>2. \E j \in later : \A k \in later : j <= k
    <3>1. CASE 1 \in later
      BY <2>1, <3>1
    <3>2. CASE 1 \notin later /\ 2 \in later
      BY <2>1, <3>2
    <3>3. CASE 1 \notin later /\ 2 \notin later /\ 3 \in later
      BY <2>1, <3>3
    <3>4. CASE later = {4}
      BY <3>4
    <3> QED
      BY <1>2, <2>1, <3>1, <3>2, <3>3, <3>4
  <2> DEFINE first == CHOOSE j \in later : \A k \in later : j <= k
  <2>3. first \in 1..4
    BY <2>1, <2>2
  <2>4. OpsInOrder[first] \in PackageOps
    <3>1. first = 1 \/ first = 2 \/ first = 3 \/ first = 4
      BY <2>3
    <3> HIDE DEF first
    <3> QED
      BY <3>1, OpsInOrderValues DEF PackageOps
  <2>5. OpAfter(c, i) = OpsInOrder[first]
    BY <1>2 DEF OpAfter
  <2> QED
    BY <2>4, <2>5
<1> QED
  BY <1>1, <1>2

\* Every operation has its position.
LEMMA PositionRange ==
    ASSUME NEW op \in PackageOps
    PROVE  PositionOf(op) \in 1..4
<1>1. \E i \in 1..4 : OpsInOrder[i] = op
  BY OpsInOrderValues DEF PackageOps
<1> QED
  BY <1>1 DEF PositionOf

\* Neither an operation nor a failure leads to the mounting of sources.
LEMMA NeverBackToMount ==
    /\ "mount" \notin PackageOps \union {"close"}
    /\ DeferredFrom # "mount"
BY DEF PackageOps, DeferredFrom

-----------------------------------------------------------------------------
(* rpmSourcesMounts.close.                                                  *)

\* Whatever cannot be removed, close leaves the directory of a mount that it leaves.
LEMMA ClosedKeepsDirectory ==
    ASSUME ReposTyped, RpmMountsHaveDirectory, NEW failing, repos' = Closed(repos, failing)
    PROVE  ReposTyped' /\ RpmMountsHaveDirectory'
<1> DEFINE stuck == repos.mounted \intersect failing
           errs == stuck # {} \/ (repos.allRepos /\ "allrepos" \in failing)
           removed == ~errs /\ repos.created /\ "dir" \notin failing
<1>1. repos' = [repos EXCEPT !.allRepos = repos.allRepos /\ "allrepos" \in failing,
                             !.mounted = stuck,
                             !.dir = repos.dir /\ ~removed,
                             !.created = repos.created /\ ~removed]
  BY DEF Closed
<1>2. stuck \in SUBSET RpmSources
  BY DEF ReposTyped
<1>3. (repos.dir /\ ~removed) \in BOOLEAN /\ (repos.created /\ ~removed) \in BOOLEAN
      /\ (repos.allRepos /\ "allrepos" \in failing) \in BOOLEAN
  OBVIOUS
<1>4. stuck # {} => ~removed /\ repos.dir
  BY DEF RpmMountsHaveDirectory
<1> HIDE DEF stuck, removed
<1>5. ReposTyped'
  BY <1>1, <1>2, <1>3 DEF ReposTyped
<1>6. repos'.mounted = stuck /\ repos'.dir = (repos.dir /\ ~removed)
  BY <1>1 DEF ReposTyped
<1> QED
  BY <1>4, <1>5, <1>6 DEF RpmMountsHaveDirectory

-----------------------------------------------------------------------------
(* Steps.                                                                   *)

\* A step that leaves managePackages alone.
LEMMA OtherStepsKeep ==
    ASSUME RpmInv, UNCHANGED pkgVars, UNCHANGED result \/ pkgStep = "idle"
    PROVE  RpmInv'
BY DEF RpmInv, ReposTyped, RpmMountsHaveDirectory, MountStepHasDirectory, PackagesOnlyInRun, pkgVars

\* A step of managePackages that leaves the mounts alone and does not go to "mount".
LEMMA ReposStay ==
    ASSUME ReposTyped, RpmMountsHaveDirectory, UNCHANGED repos, pkgStep' # "mount"
    PROVE  (ReposTyped /\ RpmMountsHaveDirectory /\ MountStepHasDirectory)'
BY DEF ReposTyped, RpmMountsHaveDirectory, MountStepHasDirectory

\* Every step of managePackages but the package operations.
LEMMA PackageStepKeeps ==
    ASSUME RpmInv, PackageStep
    PROVE  (ReposTyped /\ RpmMountsHaveDirectory /\ MountStepHasDirectory)'
<1> USE DEF RpmInv
<1>1. OpAfter(pkgCfg, 0) # "mount"
  BY OpAfterRange, NeverBackToMount
<1>2. CASE configureSnapshotTime
  <2>1. UNCHANGED repos /\ pkgStep' # "mount"
    BY <1>1, <1>2 DEF configureSnapshotTime, Goto
  <2> QED
    BY <2>1, ReposStay
<1>3. CASE mountRpmSourcesHelper
  <2>1. CASE ~repos.dir /\ repos' = [repos EXCEPT !.dir = TRUE, !.created = TRUE]
    BY <2>1 DEF ReposTyped, RpmMountsHaveDirectory, MountStepHasDirectory
  <2>2. CASE pkgStep' = "undo" /\ UNCHANGED repos
    BY <2>2, ReposStay
  <2> QED
    BY <1>3, <2>1, <2>2 DEF mountRpmSourcesHelper
<1>4. CASE \E source \in RpmSources : mountRpmsSource(source)
  <2> PICK source \in RpmSources : mountRpmsSource(source)
    BY <1>4
  <2>1. repos.dir
    BY DEF mountRpmsSource, MountStepHasDirectory
  <2>2. repos' = [repos EXCEPT !.opened = repos.opened \union {source},
                               !.mounted = repos.mounted \union {source}]
    BY DEF mountRpmsSource
  <2> QED
    BY <2>1, <2>2 DEF ReposTyped, RpmMountsHaveDirectory, MountStepHasDirectory
<1>5. CASE mountRpmSources
  <2>1. \E written \in BOOLEAN : repos' = [repos EXCEPT !.allRepos = written]
    BY <1>5 DEF mountRpmSources
  <2>2. PICK written \in BOOLEAN : repos' = [repos EXCEPT !.allRepos = written]
    BY <2>1
  <2>3. pkgStep' # "mount"
    BY <1>5 DEF mountRpmSources, Goto
  <2> QED
    BY <2>2, <2>3 DEF ReposTyped, RpmMountsHaveDirectory, MountStepHasDirectory
<1>6. CASE setupServicePrevention
  <2>1. UNCHANGED repos /\ pkgStep' # "mount"
    BY <1>6, NeverBackToMount DEF setupServicePrevention, Goto, Fail
  <2> QED
    BY <2>1, ReposStay
<1>7. CASE refreshRpmPackageMetadata \/ refreshDebPackageMetadata
  <2>1. UNCHANGED repos /\ pkgStep' # "mount"
    BY <1>1, <1>7, NeverBackToMount
       DEF refreshRpmPackageMetadata, refreshDebPackageMetadata, Goto, Fail
  <2> QED
    BY <2>1, ReposStay
<1>8. CASE close
  <2>1. pkgStep' # "mount"
    BY <1>8 DEF close, Goto
  <2>2. CASE repos.created
    <3> PICK failing \in CloseFailures(repos) : repos' = Closed(repos, failing)
      BY <1>8, <2>2 DEF close
    <3> QED
      BY <2>1, ClosedKeepsDirectory DEF MountStepHasDirectory
  <2>3. CASE ~repos.created
    <3>1. UNCHANGED repos
      BY <1>8, <2>3 DEF close
    <3> QED
      BY <2>1, <3>1, ReposStay
  <2> QED
    BY <2>2, <2>3
<1>9. CASE mountRpmSourcesUndo \/ deferredClose
  <2>1. pkgStep' # "mount"
    BY <1>9 DEF mountRpmSourcesUndo, deferredClose, Goto
  <2> PICK failing \in CloseFailures(repos) : repos' = Closed(repos, failing)
    BY <1>9 DEF mountRpmSourcesUndo, deferredClose
  <2> QED
    BY <2>1, ClosedKeepsDirectory DEF MountStepHasDirectory
<1>10. CASE cleanRpmCache \/ cleanDebCache
  <2>1. UNCHANGED repos /\ pkgStep' # "mount"
    BY <1>10, NeverBackToMount DEF cleanRpmCache, cleanDebCache, Goto, Fail
  <2> QED
    BY <2>1, ReposStay
<1>11. CASE teardownServicePrevention \/ cleanupSnapshotTimeConfig
  <2>1. UNCHANGED repos /\ pkgStep' # "mount"
    BY <1>11, NeverBackToMount DEF teardownServicePrevention, cleanupSnapshotTimeConfig, Goto, Fail
  <2> QED
    BY <2>1, ReposStay
<1> QED
  BY <1>2, <1>3, <1>4, <1>5, <1>6, <1>7, <1>8, <1>9, <1>10, <1>11 DEF PackageStep

\* The operations of tdnf, dnf and apt-get.
LEMMA PackageOperationKeeps ==
    ASSUME RpmInv, PackageOperation
    PROVE  (ReposTyped /\ RpmMountsHaveDirectory /\ MountStepHasDirectory)'
<1>1. pkgStep \in PackageOps /\ UNCHANGED repos
  BY DEF PackageOperation, RpmPackageOperation, DebPackageOperation
<1>2. PositionOf(pkgStep) \in 0..4
  BY <1>1, PositionRange
<1>3. OpAfter(pkgCfg, PositionOf(pkgStep)) # "mount"
  BY <1>2, OpAfterRange, NeverBackToMount
<1>4. pkgStep' # "mount"
  BY <1>3, NeverBackToMount
     DEF PackageOperation, RpmPackageOperation, DebPackageOperation, Goto, Fail
<1> QED
  BY <1>1, <1>4, ReposStay DEF RpmInv

\* The steps of doOsCustomizations that do not manage packages, and their failures.
OtherStep ==
    \/ SetupEtcOverlay \/ overrideResolvConf \/ ExtractUkis \/ PackagesDone
    \/ KernelCheck \/ UpdateHostname \/ AddOrUpdateUsers \/ copyAdditionalDirs \/ copyAdditionalFiles
    \/ EnableOrDisableServices \/ LoadOrDisableModules \/ addCustomizerRelease \/ addImageHistory
    \/ hardResetBootLoader \/ AddKernelCommandLine \/ keepSELinux \/ handleSELinux
    \/ enableOverlays \/ enableVerityPartition \/ regenerateInitramfs \/ runUserScripts
    \/ prepareUki \/ removeOsPackageManager \/ restoreResolvConf \/ selinuxSetFiles
    \/ FinalizeEtcOverlay \/ CheckForInstalledKernel \/ customizeVerityImage

\* They go on to the next step.
LEMMA OtherStepsAdvance == OtherStep => Advance
<1>1. ASSUME NEW im, Becomes(im) PROVE Advance
  BY <1>1 DEF Becomes
<1>2. SetupEtcOverlay \/ overrideResolvConf \/ ExtractUkis \/ PackagesDone \/ KernelCheck
      \/ UpdateHostname \/ AddOrUpdateUsers \/ copyAdditionalDirs => Advance
  BY <1>1 DEF SetupEtcOverlay, overrideResolvConf, ExtractUkis, PackagesDone, KernelCheck,
             UpdateHostname, AddOrUpdateUsers, copyAdditionalDirs
<1>3. copyAdditionalFiles \/ EnableOrDisableServices \/ LoadOrDisableModules
      \/ addCustomizerRelease \/ addImageHistory => Advance
  BY <1>1 DEF copyAdditionalFiles, EnableOrDisableServices, LoadOrDisableModules,
             addCustomizerRelease, addImageHistory
<1>4. hardResetBootLoader \/ AddKernelCommandLine \/ keepSELinux \/ handleSELinux
      \/ enableOverlays \/ enableVerityPartition \/ regenerateInitramfs \/ runUserScripts => Advance
  BY <1>1 DEF hardResetBootLoader, AddKernelCommandLine, keepSELinux, handleSELinux,
             enableOverlays, enableVerityPartition, regenerateInitramfs, runUserScripts
<1>5. prepareUki \/ removeOsPackageManager \/ restoreResolvConf \/ selinuxSetFiles
      \/ FinalizeEtcOverlay \/ CheckForInstalledKernel \/ customizeVerityImage => Advance
  BY <1>1 DEF prepareUki, removeOsPackageManager, restoreResolvConf, selinuxSetFiles,
             FinalizeEtcOverlay, CheckForInstalledKernel, customizeVerityImage
<1> QED
  BY <1>2, <1>3, <1>4, <1>5 DEF OtherStep

\* They leave managePackages alone.
LEMMA OtherStepsLeavePackages == OtherStep => UNCHANGED pkgVars /\ UNCHANGED result
BY OtherStepsAdvance DEF Advance, pkgVars

\* Initially nothing is mounted.
LEMMA RpmInvInit == Init => RpmInv
BY DEF Init, PkgInit, ReposClosed, RpmInv, ReposTyped, RpmMountsHaveDirectory,
       MountStepHasDirectory, PackagesOnlyInRun

\* Every step keeps the invariant.
LEMMA RpmInvNext == RpmInv /\ [Next]_vars => RpmInv'
<1> SUFFICES ASSUME RpmInv, [Next]_vars PROVE RpmInv'
  OBVIOUS
<1>1. CASE OtherStep
  BY <1>1, OtherStepsLeavePackages, OtherStepsKeep
<1>2. CASE StartPackages
  <2>1. pkgStep' # "mount"
    BY <1>2, OpAfterRange, NeverBackToMount DEF StartPackages, ManagePackages
  <2>2. UNCHANGED result /\ repos' = [repos EXCEPT !.created = FALSE, !.opened = {}]
    BY <1>2 DEF StartPackages, ManagePackages
  <2>3. result = "running"
    BY <1>2 DEF StartPackages, AtStep
  <2>4. ReposTyped' /\ RpmMountsHaveDirectory'
    BY <2>2 DEF RpmInv, ReposTyped, RpmMountsHaveDirectory
  <2> QED
    BY <2>1, <2>2, <2>3, <2>4 DEF RpmInv, PackagesOnlyInRun, MountStepHasDirectory
<1>3. CASE PackageManagement
  <2>1. PackagesOnlyInRun'
    BY <1>3 DEF PackageManagement, PackagesOnlyInRun
  <2> QED
    BY <1>3, <2>1, PackageStepKeeps DEF PackageManagement, RpmInv
<1>4. CASE RunPackageOperation
  <2>1. PackagesOnlyInRun'
    BY <1>4 DEF RunPackageOperation, PackagesOnlyInRun
  <2> QED
    BY <1>4, <2>1, PackageOperationKeeps DEF RunPackageOperation, RpmInv
<1>5. CASE createUki
  <2>1. UNCHANGED pkgVars /\ pkgStep = "idle"
    BY <1>5 DEF createUki, AtStep, pkgVars
  <2> QED
    BY <2>1, OtherStepsKeep
<1>6. CASE StepFails
  <2>1. UNCHANGED pkgVars /\ pkgStep = "idle"
    BY <1>6 DEF StepFails, Abort, pkgVars
  <2> QED
    BY <2>1, OtherStepsKeep
<1>7. CASE \E chain \in Chains : NextRun(chain)
  <2>1. repos' = ReposClosed /\ UNCHANGED pkgStep /\ result # "running"
    BY <1>7 DEF NextRun
  <2>2. pkgStep = "idle"
    BY <2>1 DEF RpmInv, PackagesOnlyInRun
  <2> QED
    BY <2>1, <2>2 DEF ReposClosed, RpmInv, ReposTyped, RpmMountsHaveDirectory,
                      MountStepHasDirectory, PackagesOnlyInRun
<1>8. CASE Finished \/ UNCHANGED vars
  <2>1. UNCHANGED pkgVars /\ UNCHANGED result
    BY <1>8 DEF Finished, vars, osVars
  <2> QED
    BY <2>1, OtherStepsKeep
<1> QED
  BY <1>1, <1>2, <1>3, <1>4, <1>5, <1>6, <1>7, <1>8 DEF Next, OtherStep

\* rpmSourcesMounts.close, whichever of its three callers runs it and whatever it cannot
\* remove, never deletes the directory in which a source is still mounted, and no source
\* is mounted where the directory is not.
THEOREM RpmMountsKeepDirectory == Spec => []RpmMountsHaveDirectory
<1>1. RpmInv => RpmMountsHaveDirectory
  BY DEF RpmInv
<1> QED
  BY <1>1, RpmInvInit, RpmInvNext, PTL DEF Spec

-----------------------------------------------------------------------------
(* What managePackages leaves behind.                                       *)

\* Of the RPM sources nothing is in the chroot.
ReposClean == ~repos.dir /\ ~repos.created /\ repos.mounted = {} /\ ~repos.allRepos

NothingHeld == ReposClean /\ guards = NoGuards

ServiceGuards == {"policy-rc.d", "start-stop-daemon"}

\* Each flow stays in its own steps.
RightFlow ==
    /\ pkgStep \in PkgSteps
    /\ pkgStep \in {"snapshot", "mkdir", "mount", "undo", "deferClose", "deferSnapshot"} =>
          pkgCfg.manager # "apt"
    /\ pkgStep \in {"setup", "teardown"} => pkgCfg.manager = "apt" /\ needPackageSources(pkgCfg)

\* A directory that rpmSourcesMounts does not own, it has not made.
OwnedDirectory ==
    /\ pkgStep # "idle" /\ ~repos.created => ReposClean
    /\ pkgStep = "mount" => repos.created

CleanSteps == pkgStep \in {"snapshot", "setup", "mkdir", "clean"} => ReposClean

\* What a close could not remove is reported.
ErrorsKept ==
    /\ pkgStep = "undo" => pkgErr
    /\ pkgStep \in {"deferClose", "deferSnapshot"} => pkgErr \/ ReposClean

\* The guards of the two flows, and when there are none.
GuardsByFlow ==
    /\ pkgStep \in {"snapshot", "setup"} => guards = NoGuards
    /\ pkgStep # "idle" /\ pkgCfg.manager # "apt" => guards \subseteq {"custom-tdnf.conf"}
    /\ pkgStep # "idle" /\ pkgCfg.manager = "apt" =>
          /\ ReposClean
          /\ guards \subseteq ServiceGuards
          /\ ~needPackageSources(pkgCfg) => guards = NoGuards

FlowInv == RightFlow /\ OwnedDirectory /\ CleanSteps /\ ErrorsKept /\ GuardsByFlow

\* Between the configuration files, and at the end of a run that succeeded.
HeldOnlyByPackages == result # "failed" /\ pkgStep = "idle" => NothingHeld

PackagesInv == RpmInv /\ FlowInv /\ HeldOnlyByPackages

\* A step of a flow, or its end.
FlowGoesOn == FlowInv' /\ (pkgStep' = "idle" => pkgErr' \/ NothingHeld')

\* close removes what rpmSourcesMounts made, or reports that it could not.
LEMMA ClosedOwned ==
    ASSUME ReposTyped, OwnedDirectory, pkgStep # "idle", NEW failing, repos' = Closed(repos, failing)
    PROVE  /\ ~repos'.created => ReposClean'
           /\ ReposClean => ReposClean'
           /\ ~CloseReturnsError(repos, failing) => ReposClean'
<1> DEFINE stuck == repos.mounted \intersect failing
           kept == repos.allRepos /\ "allrepos" \in failing
           removed == ~(stuck # {} \/ kept) /\ repos.created /\ "dir" \notin failing
<1>1. repos' = [repos EXCEPT !.allRepos = kept, !.mounted = stuck,
                             !.dir = repos.dir /\ ~removed,
                             !.created = repos.created /\ ~removed]
  BY DEF Closed
<1>2. /\ repos'.allRepos = kept /\ repos'.mounted = stuck
      /\ repos'.dir = (repos.dir /\ ~removed) /\ repos'.created = (repos.created /\ ~removed)
  BY <1>1 DEF ReposTyped
<1>3. removed => ~kept /\ stuck = {}
  OBVIOUS
<1>4. ReposClean => ~kept /\ stuck = {} /\ ~repos.dir /\ ~repos.created
  BY DEF ReposClean
<1>5. ~repos.created => ReposClean
  BY DEF OwnedDirectory
<1>6. CloseReturnsError(repos, failing) <=> repos'.allRepos \/ repos'.mounted # {} \/ repos'.created
  BY DEF CloseReturnsError
<1> HIDE DEF stuck, kept, removed
<1>7. ReposClean => ReposClean'
  BY <1>2, <1>4 DEF ReposClean
<1>8. ~repos'.created => ReposClean'
  <2>1. CASE ~repos.created
    BY <1>5, <1>7, <2>1
  <2>2. CASE removed
    BY <1>2, <1>3, <2>2 DEF ReposClean
  <2> QED
    BY <1>2, <2>1, <2>2
<1> QED
  BY <1>6, <1>7, <1>8

\* On to a package operation or to close, with the guards of the flow.
LEMMA FlowToOperation ==
    ASSUME FlowInv, pkgStep # "idle", pkgStep' \in PackageOps \union {"close", "refresh"},
           UNCHANGED <<pkgCfg, repos>>,
           \/ UNCHANGED guards
           \/ pkgStep = "snapshot" /\ guards' = guards \union {"custom-tdnf.conf"}
           \/ pkgStep = "setup" /\ guards' = guards \union ServiceGuards
    PROVE  FlowGoesOn
<1> USE DEF PackageOps
<1>1. RightFlow' /\ OwnedDirectory' /\ CleanSteps' /\ ErrorsKept'
  BY DEF FlowInv, RightFlow, PkgSteps, OwnedDirectory, CleanSteps, ErrorsKept, ReposClean
<1>2. GuardsByFlow'
  <2>1. CASE UNCHANGED guards
    BY <2>1 DEF FlowInv, GuardsByFlow, ReposClean
  <2>2. CASE pkgStep = "snapshot" /\ guards' = guards \union {"custom-tdnf.conf"}
    <3>1. pkgCfg.manager # "apt" /\ guards = {}
      BY <2>2 DEF FlowInv, RightFlow, GuardsByFlow, NoGuards
    <3> QED
      BY <2>2, <3>1 DEF GuardsByFlow
  <2>3. CASE pkgStep = "setup" /\ guards' = guards \union ServiceGuards
    <3>1. pkgCfg.manager = "apt" /\ needPackageSources(pkgCfg) /\ guards = {} /\ ReposClean
      BY <2>3 DEF FlowInv, RightFlow, GuardsByFlow, NoGuards, CleanSteps
    <3> QED
      BY <2>3, <3>1 DEF GuardsByFlow, ReposClean
  <2> QED
    BY <2>1, <2>2, <2>3
<1> QED
  BY <1>1, <1>2 DEF FlowGoesOn, FlowInv

\* A failure ends the Debian flow, and leads the RPM flow to its deferred calls.
LEMMA FlowFails ==
    ASSUME FlowInv, pkgStep # "idle", Fail, UNCHANGED <<pkgCfg, repos>>,
           pkgCfg.manager # "apt" => UNCHANGED guards
    PROVE  FlowGoesOn
<1>1. CASE pkgCfg.manager = "apt"
  <2>1. pkgStep' = "idle" /\ pkgErr'
    BY <1>1 DEF Fail, DeferredFrom
  <2> QED
    BY <2>1 DEF FlowGoesOn, FlowInv, RightFlow, PkgSteps, OwnedDirectory, CleanSteps, ErrorsKept, GuardsByFlow
<1>2. CASE pkgCfg.manager # "apt"
  <2>1. pkgStep' \in {"deferClose", "deferSnapshot"} /\ pkgErr'
    BY <1>2 DEF Fail, DeferredFrom
  <2> QED
    BY <1>2, <2>1 DEF FlowGoesOn, FlowInv, RightFlow, PkgSteps, OwnedDirectory, CleanSteps, ErrorsKept,
                      GuardsByFlow, ReposClean
<1> QED
  BY <1>1, <1>2

\* The two ends of a flow: with an error, or with nothing left.
LEMMA FlowEnds ==
    ASSUME pkgStep' = "idle", pkgErr' \/ NothingHeld'
    PROVE  FlowGoesOn
BY DEF FlowGoesOn, FlowInv, RightFlow, PkgSteps, OwnedDirectory, CleanSteps, ErrorsKept, GuardsByFlow

\* Between steps of the RPM flow other than those two.
LEMMA RpmFlowGoesOn ==
    ASSUME FlowInv, pkgCfg.manager # "apt", UNCHANGED pkgCfg, pkgStep # "idle",
           pkgStep' \in {"mkdir", "mount", "undo", "clean", "refresh", "deferClose", "deferSnapshot"},
           pkgStep' \in {"mkdir", "clean"} => ReposClean',
           ~repos'.created => ReposClean',
           pkgStep' = "mount" => repos'.created,
           pkgStep' = "undo" => pkgErr',
           pkgStep' \in {"deferClose", "deferSnapshot"} => pkgErr' \/ ReposClean',
           guards' \subseteq {"custom-tdnf.conf"}
    PROVE  FlowGoesOn
<1>1. RightFlow'
  BY DEF RightFlow, PkgSteps
<1>2. OwnedDirectory' /\ CleanSteps' /\ ErrorsKept'
  BY DEF OwnedDirectory, CleanSteps, ErrorsKept
<1>3. GuardsByFlow'
  BY DEF GuardsByFlow
<1> QED
  BY <1>1, <1>2, <1>3 DEF FlowGoesOn, FlowInv

\* Every step of the two flows but the package operations.
LEMMA PackageStepFlows ==
    ASSUME ReposTyped, FlowInv, PackageStep
    PROVE  FlowGoesOn
<1>1. OpAfter(pkgCfg, 0) \in PackageOps \union {"close"}
  BY OpAfterRange
<1>2. CASE configureSnapshotTime
  <2>1. /\ pkgStep = "snapshot" /\ UNCHANGED <<pkgCfg, repos>> /\ pkgCfg.manager # "apt"
        /\ ReposClean /\ guards = {}
    BY <1>2 DEF configureSnapshotTime, FlowInv, RightFlow, CleanSteps, GuardsByFlow, NoGuards
  <2>2. CASE pkgStep' = "mkdir"
    <3>1. guards' \subseteq {"custom-tdnf.conf"} /\ ReposClean'
      BY <1>2, <2>1 DEF configureSnapshotTime, ReposClean
    <3> QED
      BY <2>1, <2>2, <3>1, RpmFlowGoesOn
  <2>3. CASE pkgStep' \in PackageOps \union {"close"}
    <3>1. UNCHANGED guards \/ guards' = guards \union {"custom-tdnf.conf"}
      BY <1>2 DEF configureSnapshotTime
    <3> QED
      BY <2>1, <2>3, <3>1, FlowToOperation
  <2>4. CASE pkgStep' = "idle" /\ pkgErr'
    BY <2>4, FlowEnds
  <2> QED
    BY <1>1, <1>2, <2>2, <2>3, <2>4 DEF configureSnapshotTime, Goto
<1>3. CASE mountRpmSourcesHelper
  <2>1. /\ pkgStep = "mkdir" /\ UNCHANGED <<pkgCfg, guards>> /\ pkgCfg.manager # "apt" /\ ReposClean
        /\ guards \subseteq {"custom-tdnf.conf"}
    BY <1>3 DEF mountRpmSourcesHelper, FlowInv, RightFlow, CleanSteps, GuardsByFlow
  <2>2. CASE pkgStep' = "mount" /\ repos' = [repos EXCEPT !.dir = TRUE, !.created = TRUE]
    <3>1. repos'.created
      BY <2>2 DEF ReposTyped
    <3> QED
      BY <2>1, <2>2, <3>1, RpmFlowGoesOn
  <2>3. CASE pkgStep' = "undo" /\ pkgErr' /\ UNCHANGED repos
    <3>1. ReposClean'
      BY <2>1, <2>3 DEF ReposClean
    <3> QED
      BY <2>1, <2>3, <3>1, RpmFlowGoesOn
  <2> QED
    BY <1>3, <2>2, <2>3 DEF mountRpmSourcesHelper, Goto
<1>4. CASE \E source \in RpmSources : mountRpmsSource(source)
  <2> PICK source \in RpmSources : mountRpmsSource(source)
    BY <1>4
  <2>1. /\ pkgStep = "mount" /\ UNCHANGED <<pkgStep, pkgErr, pkgCfg, guards>> /\ pkgCfg.manager # "apt"
        /\ repos' = [repos EXCEPT !.opened = repos.opened \union {source},
                                  !.mounted = repos.mounted \union {source}]
        /\ guards \subseteq {"custom-tdnf.conf"}
    BY DEF mountRpmsSource, FlowInv, RightFlow, GuardsByFlow
  <2>2. repos.created /\ repos'.created
    <3>1. repos.created
      BY <2>1 DEF FlowInv, OwnedDirectory
    <3> QED
      BY <2>1, <3>1 DEF ReposTyped
  <2> QED
    BY <2>1, <2>2, RpmFlowGoesOn
<1>5. CASE mountRpmSources
  <2>1. /\ pkgStep = "mount" /\ UNCHANGED <<pkgCfg, guards>> /\ pkgCfg.manager # "apt"
        /\ guards \subseteq {"custom-tdnf.conf"} /\ repos.created
    BY <1>5 DEF mountRpmSources, FlowInv, RightFlow, GuardsByFlow, OwnedDirectory
  <2>2. PICK written \in BOOLEAN : repos' = [repos EXCEPT !.allRepos = written]
    BY <1>5 DEF mountRpmSources
  <2>3. repos'.created
    BY <2>1, <2>2 DEF ReposTyped
  <2>4. pkgStep' = "refresh" \/ (pkgStep' = "undo" /\ pkgErr')
    BY <1>5 DEF mountRpmSources, Goto
  <2> QED
    BY <2>1, <2>3, <2>4, RpmFlowGoesOn
<1>6. CASE setupServicePrevention
  <2>1. pkgStep = "setup" /\ UNCHANGED <<pkgCfg, repos>> /\ pkgCfg.manager = "apt"
    BY <1>6 DEF setupServicePrevention, FlowInv, RightFlow
  <2>2. CASE pkgStep' = "refresh" /\ guards' = guards \union ServiceGuards
    BY <2>1, <2>2, FlowToOperation
  <2>3. CASE Fail
    BY <2>1, <2>3, FlowFails
  <2> QED
    BY <1>6, <2>2, <2>3 DEF setupServicePrevention, Goto, ServiceGuards
<1>7. CASE refreshRpmPackageMetadata \/ refreshDebPackageMetadata
  <2>1. pkgStep = "refresh" /\ UNCHANGED <<pkgCfg, repos, guards>> /\ (Goto(OpAfter(pkgCfg, 0)) \/ Fail)
    BY <1>7 DEF refreshRpmPackageMetadata, refreshDebPackageMetadata
  <2>2. CASE Goto(OpAfter(pkgCfg, 0))
    <3>1. pkgStep' \in PackageOps \union {"close"}
      BY <1>1, <2>2 DEF Goto
    <3> QED
      BY <2>1, <3>1, FlowToOperation
  <2>3. CASE Fail
    BY <2>1, <2>3, FlowFails
  <2> QED
    BY <2>1, <2>2, <2>3
<1>8. CASE close
  <2>1. pkgStep = "close" /\ UNCHANGED <<pkgCfg, guards>> /\ OwnedDirectory
    BY <1>8 DEF close, FlowInv
  <2>2. CASE repos.created
    <3>1. PICK failing \in CloseFailures(repos) :
              /\ repos' = Closed(repos, failing)
              /\ pkgStep' = IF CloseReturnsError(repos, failing) THEN "deferClose" ELSE "clean"
              /\ pkgErr' = CloseReturnsError(repos, failing)
      BY <1>8, <2>2 DEF close
    <3>2. /\ ~repos'.created => ReposClean'
          /\ ~CloseReturnsError(repos, failing) => ReposClean'
      BY <2>1, <3>1, ClosedOwned
    <3>3. pkgCfg.manager # "apt" /\ guards \subseteq {"custom-tdnf.conf"}
      BY <2>1, <2>2 DEF FlowInv, GuardsByFlow, ReposClean
    <3> QED
      BY <2>1, <3>1, <3>2, <3>3, RpmFlowGoesOn
  <2>3. CASE ~repos.created
    <3>1. pkgStep' = "clean" /\ UNCHANGED <<pkgErr, repos>>
      BY <1>8, <2>3 DEF close, Goto
    <3>2. ReposClean /\ ReposClean'
      BY <2>1, <2>3, <3>1 DEF OwnedDirectory, ReposClean
    <3>3. RightFlow' /\ OwnedDirectory' /\ CleanSteps' /\ ErrorsKept'
      BY <2>1, <3>1, <3>2 DEF RightFlow, PkgSteps, OwnedDirectory, CleanSteps, ErrorsKept
    <3>4. GuardsByFlow'
      BY <2>1, <3>1, <3>2 DEF FlowInv, GuardsByFlow
    <3> QED
      BY <3>1, <3>3, <3>4 DEF FlowGoesOn, FlowInv
  <2> QED
    BY <2>2, <2>3
<1>9. CASE mountRpmSourcesUndo \/ deferredClose
  <2>1. /\ pkgStep \in {"undo", "deferClose"} /\ UNCHANGED <<pkgCfg, pkgErr, guards>>
        /\ pkgStep' = "deferSnapshot" /\ pkgCfg.manager # "apt" /\ guards \subseteq {"custom-tdnf.conf"}
        /\ OwnedDirectory /\ (pkgErr \/ ReposClean)
    BY <1>9 DEF mountRpmSourcesUndo, deferredClose, Goto, FlowInv, RightFlow, GuardsByFlow, ErrorsKept
  <2>2. PICK failing \in CloseFailures(repos) : repos' = Closed(repos, failing)
    BY <1>9 DEF mountRpmSourcesUndo, deferredClose
  <2>3. (~repos'.created => ReposClean') /\ (ReposClean => ReposClean')
    BY <2>1, <2>2, ClosedOwned
  <2> QED
    BY <2>1, <2>3, RpmFlowGoesOn
<1>10. CASE cleanRpmCache
  <2>1. /\ pkgStep = "clean" /\ UNCHANGED <<pkgCfg, repos, guards>> /\ pkgCfg.manager # "apt"
        /\ ReposClean /\ ReposClean' /\ guards \subseteq {"custom-tdnf.conf"}
    BY <1>10 DEF cleanRpmCache, FlowInv, CleanSteps, GuardsByFlow, ReposClean
  <2>2. CASE Goto(DeferredFrom)
    <3>1. pkgStep' \in {"deferClose", "deferSnapshot"}
      BY <2>1, <2>2 DEF Goto, DeferredFrom
    <3> QED
      BY <2>1, <3>1, RpmFlowGoesOn
  <2>3. CASE Fail
    BY <2>1, <2>3, FlowFails
  <2> QED
    BY <1>10, <2>2, <2>3 DEF cleanRpmCache
<1>11. CASE cleanDebCache
  <2>1. /\ pkgStep = "clean" /\ UNCHANGED <<pkgCfg, repos, guards>> /\ pkgCfg.manager = "apt"
        /\ ReposClean /\ ReposClean' /\ guards \subseteq ServiceGuards
        /\ ~needPackageSources(pkgCfg) => guards = NoGuards
    BY <1>11 DEF cleanDebCache, FlowInv, GuardsByFlow, ReposClean
  <2>2. CASE pkgStep' = "teardown" /\ needPackageSources(pkgCfg)
    <3>1. RightFlow' /\ OwnedDirectory' /\ CleanSteps' /\ ErrorsKept'
      BY <2>1, <2>2 DEF RightFlow, PkgSteps, OwnedDirectory, CleanSteps, ErrorsKept
    <3>2. GuardsByFlow'
      BY <2>1, <2>2 DEF GuardsByFlow
    <3> QED
      BY <2>2, <3>1, <3>2 DEF FlowGoesOn, FlowInv
  <2>3. CASE pkgStep' = "idle" /\ ~needPackageSources(pkgCfg)
    BY <2>1, <2>3, FlowEnds DEF NothingHeld
  <2>4. CASE Fail
    BY <2>1, <2>4, FlowFails
  <2> QED
    BY <1>11, <2>2, <2>3, <2>4 DEF cleanDebCache, Goto
<1>12. CASE teardownServicePrevention
  <2>1. /\ pkgStep = "teardown" /\ UNCHANGED <<pkgCfg, repos>> /\ pkgCfg.manager = "apt"
        /\ ReposClean /\ ReposClean' /\ guards \subseteq ServiceGuards
    BY <1>12 DEF teardownServicePrevention, FlowInv, RightFlow, GuardsByFlow, ReposClean
  <2>2. CASE guards' = guards \ ServiceGuards /\ pkgStep' = "idle"
    BY <2>1, <2>2, FlowEnds DEF NothingHeld, NoGuards
  <2>3. CASE Fail
    BY <2>1, <2>3, FlowFails
  <2> QED
    BY <1>12, <2>2, <2>3 DEF teardownServicePrevention, Goto, ServiceGuards
<1>13. CASE cleanupSnapshotTimeConfig
  <2>1. /\ pkgStep = "deferSnapshot" /\ pkgStep' = "idle" /\ UNCHANGED repos
        /\ guards \subseteq {"custom-tdnf.conf"} /\ (pkgErr \/ ReposClean)
    BY <1>13 DEF cleanupSnapshotTimeConfig, FlowInv, RightFlow, GuardsByFlow, ErrorsKept
  <2>2. CASE guards' = guards \ {"custom-tdnf.conf"} /\ UNCHANGED pkgErr
    <3>1. pkgErr' \/ NothingHeld'
      BY <2>1, <2>2 DEF NothingHeld, NoGuards, ReposClean
    <3> QED
      BY <2>1, <3>1, FlowEnds
  <2>3. CASE pkgErr' = TRUE
    BY <2>1, <2>3, FlowEnds
  <2> QED
    BY <1>13, <2>2, <2>3 DEF cleanupSnapshotTimeConfig
<1> QED
  BY <1>2, <1>3, <1>4, <1>5, <1>6, <1>7, <1>8, <1>9, <1>10, <1>11, <1>12, <1>13 DEF PackageStep

\* The package operations.
LEMMA PackageOperationFlows ==
    ASSUME FlowInv, PackageOperation
    PROVE  FlowGoesOn
<1>1. /\ pkgStep \in PackageOps /\ UNCHANGED <<pkgCfg, repos, guards>>
      /\ Goto(OpAfter(pkgCfg, PositionOf(pkgStep))) \/ Fail
  BY DEF PackageOperation, RpmPackageOperation, DebPackageOperation
<1>2. pkgStep # "idle"
  BY <1>1 DEF PackageOps
<1>3. CASE Goto(OpAfter(pkgCfg, PositionOf(pkgStep)))
  <2>1. PositionOf(pkgStep) \in 0..4
    BY <1>1, PositionRange
  <2>2. pkgStep' \in PackageOps \union {"close"}
    BY <1>3, <2>1, OpAfterRange DEF Goto
  <2> QED
    BY <1>1, <1>2, <2>2, FlowToOperation
<1>4. CASE Fail
  BY <1>1, <1>2, <1>4, FlowFails
<1> QED
  BY <1>1, <1>3, <1>4

\* A step that leaves managePackages alone.
LEMMA OtherStepsKeepFlow ==
    ASSUME PackagesInv, UNCHANGED pkgVars, result' = result \/ result = "running" \/ result' = "failed"
    PROVE  FlowInv' /\ HeldOnlyByPackages'
<1>1. FlowInv'
  BY DEF PackagesInv, FlowInv, RightFlow, OwnedDirectory, CleanSteps, ErrorsKept, GuardsByFlow, ReposClean,
         pkgVars
<1>2. HeldOnlyByPackages'
  BY DEF PackagesInv, HeldOnlyByPackages, NothingHeld, ReposClean, pkgVars
<1> QED
  BY <1>1, <1>2

\* Initially nothing is held.
LEMMA PackagesInvInit == Init => PackagesInv
<1> SUFFICES ASSUME Init PROVE PackagesInv
  OBVIOUS
<1>1. NothingHeld /\ pkgStep = "idle"
  BY DEF Init, PkgInit, ReposClosed, NothingHeld, ReposClean
<1>2. FlowInv
  BY <1>1 DEF FlowInv, RightFlow, PkgSteps, OwnedDirectory, CleanSteps, ErrorsKept, GuardsByFlow
<1> QED
  BY <1>1, <1>2, RpmInvInit DEF PackagesInv, HeldOnlyByPackages

\* Every step keeps the invariant.
LEMMA PackagesInvNext == PackagesInv /\ [Next]_vars => PackagesInv'
<1> SUFFICES ASSUME PackagesInv, [Next]_vars PROVE FlowInv' /\ HeldOnlyByPackages'
  BY RpmInvNext DEF PackagesInv
<1>1. CASE OtherStep
  BY <1>1, OtherStepsLeavePackages, OtherStepsKeepFlow
<1>2. CASE StartPackages
  <2> DEFINE c == PackageConfigOf(cfg[loc.cf])
  <2>1. /\ pkgStep = "idle" /\ result = "running" /\ pkgCfg' = c /\ UNCHANGED guards
        /\ repos' = [repos EXCEPT !.created = FALSE, !.opened = {}]
        /\ pkgStep' = IF c.manager = "apt"
                      THEN IF needPackageSources(c) THEN "setup" ELSE OpAfter(c, 0)
                      ELSE "snapshot"
    BY <1>2 DEF StartPackages, ManagePackages, AtStep
  <2> HIDE DEF c
  <2>2. ReposClean /\ guards = NoGuards
    BY <2>1 DEF PackagesInv, HeldOnlyByPackages, NothingHeld
  <2>3. ReposClean' /\ guards' = NoGuards
    BY <2>1, <2>2 DEF PackagesInv, RpmInv, ReposTyped, ReposClean
  <2>4. OpAfter(c, 0) \in PackageOps \union {"close"}
    BY OpAfterRange
  <2>5. /\ pkgStep' \in PackageOps \union {"close", "setup", "snapshot"}
        /\ pkgStep' = "setup" => c.manager = "apt" /\ needPackageSources(c)
        /\ pkgStep' = "snapshot" => c.manager # "apt"
    BY <2>1, <2>4 DEF PackageOps
  <2>6. RightFlow' /\ OwnedDirectory' /\ CleanSteps' /\ ErrorsKept'
    BY <2>1, <2>3, <2>5 DEF RightFlow, PkgSteps, PackageOps, OwnedDirectory, CleanSteps, ErrorsKept
  <2>7. GuardsByFlow'
    BY <2>3 DEF GuardsByFlow, NoGuards
  <2>8. pkgStep' # "idle"
    BY <2>5 DEF PackageOps
  <2> QED
    BY <2>6, <2>7, <2>8 DEF FlowInv, HeldOnlyByPackages
<1>3. CASE PackageManagement
  <2>1. FlowGoesOn
    BY <1>3, PackageStepFlows DEF PackageManagement, PackagesInv, RpmInv
  <2>2. pkgStep' = "idle" /\ pkgErr' => result' = "failed"
    BY <1>3 DEF PackageManagement
  <2> QED
    BY <2>1, <2>2 DEF FlowGoesOn, HeldOnlyByPackages
<1>4. CASE RunPackageOperation
  <2>1. FlowGoesOn
    BY <1>4, PackageOperationFlows DEF RunPackageOperation, PackagesInv
  <2>2. pkgStep' = "idle" /\ pkgErr' => result' = "failed"
    BY <1>4 DEF RunPackageOperation
  <2> QED
    BY <2>1, <2>2 DEF FlowGoesOn, HeldOnlyByPackages
<1>5. CASE createUki
  <2>1. UNCHANGED pkgVars /\ result = "running"
    BY <1>5 DEF createUki, AtStep, pkgVars
  <2> QED
    BY <2>1, OtherStepsKeepFlow
<1>6. CASE StepFails
  <2>1. UNCHANGED pkgVars /\ result = "running"
    BY <1>6 DEF StepFails, Abort, pkgVars
  <2> QED
    BY <2>1, OtherStepsKeepFlow
<1>7. CASE \E chain \in Chains : NextRun(chain)
  <2>1. repos' = ReposClosed /\ guards' = NoGuards /\ UNCHANGED <<pkgStep, pkgCfg, pkgErr>> /\ result # "running"
    BY <1>7 DEF NextRun
  <2>2. pkgStep' = "idle"
    BY <2>1 DEF PackagesInv, RpmInv, PackagesOnlyInRun
  <2>3. NothingHeld'
    BY <2>1 DEF ReposClosed, NothingHeld, ReposClean
  <2> QED
    BY <2>2, <2>3 DEF FlowInv, RightFlow, PkgSteps, OwnedDirectory, CleanSteps, ErrorsKept, GuardsByFlow,
                      HeldOnlyByPackages
<1>8. CASE Finished \/ UNCHANGED vars
  <2>1. UNCHANGED pkgVars /\ UNCHANGED result
    BY <1>8 DEF Finished, vars, osVars
  <2> QED
    BY <2>1, OtherStepsKeepFlow
<1> QED
  BY <1>1, <1>2, <1>3, <1>4, <1>5, <1>6, <1>7, <1>8 DEF Next, OtherStep

-----------------------------------------------------------------------------
(* What the image is at each step.                                          *)

\* The records keep their fields.
Shape ==
    /\ DOMAIN img = ImageFields
    /\ DOMAIN img.grub = DOMAIN NoGrub /\ img.grub.kind \in GrubKinds
    /\ DOMAIN ukiInfo = DOMAIN NoUkiInfo
    /\ DOMAIN loc = DOMAIN NoLocals

\* Where the run is; packages are managed at their step only.
Control ==
    /\ cfg \in Chains
    /\ step \in 1..28
    /\ result \in {"running", "ok", "failed"}
    /\ result = "ok" => step = 28
    /\ runs \in 1..MaxRuns
    /\ loc.cf \in 1..(Len(cfg) + 1)
    /\ pkgStep # "idle" => step = 4

\* What Accepted has checked of the chain.
ChainAccepted ==
    /\ \A i \in 1..Len(cfg) : ConfigFileIsValid(cfg[i])
    /\ ~StorageMoreThanOne(cfg)

KnownKernels == KernelsOf(img) \subseteq Kernels /\ DOMAIN ukiInfo.lines \subseteq Kernels

\* The host's resolv.conf is in the image between overrideResolvConf and restoreResolvConf.
ResolvInv ==
    /\ img.baselineResolv # "host"
    /\ loc.resolv # "host"
    /\ result # "failed" /\ step \notin 3..22 => img.resolv # "host"

\* The /etc overlay is there from the first step to FinalizeEtcOverlay.
EtcInv ==
    result # "failed" => /\ img.etcWorkDir => img.etcMounted
                         /\ step \notin 2..24 => ~img.etcMounted

LabelInv ==
    result # "failed" /\ step > 23 /\ loc.selinuxMode # "disabled" =>
        img.unlabelled \subseteq {"finalizeScripts"}

\* Nothing makes a kernel or an initramfs after KernelCheck.
KeptUkiInv ==
    result # "failed" /\ Uki \in {"passthrough", "modify"} /\ ~SplitChain(cfg) =>
        /\ step > 5 => ~hasKernelBinariesInBoot(img)
        /\ ~loc.overlayUpdated /\ ~loc.verityUpdated

\* The kernels in /boot have modules; only those that a create run takes out of UKIs may not.
ModulesInv ==
    result # "failed" =>
        /\ img.vmlinuz \subseteq img.libModules \union (IF Uki = "create" /\ step > 3 THEN loc.orphans ELSE {})
        /\ step <= 3 => DOMAIN img.esp \subseteq img.libModules \union loc.orphans
        /\ step > 26 => img.libModules # {}

\* Without UKIs grub has an entry for each kernel.
GrubInv ==
    result # "failed" =>
        /\ DOMAIN img.esp = {} /\ img.grub.kind # "none" =>
              DOMAIN img.grub.lines = img.vmlinuz /\ img.libModules \subseteq img.vmlinuz
        /\ Uki = "unset" => DOMAIN img.esp = {}
        /\ step > 15 /\ ~(Uki = "create" /\ step > 20) => img.grub.kind # "none" \/ DOMAIN img.esp # {}

\* From prepareUki on, the new UKIs are those of uki-kernel-info.json.
CreateUkiInv ==
    Uki = "create" /\ step > 20 =>
        /\ result # "failed" => img.vmlinuz = {}
        /\ result = "running" => /\ DOMAIN ukiInfo.lines # {}
                                 /\ DOMAIN ukiInfo.lines \subseteq img.libModules \union loc.orphans
        /\ result = "ok" => DOMAIN img.esp # {} /\ DOMAIN img.esp \subseteq img.libModules \union loc.orphans

UkisHaveDrivers(kernels) ==
    \A k \in DOMAIN img.esp \intersect kernels : "init" \in DOMAIN img.esp[k] /\ HasDrivers(img, img.esp[k].init)

BootHasDrivers ==
    \A k \in DOMAIN img.initramfs \intersect img.libModules : HasDrivers(img, img.initramfs[k])

\* The drivers: in dracut's configuration always, in /boot but for the steps between the new
\* fstab and regenerateInitramfs, in the UKIs until a create run takes them apart and again
\* when it has made new ones.  A UKI that is kept has them while no kernel was installed anew.
DriversInv ==
    result # "failed" /\ ~loc.split =>
        /\ ~SplitChain(cfg)
        /\ HasDrivers(img, img.dracut)
        /\ img.vmlinuz \subseteq DOMAIN img.initramfs
        /\ \/ step \in {17, 18} /\ loc.overlayUpdated
           \/ step = 18 /\ loc.verityUpdated
           \/ BootHasDrivers
        /\ step <= 3 => UkisHaveDrivers(img.libModules)
        /\ Uki \in {"passthrough", "modify"} => UkisHaveDrivers(img.libModules \ img.vmlinuz)
        /\ Uki = "create" /\ step > 20 /\ result = "running" =>
              \A k \in DOMAIN ukiInfo.lines \intersect img.libModules : HasDrivers(img, ukiInfo.staged[k])
        /\ Uki = "create" /\ result = "ok" => UkisHaveDrivers(img.libModules)

ImageInv ==
    /\ Shape /\ Control /\ ChainAccepted /\ KnownKernels
    /\ ResolvInv /\ EtcInv /\ LabelInv
    /\ KeptUkiInv /\ ModulesInv /\ GrubInv /\ CreateUkiInv /\ DriversInv

-----------------------------------------------------------------------------
(* Steps of the run.                                                        *)

\* The positions of the steps.
LEMMA StepsValues ==
    /\ Steps[1] = "setupEtcOverlay" /\ Steps[2] = "overrideResolvConf" /\ Steps[3] = "extractUkis"
    /\ Steps[4] = "packages" /\ Steps[5] = "kernelCheck" /\ Steps[6] = "hostname" /\ Steps[7] = "users"
    /\ Steps[8] = "dirs" /\ Steps[9] = "files" /\ Steps[10] = "services" /\ Steps[11] = "modules"
    /\ Steps[12] = "release" /\ Steps[13] = "history" /\ Steps[14] = "bootLoader" /\ Steps[15] = "selinux"
    /\ Steps[16] = "overlays" /\ Steps[17] = "verity" /\ Steps[18] = "initramfs" /\ Steps[19] = "postScripts"
    /\ Steps[20] = "prepareUki" /\ Steps[21] = "removePackageManager" /\ Steps[22] = "restoreResolvConf"
    /\ Steps[23] = "setFiles" /\ Steps[24] = "etcFinalize" /\ Steps[25] = "finalizeScripts"
    /\ Steps[26] = "checkKernel" /\ Steps[27] = "verityImage" /\ Steps[28] = "createUki"
    /\ Len(Steps) = 28
BY DEF Steps

\* No name is at two positions.
LEMMA StepPosition ==
    ASSUME NEW n \in 1..28, NEW m \in 1..28, Steps[n] = Steps[m]
    PROVE  n = m
<1>1. \A i \in 1..28 : i = 1 \/ i = 2 \/ i = 3 \/ i = 4 \/ i = 5 \/ i = 6 \/ i = 7 \/ i = 8 \/ i = 9
        \/ i = 10 \/ i = 11 \/ i = 12 \/ i = 13 \/ i = 14 \/ i = 15 \/ i = 16 \/ i = 17 \/ i = 18 \/ i = 19
        \/ i = 20 \/ i = 21 \/ i = 22 \/ i = 23 \/ i = 24 \/ i = 25 \/ i = 26 \/ i = 27 \/ i = 28
  OBVIOUS
<1> QED
  BY <1>1, StepsValues, Z3

-----------------------------------------------------------------------------
(* Operators on images.                                                     *)

\* All but the given fields stay as they are.
Frame(im, new, fields) ==
    /\ DOMAIN new = DOMAIN im
    /\ \A f \in DOMAIN im \ fields : new[f] = im[f]

\* An image that stays keeps every field.
LEMMA FrameStays ==
    ASSUME NEW im, NEW fields PROVE Frame(im, im, fields)
BY DEF Frame

\* Two changes, one after the other.
LEMMA FrameThen ==
    ASSUME NEW im, NEW mid, NEW new, NEW F, NEW G, Frame(im, mid, F), Frame(mid, new, G)
    PROVE  Frame(im, new, F \union G)
BY DEF Frame

\* A change of some fields is a change of at most more fields.
LEMMA FrameMore ==
    ASSUME NEW im, NEW new, NEW F, NEW G, Frame(im, new, F), F \subseteq G
    PROVE  Frame(im, new, G)
BY DEF Frame

\* EXCEPT changes the field it names and no other.
LEMMA FrameUpdate ==
    ASSUME NEW im, NEW field, NEW value
    PROVE  Frame(im, [im EXCEPT ![field] = value], {field})
BY DEF Frame

\* An image's record after an update of one field.
LEMMA WrittenFrame ==
    ASSUME NEW im PROVE Frame(im, Written(im), {"unlabelled"})
BY FrameUpdate DEF Written

-----------------------------------------------------------------------------
(* Operators on grub's configuration.                                       *)

GrubFields == {"kind", "linux", "dflt", "device", "lines"}

\* The fields of grub's configuration.
LEMMA GrubDomain == DOMAIN NoGrub = GrubFields
BY DEF NoGrub, GrubFields

HasGrub(im) == DOMAIN im = ImageFields /\ DOMAIN im.grub = GrubFields /\ im.grub.kind \in GrubKinds

\* An edit leaves the kind of grub, with the same entries or one for each kernel.
GrubKept(im, new) ==
    /\ DOMAIN new.grub = DOMAIN im.grub
    /\ new.grub.kind = im.grub.kind
    /\ DOMAIN new.grub.lines = DOMAIN im.grub.lines \/ DOMAIN new.grub.lines = im.vmlinuz

\* An edit of grub's configuration and of nothing else.
GrubEdit(im, new) == Frame(im, new, {"grub"}) /\ GrubKept(im, new)

\* An image that stays is an edit of its grub configuration.
LEMMA GrubEditStays ==
    ASSUME NEW im PROVE GrubEdit(im, im)
BY FrameStays DEF GrubEdit, GrubKept

\* Two edits of grub's configuration, one after the other.
LEMMA GrubEditThen ==
    ASSUME NEW im, NEW mid, NEW new, HasGrub(im), GrubEdit(im, mid), GrubEdit(mid, new)
    PROVE  GrubEdit(im, new)
<1>1. Frame(im, new, {"grub"})
  BY DEF GrubEdit, Frame
<1>2. mid.vmlinuz = im.vmlinuz
  BY DEF GrubEdit, Frame, HasGrub, ImageFields
<1> QED
  BY <1>1, <1>2 DEF GrubEdit, GrubKept

\* After an edit the image still has its fields and grub's.
LEMMA GrubEditHasGrub ==
    ASSUME NEW im, NEW new, HasGrub(im), GrubEdit(im, new)
    PROVE  HasGrub(new)
BY DEF GrubEdit, GrubKept, Frame, HasGrub

\* A new value of grub.
LEMMA GrubUpdate ==
    ASSUME NEW im, NEW g, HasGrub(im), NEW new, new = [im EXCEPT !.grub = g],
           DOMAIN g = GrubFields, g.kind = im.grub.kind,
           DOMAIN g.lines = DOMAIN im.grub.lines \/ DOMAIN g.lines = im.vmlinuz
    PROVE  GrubEdit(im, new) /\ new.grub = g
<1>1. Frame(im, new, {"grub"})
  BY FrameUpdate
<1>2. new.grub = g
  BY DEF HasGrub, ImageFields
<1> QED
  BY <1>1, <1>2 DEF GrubEdit, GrubKept, HasGrub

\* grub2-mkconfig writes an entry for each kernel.
LEMMA MkconfigEdit ==
    ASSUME NEW im, HasGrub(im)
    PROVE  /\ Frame(im, CallGrubMkconfig(im), {"grub"})
           /\ CallGrubMkconfig(im).grub.kind = "mkconfig"
           /\ DOMAIN CallGrubMkconfig(im).grub = GrubFields
           /\ DOMAIN CallGrubMkconfig(im).grub.lines = im.vmlinuz
<1> DEFINE lines == [k \in im.vmlinuz |-> <<Arg("root", im.grub.device)>> \o im.grub.linux \o im.grub.dflt]
           g == [im.grub EXCEPT !.kind = "mkconfig", !.lines = lines]
<1>1. CallGrubMkconfig(im) = [im EXCEPT !.grub = g]
  BY DEF CallGrubMkconfig
<1>2. DOMAIN lines = im.vmlinuz
  OBVIOUS
<1> HIDE DEF lines
<1>3. DOMAIN g = GrubFields /\ g.kind = "mkconfig" /\ g.lines = lines
  BY DEF HasGrub, GrubFields
<1> HIDE DEF g
<1>4. CallGrubMkconfig(im).grub = g
  BY <1>1 DEF HasGrub, ImageFields
<1>5. Frame(im, CallGrubMkconfig(im), {"grub"})
  BY <1>1 DEF Frame
<1> QED
  BY <1>2, <1>3, <1>4, <1>5

\* WriteToFile runs grub2-mkconfig or nothing.
LEMMA WriteToFileEdit ==
    ASSUME NEW im, HasGrub(im)
    PROVE  GrubEdit(im, WriteToFile(im))
<1>1. CASE im.grub.kind = "mkconfig"
  BY <1>1, MkconfigEdit DEF WriteToFile, GrubEdit, GrubKept, HasGrub
<1>2. CASE im.grub.kind # "mkconfig"
  BY <1>2, GrubEditStays DEF WriteToFile
<1> QED
  BY <1>1, <1>2

\* grub.cfg edited in place keeps its kernels.
LEMMA EditGrubCfgEdit ==
    ASSUME NEW im, HasGrub(im), NEW names, NEW args
    PROVE  GrubEdit(im, EditGrubCfg(im, names, args))
<1> DEFINE g == EditedGrub(im.grub, names, args)
<1>1. EditGrubCfg(im, names, args) = [im EXCEPT !.grub = g]
  BY DEF EditGrubCfg
<1>2. DOMAIN g = GrubFields /\ g.kind = im.grub.kind /\ DOMAIN g.lines = DOMAIN im.grub.lines
  BY DEF EditedGrub, EveryKernel, HasGrub, GrubFields
<1> HIDE DEF g
<1> QED
  BY <1>1, <1>2, GrubUpdate

\* BootCustomizer.AddKernelCommandLine edits grub's configuration only.
LEMMA AddKernelCommandLineEdit ==
    ASSUME NEW im, HasGrub(im), NEW extra
    PROVE  GrubEdit(im, BootCustomizerAddKernelCommandLine(im, extra))
<1>1. CASE im.grub.kind = "mkconfig"
  <2> DEFINE g == [im.grub EXCEPT !.dflt = appendKernelCommandLineArgs(im.grub.dflt, extra)]
  <2>1. BootCustomizerAddKernelCommandLine(im, extra) = [im EXCEPT !.grub = g]
    BY <1>1 DEF BootCustomizerAddKernelCommandLine
  <2>2. DOMAIN g = GrubFields /\ g.kind = im.grub.kind /\ g.lines = im.grub.lines
    BY DEF HasGrub, GrubFields
  <2> HIDE DEF g
  <2> QED
    BY <2>1, <2>2, GrubUpdate
<1>2. CASE im.grub.kind = "legacy"
  BY <1>2, EditGrubCfgEdit DEF BootCustomizerAddKernelCommandLine
<1>3. CASE im.grub.kind \notin {"mkconfig", "legacy"}
  BY <1>3, GrubEditStays DEF BootCustomizerAddKernelCommandLine
<1> QED
  BY <1>1, <1>2, <1>3

\* UpdateKernelCommandLineArgs edits grub's configuration only.
LEMMA UpdateArgsEdit ==
    ASSUME NEW im, HasGrub(im), NEW names, NEW args
    PROVE  GrubEdit(im, UpdateKernelCommandLineArgs(im, names, args))
<1>1. CASE im.grub.kind = "mkconfig"
  <2> DEFINE g == [im.grub EXCEPT !.linux = updateKernelCommandLineArgsHelper(im.grub.linux, names, args)]
  <2>1. UpdateKernelCommandLineArgs(im, names, args) = [im EXCEPT !.grub = g]
    BY <1>1 DEF UpdateKernelCommandLineArgs
  <2>2. DOMAIN g = GrubFields /\ g.kind = im.grub.kind /\ g.lines = im.grub.lines
    BY DEF HasGrub, GrubFields
  <2> HIDE DEF g
  <2> QED
    BY <2>1, <2>2, GrubUpdate
<1>2. CASE im.grub.kind = "legacy"
  BY <1>2, EditGrubCfgEdit DEF UpdateKernelCommandLineArgs
<1>3. CASE im.grub.kind \notin {"mkconfig", "legacy"}
  BY <1>3, GrubEditStays DEF UpdateKernelCommandLineArgs
<1> QED
  BY <1>1, <1>2, <1>3

\* PrepareForVerity edits grub's configuration only.
LEMMA PrepareForVerityEdit ==
    ASSUME NEW im, HasGrub(im)
    PROVE  GrubEdit(im, PrepareForVerity(im))
<1>1. CASE im.grub.kind = "mkconfig"
  <2> DEFINE g == [im.grub EXCEPT !.device = "mapper"]
  <2>1. PrepareForVerity(im) = [im EXCEPT !.grub = g]
    BY <1>1 DEF PrepareForVerity
  <2>2. DOMAIN g = GrubFields /\ g.kind = im.grub.kind /\ g.lines = im.grub.lines
    BY DEF HasGrub, GrubFields
  <2> HIDE DEF g
  <2> QED
    BY <2>1, <2>2, GrubUpdate
<1>2. CASE im.grub.kind # "mkconfig"
  BY <1>2, GrubEditStays DEF PrepareForVerity
<1> QED
  BY <1>1, <1>2

\* updateGrubConfigForVerity edits grub's configuration only.
LEMMA VerityEdit ==
    ASSUME NEW im, HasGrub(im), NEW verity, NEW hash
    PROVE  GrubEdit(im, updateGrubConfigForVerity(im, verity, hash))
<1> DEFINE hashed == EditGrubCfg(im, verityKernelArgsToRemove, constructVerityKernelCmdlineArgs(verity, hash))
           mapped == EditGrubCfg(hashed, {"root"}, <<Arg("root", "mapper")>>)
<1>1. GrubEdit(im, hashed)
  BY EditGrubCfgEdit
<1> HIDE DEF hashed
<1>2. GrubEdit(hashed, mapped)
  BY <1>1, GrubEditHasGrub, EditGrubCfgEdit
<1>3. updateGrubConfigForVerity(im, verity, hash) = IF verity = "root" THEN mapped ELSE hashed
  BY DEF updateGrubConfigForVerity, hashed
<1> HIDE DEF mapped
<1> QED
  BY <1>1, <1>2, <1>3, GrubEditThen

\* The hard reset: a grub again, with an entry for each kernel.
LEMMA HardResetEdit ==
    ASSUME NEW im, HasGrub(im), NEW mode, NEW extra
    PROVE  LET new == configureDiskBootLoader(im, mode, extra)
           IN /\ Frame(im, new, {"grub"}) /\ HasGrub(new)
              /\ new.grub.kind # "none" /\ DOMAIN new.grub.lines = im.vmlinuz
<1> DEFINE fresh == [Grub("mkconfig", getCommonSELinuxArgs(mode), "partition", NoLines)
                       EXCEPT !.dflt = extra \o <<KernelOpts>>]
           line == <<Arg("root", "partition")>> \o fresh.linux \o fresh.dflt
           lines == [k \in im.vmlinuz |-> line]
           legacy == [fresh EXCEPT !.kind = "legacy", !.linux = line, !.lines = lines]
           reset == [im EXCEPT !.grub = fresh]
           new == configureDiskBootLoader(im, mode, extra)
<1>1. new = IF im.distro = "azl2" /\ determineBootConfigType(im) # "mkconfig"
            THEN [im EXCEPT !.grub = legacy] ELSE CallGrubMkconfig(reset)
  BY DEF configureDiskBootLoader
<1>2. DOMAIN fresh = GrubFields /\ fresh.kind \in GrubKinds
  BY DEF Grub, GrubFields, GrubKinds
<1>3. DOMAIN lines = im.vmlinuz
  OBVIOUS
<1> HIDE DEF fresh, line, lines, new
<1>4. DOMAIN legacy = GrubFields /\ legacy.kind = "legacy" /\ legacy.lines = lines
  BY <1>2 DEF GrubFields
<1> HIDE DEF legacy
<1>5. CASE new = [im EXCEPT !.grub = legacy]
  <2>1. Frame(im, new, {"grub"}) /\ new.grub = legacy
    BY <1>5 DEF Frame, HasGrub, ImageFields
  <2>2. HasGrub(new)
    BY <1>4, <2>1 DEF Frame, HasGrub, GrubKinds
  <2> QED
    BY <1>3, <1>4, <2>1, <2>2 DEF new
<1>6. CASE new = CallGrubMkconfig(reset)
  <2>1. Frame(im, reset, {"grub"}) /\ reset.grub = fresh
    BY DEF Frame, HasGrub, ImageFields
  <2>2. HasGrub(reset) /\ reset.vmlinuz = im.vmlinuz
    BY <1>2, <2>1 DEF Frame, HasGrub, ImageFields
  <2> HIDE DEF reset
  <2>3. /\ Frame(reset, new, {"grub"})
        /\ new.grub.kind = "mkconfig" /\ DOMAIN new.grub = GrubFields /\ DOMAIN new.grub.lines = reset.vmlinuz
    BY <1>6, <2>2, MkconfigEdit
  <2>4. Frame(im, new, {"grub"})
    BY <2>1, <2>3 DEF Frame
  <2>5. HasGrub(new)
    BY <2>2, <2>3 DEF Frame, HasGrub, GrubKinds
  <2> QED
    BY <2>2, <2>3, <2>4, <2>5 DEF new
<1> QED
  BY <1>1, <1>5, <1>6

-----------------------------------------------------------------------------
(* Kernels.                                                                 *)

KernelFields == {"libModules", "vmlinuz", "initramfs", "grub"}

\* A kernel comes with its modules and its initramfs, and with an entry where there is a grub.
LEMMA KernelInstalledEdit ==
    ASSUME NEW im, HasGrub(im), NEW k
    PROVE  LET new == KernelInstalled(im, k)
           IN /\ Frame(im, new, KernelFields) /\ HasGrub(new)
              /\ new.libModules = im.libModules \union {k} /\ new.vmlinuz = im.vmlinuz \union {k}
              /\ DOMAIN new.initramfs = DOMAIN im.initramfs \union {k}
              /\ \A x \in DOMAIN new.initramfs :
                    new.initramfs[x] = IF x = k THEN im.dracut ELSE im.initramfs[x]
              /\ new.grub.kind = im.grub.kind
              /\ DOMAIN new.grub.lines \subseteq DOMAIN im.grub.lines \union new.vmlinuz
              /\ im.grub.kind # "none" /\ DOMAIN im.grub.lines = im.vmlinuz =>
                    DOMAIN new.grub.lines = new.vmlinuz
<1> DEFINE init == Merge(im.initramfs, [x \in {k} |-> im.dracut])
           mid == [im EXCEPT !.libModules = @ \union {k}, !.vmlinuz = @ \union {k}, !.initramfs = init]
           lines == Merge(im.grub.lines, [x \in {k} |-> im.grub.linux])
           new == KernelInstalled(im, k)
<1>1. /\ DOMAIN init = DOMAIN im.initramfs \union {k} /\ DOMAIN lines = DOMAIN im.grub.lines \union {k}
      /\ \A x \in DOMAIN init : init[x] = IF x = k THEN im.dracut ELSE im.initramfs[x]
  BY DEF Merge
<1>2. new = CASE im.grub.kind = "mkconfig" -> CallGrubMkconfig(mid)
              [] im.grub.kind = "legacy" -> [mid EXCEPT !.grub.lines = Merge(@, [x \in {k} |-> im.grub.linux])]
              [] OTHER -> mid
  BY DEF KernelInstalled
<1> HIDE DEF init, new
<1>3. /\ DOMAIN mid = ImageFields /\ mid.libModules = im.libModules \union {k}
      /\ mid.vmlinuz = im.vmlinuz \union {k} /\ mid.initramfs = init /\ mid.grub = im.grub
  BY DEF HasGrub, ImageFields
<1>4. Frame(im, mid, {"libModules", "vmlinuz", "initramfs"})
  BY DEF Frame
<1> HIDE DEF mid
<1>5. HasGrub(mid)
  BY <1>3 DEF HasGrub
<1>6. CASE im.grub.kind = "mkconfig"
  <2>1. /\ Frame(mid, new, {"grub"}) /\ new.grub.kind = "mkconfig"
        /\ DOMAIN new.grub = GrubFields /\ DOMAIN new.grub.lines = mid.vmlinuz
    BY <1>2, <1>5, <1>6, MkconfigEdit
  <2>2. new.libModules = mid.libModules /\ new.vmlinuz = mid.vmlinuz /\ new.initramfs = mid.initramfs
    BY <1>3, <2>1 DEF Frame, ImageFields
  <2>3. Frame(im, new, KernelFields)
    BY <1>4, <2>1 DEF Frame, KernelFields
  <2>4. HasGrub(new)
    BY <1>5, <2>1 DEF Frame, HasGrub, GrubKinds
  <2> QED
    BY <1>1, <1>3, <1>6, <2>1, <2>2, <2>3, <2>4 DEF new
<1>7. CASE im.grub.kind = "legacy"
  <2> DEFINE g == [im.grub EXCEPT !.lines = lines]
  <2>1. new = [mid EXCEPT !.grub = g]
    BY <1>2, <1>3, <1>7
  <2>2. DOMAIN g = GrubFields /\ g.kind = im.grub.kind /\ g.lines = lines
    BY DEF HasGrub, GrubFields
  <2> HIDE DEF g
  <2>3. Frame(mid, new, {"grub"}) /\ new.grub = g
    BY <1>3, <2>1 DEF Frame, ImageFields
  <2>4. new.libModules = mid.libModules /\ new.vmlinuz = mid.vmlinuz /\ new.initramfs = mid.initramfs
    BY <1>3, <2>3 DEF Frame, ImageFields
  <2>5. Frame(im, new, KernelFields)
    BY <1>4, <2>3 DEF Frame, KernelFields
  <2>6. HasGrub(new)
    BY <1>5, <2>2, <2>3 DEF Frame, HasGrub
  <2> HIDE DEF lines
  <2> QED
    BY <1>1, <1>3, <2>2, <2>3, <2>4, <2>5, <2>6 DEF new
<1>8. CASE im.grub.kind = "none"
  <2>1. new = mid
    BY <1>2, <1>8
  <2>2. Frame(im, new, KernelFields)
    BY <1>4, <2>1 DEF Frame, KernelFields
  <2> QED
    BY <1>1, <1>3, <1>5, <1>8, <2>1, <2>2 DEF new
<1> QED
  BY <1>6, <1>7, <1>8 DEF HasGrub, GrubKinds

\* A kernel goes with its modules, its initramfs and its entry.
LEMMA KernelRemovedEdit ==
    ASSUME NEW im, HasGrub(im), NEW k
    PROVE  LET new == KernelRemoved(im, k)
           IN /\ Frame(im, new, KernelFields) /\ HasGrub(new)
              /\ new.libModules = im.libModules \ {k} /\ new.vmlinuz = im.vmlinuz \ {k}
              /\ DOMAIN new.initramfs = DOMAIN im.initramfs \ {k}
              /\ \A x \in DOMAIN new.initramfs : new.initramfs[x] = im.initramfs[x]
              /\ new.grub.kind = im.grub.kind
              /\ DOMAIN new.grub.lines = DOMAIN im.grub.lines \ {k}
<1> DEFINE init == [x \in DOMAIN im.initramfs \ {k} |-> im.initramfs[x]]
           lines == [x \in DOMAIN im.grub.lines \ {k} |-> im.grub.lines[x]]
           g == [im.grub EXCEPT !.lines = lines]
           new == KernelRemoved(im, k)
<1>1. /\ DOMAIN init = DOMAIN im.initramfs \ {k} /\ DOMAIN lines = DOMAIN im.grub.lines \ {k}
      /\ \A x \in DOMAIN init : init[x] = im.initramfs[x]
  OBVIOUS
<1>2. new = [im EXCEPT !.libModules = im.libModules \ {k}, !.vmlinuz = im.vmlinuz \ {k},
                       !.initramfs = init, !.grub = g]
  BY DEF KernelRemoved, HasGrub, ImageFields
<1> HIDE DEF init, lines, new
<1>3. DOMAIN g = GrubFields /\ g.kind = im.grub.kind /\ g.lines = lines
  BY DEF HasGrub, GrubFields
<1> HIDE DEF g
<1>4. /\ Frame(im, new, KernelFields)
      /\ new.libModules = im.libModules \ {k} /\ new.vmlinuz = im.vmlinuz \ {k}
      /\ new.initramfs = init /\ new.grub = g
  BY <1>2 DEF Frame, KernelFields, HasGrub, ImageFields
<1>5. HasGrub(new)
  BY <1>3, <1>4 DEF Frame, HasGrub
<1> QED
  BY <1>1, <1>3, <1>4, <1>5 DEF new

\* The kernels that something in the image belongs to come from the same places.
SameKernels ==
    /\ img'.vmlinuz = img.vmlinuz /\ img'.libModules = img.libModules
    /\ DOMAIN img'.initramfs = DOMAIN img.initramfs /\ DOMAIN img'.esp = DOMAIN img.esp

-----------------------------------------------------------------------------
(* What a step has to leave alone to keep a part of the invariant.          *)

\* A step was made, and it was not the last one.
StepMade ==
    /\ result = "running" /\ pkgStep = "idle" /\ step \in 1..27 /\ step' = step + 1
    /\ UNCHANGED <<cfg, result, runs, pkgVars>>

\* The records keep their fields.
LEMMA ShapeKept ==
    ASSUME Shape, HasGrub(img'), DOMAIN ukiInfo' = DOMAIN ukiInfo, DOMAIN loc' = DOMAIN loc
    PROVE  Shape'
BY GrubDomain DEF Shape, HasGrub

\* A step of the list goes to the next position with the same chain.
LEMMA ControlKept ==
    ASSUME Control, ChainAccepted, StepMade, loc'.cf = loc.cf
    PROVE  Control' /\ ChainAccepted'
BY DEF Control, ChainAccepted, StepMade, pkgVars

\* No kernel appears that the packages do not know.
LEMMA KnownKernelsKept ==
    ASSUME KnownKernels, SameKernels,
           DOMAIN img'.grub.lines = DOMAIN img.grub.lines \/ DOMAIN img'.grub.lines = img.vmlinuz,
           DOMAIN ukiInfo'.lines = DOMAIN ukiInfo.lines
    PROVE  KnownKernels'
BY DEF KnownKernels, KernelsOf, SameKernels

\* resolv.conf is not touched outside its two steps.
LEMMA ResolvKept ==
    ASSUME Control, ResolvInv, StepMade, step # 22, loc'.resolv = loc.resolv,
           img'.resolv = img.resolv, img'.baselineResolv = img.baselineResolv
    PROVE  ResolvInv'
BY DEF Control, ResolvInv, StepMade

\* Nor the /etc overlay.
LEMMA EtcKept ==
    ASSUME Control, EtcInv, StepMade, step # 24,
           img'.etcMounted = img.etcMounted, img'.etcWorkDir = img.etcWorkDir
    PROVE  EtcInv'
BY DEF Control, EtcInv, StepMade

\* After selinuxSetFiles only the finalize scripts write files.
LEMMA LabelKept ==
    ASSUME Control, LabelInv, StepMade, step # 23,
           step > 23 => /\ img'.unlabelled \subseteq img.unlabelled \union {"finalizeScripts"}
                        /\ loc'.selinuxMode = loc.selinuxMode
    PROVE  LabelInv'
BY DEF Control, LabelInv, StepMade

\* Nothing is put in /boot of an image that keeps its UKIs.
LEMMA KeptUkiKept ==
    ASSUME Control, KeptUkiInv, StepMade, step # 5, SameKernels,
           loc'.overlayUpdated = loc.overlayUpdated, loc'.verityUpdated = loc.verityUpdated
    PROVE  KeptUkiInv'
BY DEF Control, KeptUkiInv, StepMade, SameKernels, hasKernelBinariesInBoot, Uki

\* The kernels in /boot keep their modules.
LEMMA ModulesKept ==
    ASSUME Control, ModulesInv, StepMade, step # 26, SameKernels, loc'.orphans = loc.orphans
    PROVE  ModulesInv'
BY DEF Control, ModulesInv, StepMade, SameKernels, Uki

\* grub keeps an entry for each kernel.
LEMMA GrubInvKept ==
    ASSUME Control, GrubInv, StepMade, step # 15, SameKernels, GrubKept(img, img')
    PROVE  GrubInv'
<1>1. /\ DOMAIN img'.esp = DOMAIN img.esp /\ img'.grub.kind = img.grub.kind /\ Uki' = Uki
      /\ result = "running"
  BY DEF StepMade, SameKernels, GrubKept, Uki
<1>2. DOMAIN img.esp = {} /\ img.grub.kind # "none" =>
          DOMAIN img'.grub.lines = img'.vmlinuz /\ img'.libModules \subseteq img'.vmlinuz
  BY <1>1 DEF GrubInv, SameKernels, GrubKept
<1>3. step' > 15 => step > 15
  BY DEF Control, StepMade
<1>4. step > 20 => step' > 20
  BY DEF Control, StepMade
<1> QED
  BY <1>1, <1>2, <1>3, <1>4 DEF GrubInv

\* uki-kernel-info.json keeps its kernels until the UKIs are made.
LEMMA CreateUkiKept ==
    ASSUME Control, CreateUkiInv, StepMade, step # 20, SameKernels, loc'.orphans = loc.orphans,
           DOMAIN ukiInfo'.lines = DOMAIN ukiInfo.lines
    PROVE  CreateUkiInv'
<1>1. Uki' = Uki /\ result = "running" /\ result' = "running"
  BY DEF StepMade, Uki
<1>2. step' > 20 => step > 20
  BY DEF Control, StepMade
<1>3. img'.vmlinuz = img.vmlinuz /\ img'.libModules = img.libModules
  BY DEF SameKernels
<1> QED
  BY <1>1, <1>2, <1>3 DEF CreateUkiInv

\* What the drivers depend on.
DriverFields == {"vmlinuz", "libModules", "initramfs", "esp", "fstab", "verity", "dracut"}

SameDrivers == \A x \in DriverFields : img'[x] = img[x]

\* Nothing that the drivers depend on is changed.
LEMMA DriversKept ==
    ASSUME Control, DriversInv, StepMade, step \notin {16, 17, 18, 20}, SameDrivers,
           loc'.split = loc.split, ukiInfo'.staged = ukiInfo.staged, DOMAIN ukiInfo'.lines = DOMAIN ukiInfo.lines
    PROVE  DriversInv'
<1>1. /\ img'.vmlinuz = img.vmlinuz /\ img'.libModules = img.libModules /\ img'.initramfs = img.initramfs
      /\ img'.esp = img.esp /\ img'.dracut = img.dracut
  BY DEF SameDrivers, DriverFields
<1>2. \A drivers : HasDrivers(img', drivers) <=> HasDrivers(img, drivers)
  BY DEF SameDrivers, DriverFields, HasDrivers
<1>3. Uki' = Uki /\ cfg' = cfg /\ result = "running" /\ result' = "running"
  BY DEF StepMade, Uki
<1>4. (BootHasDrivers' <=> BootHasDrivers)
  BY <1>1, <1>2 DEF BootHasDrivers
<1>5. /\ UkisHaveDrivers(img.libModules)' <=> UkisHaveDrivers(img.libModules)
      /\ UkisHaveDrivers(img.libModules \ img.vmlinuz)' <=> UkisHaveDrivers(img.libModules \ img.vmlinuz)
  BY <1>1, <1>2 DEF UkisHaveDrivers
<1>6. (step' <= 3 => step <= 3) /\ (step' > 20 => step > 20)
  BY DEF StepMade
<1> SUFFICES ASSUME ~loc.split
             PROVE  DriversInv'
  BY DEF DriversInv
<1>7. BootHasDrivers
  BY <1>3 DEF DriversInv
<1> QED
  BY <1>1, <1>2, <1>3, <1>4, <1>5, <1>6, <1>7 DEF DriversInv

\* The two steps that add drivers: a new initramfs is asked for, and no UKI is kept.
LEMMA DriversAsked ==
    ASSUME Control, DriversInv, StepMade, step \in {16, 17}, loc'.split = loc.split,
           NEW fields, Frame(img, img', fields), Shape,
           fields \intersect {"vmlinuz", "libModules", "initramfs", "esp"} = {},
           \/ SameDrivers /\ (step = 17 /\ loc.overlayUpdated => loc'.overlayUpdated)
           \/ /\ HasDrivers(img, img.dracut) => HasDrivers(img', img'.dracut)
              /\ loc'.overlayUpdated \/ (step = 17 /\ loc'.verityUpdated)
              /\ ~(Uki \in {"passthrough", "modify"} /\ ~SplitChain(cfg))
    PROVE  DriversInv'
<1>1. \A x \in {"vmlinuz", "libModules", "initramfs", "esp"} : img'[x] = img[x]
  BY DEF Shape, Frame, ImageFields
<1>2. /\ Uki' = Uki /\ cfg' = cfg /\ result = "running" /\ result' = "running"
      /\ step' = step + 1 /\ step' \in {17, 18} /\ ~(step <= 3) /\ ~(step > 20) /\ ~(step' <= 3) /\ ~(step' > 20)
  BY DEF StepMade, Uki
<1> SUFFICES ASSUME ~loc.split
             PROVE  DriversInv'
  BY DEF DriversInv
<1>3. ~SplitChain(cfg) /\ HasDrivers(img, img.dracut) /\ img.vmlinuz \subseteq DOMAIN img.initramfs
  BY <1>2 DEF DriversInv
<1>4. CASE SameDrivers /\ (step = 17 /\ loc.overlayUpdated => loc'.overlayUpdated)
  <2>1. \A drivers : HasDrivers(img', drivers) <=> HasDrivers(img, drivers)
    BY <1>4 DEF SameDrivers, DriverFields, HasDrivers
  <2>2. img'.dracut = img.dracut
    BY <1>4 DEF SameDrivers, DriverFields
  <2>3. BootHasDrivers' <=> BootHasDrivers
    BY <1>1, <2>1 DEF BootHasDrivers
  <2>4. UkisHaveDrivers(img.libModules \ img.vmlinuz)' <=> UkisHaveDrivers(img.libModules \ img.vmlinuz)
    BY <1>1, <2>1 DEF UkisHaveDrivers
  <2>5. (step' \in {17, 18} /\ loc'.overlayUpdated) \/ BootHasDrivers
    BY <1>2, <1>4 DEF DriversInv
  <2>6. Uki \in {"passthrough", "modify"} => UkisHaveDrivers(img.libModules \ img.vmlinuz)
    BY <1>2 DEF DriversInv
  <2> QED
    BY <1>1, <1>2, <1>3, <2>1, <2>2, <2>3, <2>4, <2>5, <2>6 DEF DriversInv
<1>5. CASE /\ HasDrivers(img, img.dracut) => HasDrivers(img', img'.dracut)
           /\ loc'.overlayUpdated \/ (step = 17 /\ loc'.verityUpdated)
           /\ ~(Uki \in {"passthrough", "modify"} /\ ~SplitChain(cfg))
  BY <1>1, <1>2, <1>3, <1>5 DEF DriversInv
<1> QED
  BY <1>4, <1>5

\* The image keeps its fields and grub's.
LEMMA HasGrubKept ==
    ASSUME Shape, NEW fields, Frame(img, img', fields), GrubKept(img, img')
    PROVE  HasGrub(img')
BY GrubDomain DEF Shape, Frame, GrubKept, HasGrub

\* The fields the invariant speaks of, grub and unlabelled apart.
Tracked == DriverFields \union {"resolv", "baselineResolv", "etcMounted", "etcWorkDir"}

\* What a step leaves alone when it changes no tracked field.
LEMMA FrameTracked ==
    ASSUME Shape, NEW fields, Frame(img, img', fields), fields \intersect Tracked = {}
    PROVE  /\ SameKernels /\ SameDrivers
           /\ img'.resolv = img.resolv /\ img'.baselineResolv = img.baselineResolv
           /\ img'.etcMounted = img.etcMounted /\ img'.etcWorkDir = img.etcWorkDir
<1>1. \A x \in Tracked : img'[x] = img[x]
  BY DEF Shape, Frame, ImageFields, Tracked, DriverFields
<1> QED
  BY <1>1 DEF Tracked, DriverFields, SameKernels, SameDrivers

\* The steps at which nothing that the invariant speaks of changes but grub, unlabelled and
\* the command lines of uki-kernel-info.json.
LEMMA PlainStep ==
    ASSUME ImageInv, StepMade, step \notin {5, 15, 16, 17, 18, 20, 22, 23, 24, 26}, UNCHANGED loc,
           NEW fields, Frame(img, img', fields), fields \intersect Tracked = {}, GrubKept(img, img'),
           DOMAIN ukiInfo' = DOMAIN ukiInfo, DOMAIN ukiInfo'.lines = DOMAIN ukiInfo.lines,
           ukiInfo'.staged = ukiInfo.staged,
           step > 23 => img'.unlabelled \subseteq img.unlabelled \union {"finalizeScripts"}
    PROVE  ImageInv'
<1> USE DEF ImageInv
<1>1. /\ SameKernels /\ SameDrivers
      /\ img'.resolv = img.resolv /\ img'.baselineResolv = img.baselineResolv
      /\ img'.etcMounted = img.etcMounted /\ img'.etcWorkDir = img.etcWorkDir
  BY FrameTracked
<1>2. Shape'
  BY HasGrubKept, ShapeKept
<1>3. Control' /\ ChainAccepted'
  BY ControlKept
<1>4. KnownKernels'
  BY <1>1, KnownKernelsKept DEF GrubKept
<1>5. ResolvInv' /\ EtcInv' /\ LabelInv'
  BY <1>1, ResolvKept, EtcKept, LabelKept
<1>6. KeptUkiInv' /\ ModulesInv' /\ GrubInv' /\ CreateUkiInv'
  BY <1>1, KeptUkiKept, ModulesKept, GrubInvKept, CreateUkiKept
<1>7. DriversInv'
  BY <1>1, DriversKept
<1> QED
  BY <1>2, <1>3, <1>4, <1>5, <1>6, <1>7

-----------------------------------------------------------------------------
(* The steps, in their order.                                               *)

\* An action at a position of Steps that advances makes a step there.
LEMMA StepMadeAt ==
    ASSUME Control, NEW n \in 1..27, AtStep(Steps[n]), Advance
    PROVE  StepMade /\ step = n
<1>1. step \in 1..28 /\ n \in 1..28 /\ Steps[step] = Steps[n]
  BY DEF AtStep, Control
<1>2. step = n
  BY <1>1, StepPosition
<1> QED
  BY <1>2 DEF AtStep, Advance, StepMade

\* A step that does not name grub keeps its configuration.
LEMMA FrameGrub ==
    ASSUME Shape, NEW fields, Frame(img, img', fields), "grub" \notin fields
    PROVE  GrubKept(img, img') /\ img'.grub = img.grub
<1>1. img'.grub = img.grub
  BY DEF Shape, Frame, ImageFields
<1> QED
  BY <1>1 DEF GrubKept

\* A step before selinuxSetFiles that writes files of no consequence to the invariant.
LEMMA FilesStep ==
    ASSUME ImageInv, StepMade, step < 23, step \notin {5, 15, 16, 17, 18, 20, 22}, UNCHANGED <<loc, ukiInfo>>,
           NEW fields, Frame(img, img', fields), fields \intersect (Tracked \union {"grub"}) = {}
    PROVE  ImageInv'
<1>1. GrubKept(img, img')
  BY FrameGrub DEF ImageInv
<1>2. step \in 1..27
  BY DEF StepMade
<1> QED
  BY <1>1, <1>2, PlainStep

\* The fields of the steps that only write files.
FileFields == {"unlabelled", "hostname", "users", "groups", "services", "disabledModules", "loadedModules", "manager"}

\* Files that are written after one of these fields was changed.
LEMMA WrittenFile ==
    ASSUME NEW mid, NEW F, Frame(img, mid, F), F \subseteq FileFields
    PROVE  Frame(img, Written(mid), FileFields)
<1>1. Frame(mid, Written(mid), {"unlabelled"})
  BY WrittenFrame
<1>2. Frame(img, Written(mid), F \union {"unlabelled"})
  BY <1>1, FrameThen
<1> QED
  BY <1>2, FrameMore DEF FileFields

\* The invariant speaks of none of the fields that the file steps write.
LEMMA FileFieldsUntracked == FileFields \intersect (Tracked \union {"grub"}) = {}
BY DEF FileFields, Tracked, DriverFields

\* The steps that only write files.
LEMMA FileSteps ==
    ASSUME ImageInv,
           \/ PackagesDone \/ UpdateHostname \/ AddOrUpdateUsers \/ copyAdditionalDirs \/ copyAdditionalFiles
           \/ EnableOrDisableServices \/ LoadOrDisableModules \/ addCustomizerRelease \/ addImageHistory
           \/ removeOsPackageManager
    PROVE  ImageInv'
<1> SUFFICES StepMade /\ step \in {4, 6, 7, 8, 9, 10, 11, 12, 13, 21} /\ UNCHANGED <<loc, ukiInfo>>
             /\ Frame(img, img', FileFields)
  BY FilesStep, FileFieldsUntracked
<1> USE DEF ImageInv
<1>1. Frame(img, img, {}) /\ Frame(img, img, FileFields)
  BY FrameStays
<1>2. Frame(img, Written(img), FileFields)
  BY <1>1, WrittenFile
<1>3. ASSUME NEW n \in 1..27, NEW im, AtStep(Steps[n]), Becomes(im), Frame(img, im, FileFields)
      PROVE  StepMade /\ step = n /\ UNCHANGED <<loc, ukiInfo>> /\ Frame(img, img', FileFields)
  <2>1. Advance /\ img' = im /\ UNCHANGED <<loc, ukiInfo>>
    BY <1>3 DEF Becomes
  <2> QED
    BY <1>3, <2>1, StepMadeAt
<1>4. CASE PackagesDone
  BY <1>2, <1>3, <1>4, StepsValues DEF PackagesDone
<1>5. CASE UpdateHostname
  <2> DEFINE mid == [img EXCEPT !.hostname = resolveHostname(cfg)]
  <2>1. Frame(img, mid, {"hostname"})
    BY DEF Frame
  <2>2. Frame(img, Written(mid), FileFields)
    BY <2>1, WrittenFile DEF FileFields
  <2>3. PICK im : Becomes(im) /\ (im = img \/ im = Written(mid))
    BY <1>5 DEF UpdateHostname
  <2>4. AtStep(Steps[6]) /\ Frame(img, im, FileFields)
    BY <1>1, <1>5, <2>2, <2>3, StepsValues DEF UpdateHostname
  <2> QED
    BY <1>3, <2>3, <2>4
<1>6. CASE AddOrUpdateUsers
  <2> DEFINE mid == [img EXCEPT !.groups = GroupsBefore(Len(cfg) + 1), !.users = UsersBefore(Len(cfg) + 1)]
  <2>1. Frame(img, mid, {"groups", "users"})
    BY DEF Frame
  <2>2. Frame(img, Written(mid), FileFields)
    BY <2>1, WrittenFile DEF FileFields
  <2> QED
    BY <1>3, <1>6, <2>2, StepsValues DEF AddOrUpdateUsers
<1>7. CASE copyAdditionalDirs \/ copyAdditionalFiles \/ addCustomizerRelease \/ addImageHistory
  <2>1. PICK im \in {img, Written(img)} : Becomes(im)
    BY <1>7 DEF copyAdditionalDirs, copyAdditionalFiles, addCustomizerRelease, addImageHistory
  <2> QED
    BY <1>1, <1>2, <1>3, <1>7, <2>1, StepsValues
       DEF copyAdditionalDirs, copyAdditionalFiles, addCustomizerRelease, addImageHistory
<1>8. CASE EnableOrDisableServices
  <2> DEFINE mid == [img EXCEPT !.services = ServicesOfChain]
  <2>1. Becomes(Written(mid))
    BY <1>8 DEF EnableOrDisableServices
  <2>2. Frame(img, mid, {"services"})
    BY DEF Frame
  <2>3. Frame(img, Written(mid), FileFields)
    BY <2>2, WrittenFile DEF FileFields
  <2> QED
    BY <1>3, <1>8, <2>1, <2>3, StepsValues DEF EnableOrDisableServices
<1>9. CASE LoadOrDisableModules
  <2> DEFINE always == UNION {ModulesWith(cfg[i], {"always"}) : i \in 1..Len(cfg)}
             mid == [img EXCEPT !.disabledModules = DisabledBefore(Len(cfg) + 1), !.loadedModules = @ \union always]
  <2>1. Becomes(Written(mid))
    BY <1>9 DEF LoadOrDisableModules
  <2> HIDE DEF always
  <2>2. Frame(img, mid, {"disabledModules", "loadedModules"})
    BY DEF Frame
  <2>3. Frame(img, Written(mid), FileFields)
    BY <2>2, WrittenFile DEF FileFields
  <2> QED
    BY <1>3, <1>9, <2>1, <2>3, StepsValues DEF LoadOrDisableModules
<1>10. CASE removeOsPackageManager
  <2> DEFINE mid == [img EXCEPT !.manager = FALSE]
  <2>1. Frame(img, mid, {"manager"})
    BY DEF Frame
  <2>2. Frame(img, Written(mid), FileFields)
    BY <2>1, WrittenFile DEF FileFields
  <2>3. PICK im : Becomes(im) /\ (im = img \/ im = Written(mid))
    BY <1>10 DEF removeOsPackageManager
  <2> QED
    BY <1>1, <1>3, <1>10, <2>2, <2>3, StepsValues DEF removeOsPackageManager
<1> QED
  BY <1>4, <1>5, <1>6, <1>7, <1>8, <1>9, <1>10

-----------------------------------------------------------------------------
(* Steps that leave the kernels and the boot configuration alone.           *)

\* A step that names none of these fields keeps kernels and drivers.
LEMMA FrameKernels ==
    ASSUME Shape, NEW fields, Frame(img, img', fields),
           fields \intersect DriverFields = {}
    PROVE  SameKernels /\ SameDrivers
<1>1. \A x \in DriverFields : img'[x] = img[x]
  BY DEF Shape, Frame, ImageFields, DriverFields
<1> QED
  BY <1>1 DEF SameKernels, SameDrivers, DriverFields

\* A local variable that no part of the invariant but one speaks of.
LocFrame(vs) == \A v \in DOMAIN NoLocals \ vs : loc'[v] = loc[v]

\* A local variable is set, and no other.
LEMMA LocUpdate ==
    ASSUME Shape, NEW v \in DOMAIN NoLocals, NEW value, loc' = [loc EXCEPT ![v] = value]
    PROVE  DOMAIN loc' = DOMAIN loc /\ loc'[v] = value /\ LocFrame({v})
BY DEF Shape, LocFrame

\* A step that may change resolv.conf, the /etc overlay and labels, but nothing that boots.
LEMMA BootKeptStep ==
    ASSUME ImageInv, StepMade, step \notin {5, 15, 16, 17, 18, 20, 26},
           NEW fields, Frame(img, img', fields), UNCHANGED ukiInfo,
           fields \intersect (DriverFields \union {"grub"}) = {},
           DOMAIN loc' = DOMAIN loc, LocFrame({"resolv", "selinuxMode"}),
           ResolvInv', EtcInv', LabelInv'
    PROVE  ImageInv'
<1> USE DEF ImageInv
<1>1. SameKernels /\ SameDrivers /\ GrubKept(img, img')
  BY FrameKernels, FrameGrub
<1>2. Shape'
  BY <1>1, HasGrubKept, ShapeKept
<1>3. \A v \in {"cf", "overlayUpdated", "verityUpdated", "orphans", "split"} : loc'[v] = loc[v]
  BY DEF LocFrame, NoLocals
<1>4. Control' /\ ChainAccepted'
  BY <1>3, ControlKept
<1>5. KnownKernels'
  BY <1>1, KnownKernelsKept DEF GrubKept
<1>6. KeptUkiInv' /\ ModulesInv' /\ GrubInv' /\ CreateUkiInv'
  BY <1>1, <1>3, KeptUkiKept, ModulesKept, GrubInvKept, CreateUkiKept
<1>7. DriversInv'
  BY <1>1, <1>3, DriversKept
<1> QED
  BY <1>2, <1>4, <1>5, <1>6, <1>7

\* Local variables that stay.
LEMMA LocStays ==
    ASSUME UNCHANGED loc, NEW vs PROVE DOMAIN loc' = DOMAIN loc /\ LocFrame(vs)
BY DEF LocFrame

\* SetupEtcOverlay keeps the invariant: from here to etcFinalize /etc may be an overlay.
LEMMA SetupEtcOverlayStep ==
    ASSUME ImageInv, SetupEtcOverlay
    PROVE  ImageInv'
<1> USE DEF ImageInv
<1>1. AtStep(Steps[1]) /\ Advance /\ UNCHANGED <<loc, ukiInfo>>
  BY StepsValues DEF SetupEtcOverlay, Becomes
<1>2. StepMade /\ step = 1
  BY <1>1, StepMadeAt
<1>3. img' = img \/ img' = [img EXCEPT !.etcMounted = TRUE, !.etcWorkDir = TRUE]
  BY DEF SetupEtcOverlay, Becomes
<1>4. Frame(img, img', {"etcMounted", "etcWorkDir"})
  BY <1>3 DEF Frame
<1>5. img'.resolv = img.resolv /\ img'.baselineResolv = img.baselineResolv
  BY <1>4 DEF Shape, Frame, ImageFields
<1>6. img' = img \/ (img'.etcMounted /\ img'.etcWorkDir)
  BY <1>3 DEF Shape, ImageFields
<1>7. ResolvInv' /\ LabelInv'
  BY <1>1, <1>2, <1>5, ResolvKept, LabelKept
<1>8. EtcInv'
  BY <1>2, <1>6 DEF EtcInv, StepMade
<1> QED
  BY <1>1, <1>2, <1>4, <1>7, <1>8, LocStays, BootKeptStep DEF DriverFields

\* overrideResolvConf remembers a resolv.conf that is not the host's.
LEMMA OverrideResolvStep ==
    ASSUME ImageInv, overrideResolvConf
    PROVE  ImageInv'
<1> USE DEF ImageInv
<1>1. AtStep(Steps[2]) /\ Advance /\ UNCHANGED ukiInfo
  BY StepsValues DEF overrideResolvConf
<1>2. StepMade /\ step = 2
  BY <1>1, StepMadeAt
<1>3. Frame(img, img', {"resolv"})
  BY DEF overrideResolvConf, Frame
<1>4. DOMAIN loc' = DOMAIN loc /\ loc'.resolv = img.resolv /\ LocFrame({"resolv"})
  BY LocUpdate DEF overrideResolvConf, NoLocals
<1>5. /\ img'.etcMounted = img.etcMounted /\ img'.etcWorkDir = img.etcWorkDir
      /\ img'.baselineResolv = img.baselineResolv
  BY <1>3 DEF Shape, Frame, ImageFields
<1>6. ResolvInv'
  BY <1>2, <1>4, <1>5 DEF ResolvInv, StepMade
<1>7. EtcInv' /\ LabelInv'
  BY <1>2, <1>5, EtcKept, LabelKept
<1> QED
  BY <1>1, <1>2, <1>3, <1>4, <1>6, <1>7, BootKeptStep DEF LocFrame, DriverFields

\* restoreResolvConf puts back what was remembered, or a link, or nothing.
LEMMA RestoreResolvStep ==
    ASSUME ImageInv, restoreResolvConf
    PROVE  ImageInv'
<1> USE DEF ImageInv
<1>1. AtStep(Steps[22]) /\ Advance /\ UNCHANGED <<loc, ukiInfo>>
  BY StepsValues DEF restoreResolvConf, Becomes
<1>2. StepMade /\ step = 22
  BY <1>1, StepMadeAt
<1> DEFINE link == IF "systemd-resolved" \in img.services THEN "symlink" ELSE "none"
           resolv == IF loc.resolv # "none" THEN loc.resolv ELSE link
           mid == [img EXCEPT !.resolv = resolv]
<1>3. img' = Written(mid)
  BY DEF restoreResolvConf, Becomes
<1>4. resolv # "host"
  BY DEF ResolvInv
<1> HIDE DEF resolv
<1>5. Frame(img, mid, {"resolv"}) /\ mid.resolv = resolv /\ DOMAIN mid = ImageFields
  BY DEF Frame, Shape, ImageFields
<1>6. Frame(mid, img', {"unlabelled"})
  BY <1>3, WrittenFrame
<1> HIDE DEF mid
<1>7. Frame(img, img', {"resolv", "unlabelled"})
  BY <1>5, <1>6 DEF Frame
<1>8. img'.resolv = resolv
  BY <1>5, <1>6 DEF Frame, ImageFields
<1>9. /\ img'.etcMounted = img.etcMounted /\ img'.etcWorkDir = img.etcWorkDir
      /\ img'.baselineResolv = img.baselineResolv
  BY <1>7 DEF Shape, Frame, ImageFields
<1>10. ResolvInv'
  BY <1>1, <1>4, <1>8, <1>9 DEF ResolvInv
<1>11. EtcInv' /\ LabelInv'
  BY <1>2, <1>9, EtcKept, LabelKept
<1> QED
  BY <1>1, <1>2, <1>7, <1>10, <1>11, LocStays, BootKeptStep DEF DriverFields

\* selinuxSetFiles labels everything unless SELinux is disabled.
LEMMA SetFilesStep ==
    ASSUME ImageInv, selinuxSetFiles
    PROVE  ImageInv'
<1> USE DEF ImageInv
<1>1. AtStep(Steps[23]) /\ Advance /\ UNCHANGED <<loc, ukiInfo>>
  BY StepsValues DEF selinuxSetFiles, Becomes
<1>2. StepMade /\ step = 23
  BY <1>1, StepMadeAt
<1>3. Frame(img, img', {"unlabelled"}) /\ (loc.selinuxMode # "disabled" => img'.unlabelled = {})
  BY DEF selinuxSetFiles, Becomes, Frame, Shape, ImageFields
<1>4. /\ img'.resolv = img.resolv /\ img'.baselineResolv = img.baselineResolv
      /\ img'.etcMounted = img.etcMounted /\ img'.etcWorkDir = img.etcWorkDir
  BY <1>3 DEF Shape, Frame, ImageFields
<1>5. ResolvInv' /\ EtcInv'
  BY <1>1, <1>2, <1>4, ResolvKept, EtcKept
<1>6. LabelInv'
  BY <1>1, <1>3 DEF LabelInv
<1> QED
  BY <1>1, <1>2, <1>3, <1>5, <1>6, LocStays, BootKeptStep DEF DriverFields

\* FinalizeEtcOverlay folds a resolv.conf that was restored before.
LEMMA EtcFinalizeStep ==
    ASSUME ImageInv, FinalizeEtcOverlay
    PROVE  ImageInv'
<1> USE DEF ImageInv
<1>1. AtStep(Steps[24]) /\ Advance /\ UNCHANGED <<loc, ukiInfo>>
  BY StepsValues DEF FinalizeEtcOverlay, Becomes
<1>2. StepMade /\ step = 24
  BY <1>1, StepMadeAt
<1> DEFINE baseline == IF resolveStorage(cfg).reinit THEN img.resolv ELSE img.baselineResolv
           folded == [img EXCEPT !.etcMounted = FALSE, !.etcWorkDir = FALSE, !.baselineResolv = baseline]
<1>3. img' = IF ~img.etcMounted THEN img ELSE folded
  BY DEF FinalizeEtcOverlay, Becomes
<1>4. baseline # "host"
  BY <1>2 DEF ResolvInv, StepMade
<1> HIDE DEF baseline
<1>5. /\ Frame(img, folded, {"etcMounted", "etcWorkDir", "baselineResolv"})
      /\ ~folded.etcMounted /\ ~folded.etcWorkDir /\ folded.baselineResolv = baseline
  BY DEF Frame, Shape, ImageFields
<1> HIDE DEF folded
<1>6. Frame(img, img', {"etcMounted", "etcWorkDir", "baselineResolv"})
  BY <1>3, <1>5, FrameStays
<1>7. img'.resolv = img.resolv /\ img'.unlabelled = img.unlabelled
  BY <1>6 DEF Shape, Frame, ImageFields
<1>8. ResolvInv'
  BY <1>1, <1>2, <1>3, <1>4, <1>5, <1>7 DEF ResolvInv, StepMade
<1>9. EtcInv'
  BY <1>2, <1>3, <1>5 DEF EtcInv, StepMade
<1>10. LabelInv'
  BY <1>1, <1>2, <1>7, LabelKept
<1> QED
  BY <1>1, <1>2, <1>6, <1>8, <1>9, <1>10, LocStays, BootKeptStep DEF DriverFields

-----------------------------------------------------------------------------
(* Steps that change kernels or the boot configuration.                     *)

\* What the parts about files need of a step that leaves loc alone.
LEMMA FilesKept ==
    ASSUME ImageInv, StepMade, step \notin {22, 23, 24}, NEW fields, Frame(img, img', fields),
           fields \intersect {"resolv", "baselineResolv", "etcMounted", "etcWorkDir"} = {},
           loc'.resolv = loc.resolv, step < 23 \/ (loc'.selinuxMode = loc.selinuxMode /\ "unlabelled" \notin fields)
    PROVE  ResolvInv' /\ EtcInv' /\ LabelInv'
<1> USE DEF ImageInv
<1>1. \A x \in {"resolv", "baselineResolv", "etcMounted", "etcWorkDir"} : img'[x] = img[x]
  BY DEF Shape, Frame, ImageFields
<1>2. "unlabelled" \notin fields => img'.unlabelled = img.unlabelled
  BY DEF Shape, Frame, ImageFields
<1>3. step \in 1..27
  BY DEF StepMade
<1> QED
  BY <1>1, <1>2, <1>3, ResolvKept, EtcKept, LabelKept

\* A create run brings the kernels of the UKIs back to /boot, with their initramfs.
LEMMA ExtractUkisStep ==
    ASSUME ImageInv, ExtractUkis
    PROVE  ImageInv'
<1> USE DEF ImageInv
<1>1. AtStep(Steps[3]) /\ Advance /\ UNCHANGED loc
  BY StepsValues DEF ExtractUkis
<1>2. StepMade /\ step = 3
  BY <1>1, StepMadeAt
<1> DEFINE inits == [k \in DOMAIN img.esp |-> img.esp[k].init]
           init == Merge(img.initramfs, inits)
           found == img.vmlinuz \union DOMAIN img.esp
           extracted == [img EXCEPT !.vmlinuz = found, !.initramfs = init]
           lines == [k \in DOMAIN img.esp |-> img.esp[k].line]
           saved == [ukiInfo EXCEPT !.exists = TRUE, !.lines = lines]
<1>3. /\ DOMAIN init = DOMAIN img.initramfs \union DOMAIN img.esp /\ DOMAIN lines = DOMAIN img.esp
      /\ \A k \in DOMAIN init : init[k] = IF k \in DOMAIN img.esp THEN img.esp[k].init ELSE img.initramfs[k]
  BY DEF Merge
<1>4. img' = IF Uki = "create" THEN extracted ELSE img
  BY DEF ExtractUkis, extractKernelAndInitramfsFromUkis
<1>5. ukiInfo' = ukiInfo \/ ukiInfo' = saved
  BY DEF ExtractUkis, SavedUkiCmdlines
<1> HIDE DEF init, lines, found
<1>6. /\ Frame(img, extracted, {"vmlinuz", "initramfs"})
      /\ extracted.vmlinuz = found /\ extracted.initramfs = init
  BY DEF Frame, Shape, ImageFields
<1>7. DOMAIN saved = DOMAIN ukiInfo /\ saved.lines = lines
  BY DEF Shape, NoUkiInfo
<1> HIDE DEF extracted, saved
<1>8. Frame(img, img', {"vmlinuz", "initramfs"})
  BY <1>4, <1>6, FrameStays
<1>9. /\ img'.libModules = img.libModules /\ img'.esp = img.esp
      /\ img'.grub = img.grub /\ GrubKept(img, img') /\ HasGrub(img')
  <2>1. img'.libModules = img.libModules /\ img'.esp = img.esp
    BY <1>8 DEF Shape, Frame, ImageFields
  <2>2. GrubKept(img, img') /\ img'.grub = img.grub
    BY <1>8, FrameGrub
  <2> QED
    BY <1>8, <2>1, <2>2, HasGrubKept
<1>10. /\ img'.vmlinuz = IF Uki = "create" THEN found ELSE img.vmlinuz
       /\ DOMAIN img'.initramfs \subseteq DOMAIN img.initramfs \union DOMAIN img.esp
  BY <1>3, <1>4, <1>6
<1>11. DOMAIN ukiInfo' = DOMAIN ukiInfo /\ DOMAIN ukiInfo'.lines \subseteq DOMAIN ukiInfo.lines \union DOMAIN img.esp
  BY <1>3, <1>5, <1>7
<1>12. Uki' = Uki /\ step' = 4 /\ result = "running" /\ result' = "running" /\ cfg' = cfg
  BY <1>2 DEF StepMade, Uki
<1>13. Shape'
  BY <1>1, <1>9, <1>11, ShapeKept
<1>14. Control' /\ ChainAccepted'
  BY <1>1, <1>2, ControlKept
<1>15. KnownKernels'
  BY <1>9, <1>10, <1>11 DEF KnownKernels, KernelsOf, found
<1>16. ResolvInv' /\ EtcInv' /\ LabelInv'
  BY <1>1, <1>2, <1>8, FilesKept
<1>17. KeptUkiInv'
  BY <1>1, <1>12 DEF KeptUkiInv
<1>18. ModulesInv'
  BY <1>1, <1>2, <1>9, <1>10, <1>12 DEF ModulesInv, found
<1>19. GrubInv'
  BY <1>9, <1>10, <1>12 DEF GrubInv, found
<1>20. CreateUkiInv'
  BY <1>12 DEF CreateUkiInv
<1>21. DriversInv'
  <2> SUFFICES ASSUME ~loc.split PROVE DriversInv'
    BY <1>1 DEF DriversInv
  <2>1. img'.fstab = img.fstab /\ img'.verity = img.verity /\ img'.dracut = img.dracut
    BY <1>8 DEF Shape, Frame, ImageFields
  <2>2. \A drivers : HasDrivers(img', drivers) <=> HasDrivers(img, drivers)
    BY <2>1 DEF HasDrivers
  <2>3. /\ ~SplitChain(cfg) /\ HasDrivers(img, img.dracut) /\ img.vmlinuz \subseteq DOMAIN img.initramfs
        /\ BootHasDrivers /\ UkisHaveDrivers(img.libModules)
        /\ Uki \in {"passthrough", "modify"} => UkisHaveDrivers(img.libModules \ img.vmlinuz)
    BY <1>2, <1>12 DEF DriversInv
  <2>4. BootHasDrivers' /\ img'.vmlinuz \subseteq DOMAIN img'.initramfs
    <3>1. CASE Uki = "create"
      <4>1. img'.initramfs = init /\ img'.vmlinuz = found
        BY <1>4, <1>6, <3>1
      <4> QED
        BY <1>3, <1>9, <2>2, <2>3, <4>1 DEF BootHasDrivers, UkisHaveDrivers, found
    <3>2. CASE Uki # "create"
      BY <1>4, <2>3, <3>2 DEF BootHasDrivers
    <3> QED
      BY <3>1, <3>2
  <2>5. Uki \in {"passthrough", "modify"} => UkisHaveDrivers(img.libModules \ img.vmlinuz)'
    BY <1>4, <2>3 DEF UkisHaveDrivers
  <2> QED
    BY <1>12, <2>1, <2>2, <2>3, <2>4, <2>5 DEF DriversInv
<1> QED
  BY <1>13, <1>14, <1>15, <1>16, <1>17, <1>18, <1>19, <1>20, <1>21

\* A run that fails: only the parts that hold for any image are left.
LEMMA RunFails ==
    ASSUME ImageInv, result' = "failed", UNCHANGED <<cfg, ukiInfo, step, loc, runs>>,
           pkgStep' = "idle", HasGrub(img'), KernelsOf(img') \subseteq Kernels,
           img'.baselineResolv = img.baselineResolv
    PROVE  ImageInv'
<1> USE DEF ImageInv
<1>1. Shape' /\ Control' /\ ChainAccepted' /\ KnownKernels'
  BY GrubDomain DEF Shape, HasGrub, Control, ChainAccepted, KnownKernels
<1>2. ResolvInv' /\ EtcInv' /\ LabelInv'
  BY DEF ResolvInv, EtcInv, LabelInv
<1>3. KeptUkiInv' /\ ModulesInv' /\ GrubInv' /\ CreateUkiInv' /\ DriversInv'
  BY DEF KeptUkiInv, ModulesInv, GrubInv, CreateUkiInv, DriversInv
<1> QED
  BY <1>1, <1>2, <1>3

\* What the /etc overlay's end leaves of an image.
LEMMA Unmounted ==
    ASSUME NEW im, HasGrub(im), NEW new, new = [im EXCEPT !.etcMounted = FALSE]
    PROVE  /\ HasGrub(new) /\ KernelsOf(new) = KernelsOf(im) /\ new.baselineResolv = im.baselineResolv
<1>1. DOMAIN new = ImageFields /\ \A x \in ImageFields \ {"etcMounted"} : new[x] = im[x]
  BY DEF HasGrub
<1>2. \A x \in {"grub", "vmlinuz", "libModules", "initramfs", "esp", "baselineResolv"} : new[x] = im[x]
  BY <1>1 DEF ImageFields
<1> QED
  BY <1>1, <1>2 DEF HasGrub, KernelsOf

\* The files of a chain are numbered from 1.
LEMMA LenChain ==
    ASSUME NEW chain \in Chains PROVE Len(chain) \in Nat /\ DOMAIN chain = 1..Len(chain)
<1>1. chain \in Seq({chain[i] : i \in DOMAIN chain})
  BY ChainsAssumption, Zenon
<1> QED
  BY <1>1

\* What a file of a chain asks for is typed.
LEMMA FilesTyped ==
    ASSUME NEW chain \in Chains, NEW i \in 1..Len(chain)
    PROVE  /\ chain[i].ops \subseteq PackageOps /\ chain[i].snapshot \in BOOLEAN /\ chain[i].uki \in UkiModes
           /\ chain[i].selinux \in {""} \union SELinuxModes /\ chain[i].extra \in Seq(Args)
           /\ \A m \in DOMAIN chain[i].modules : chain[i].modules[m].mode \in ModuleModes
<1>1. i \in DOMAIN chain
  BY LenChain
<1> QED
  BY <1>1, ChainsAssumption, Zenon

\* A step that fails ends the run.
LEMMA StepFailsStep ==
    ASSUME ImageInv, StepFails
    PROVE  ImageInv'
<1> USE DEF ImageInv
<1>1. HasGrub(img)
  BY GrubDomain DEF Shape, HasGrub
<1>2. img' = [img EXCEPT !.etcMounted = FALSE]
  BY DEF StepFails, Abort
<1>3. HasGrub(img') /\ KernelsOf(img') = KernelsOf(img) /\ img'.baselineResolv = img.baselineResolv
  BY <1>1, <1>2, Unmounted
<1>4. /\ result' = "failed" /\ pkgStep' = "idle"
      /\ UNCHANGED <<cfg, ukiInfo, step, loc, runs>>
  BY DEF StepFails, Abort, pkgVars
<1> QED
  BY <1>3, <1>4, RunFails DEF KnownKernels

-----------------------------------------------------------------------------
(* The package step.                                                        *)

\* The packages of the next file of the chain.
LEMMA StartPackagesStep ==
    ASSUME ImageInv, StartPackages
    PROVE  ImageInv'
<1> USE DEF ImageInv
<1>1. step = 4 /\ result = "running"
  <2>1. AtStep(Steps[4]) /\ step \in 1..28
    BY StepsValues DEF StartPackages, Control
  <2>2. Steps[step] = Steps[4]
    BY <2>1 DEF AtStep
  <2> QED
    BY <2>1, <2>2, StepPosition DEF AtStep
<1>2. /\ UNCHANGED <<img, cfg, ukiInfo, step, result, runs>>
      /\ loc' = [loc EXCEPT !.cf = loc.cf + 1] /\ loc.cf <= Len(cfg)
  BY DEF StartPackages
<1>3. DOMAIN loc' = DOMAIN loc /\ loc'.cf = loc.cf + 1 /\ LocFrame({"cf"})
  BY <1>2, LocUpdate DEF NoLocals
<1>4. \A v \in DOMAIN NoLocals \ {"cf"} : loc'[v] = loc[v]
  BY <1>3 DEF LocFrame
<1>5. Shape' /\ ChainAccepted' /\ KnownKernels'
  BY <1>2, <1>3 DEF Shape, ChainAccepted, KnownKernels
<1>6. Control'
  <2>1. Len(cfg) \in Nat
    BY LenChain DEF Control
  <2>2. loc'.cf \in 1..(Len(cfg) + 1)
    BY <1>2, <1>3, <2>1 DEF Control
  <2> QED
    BY <1>1, <1>2, <2>2 DEF Control
<1>7. ResolvInv' /\ EtcInv' /\ LabelInv'
  BY <1>2, <1>4 DEF ResolvInv, EtcInv, LabelInv, NoLocals
<1>8. Uki' = Uki
  BY <1>2 DEF Uki
<1>9. KeptUkiInv' /\ ModulesInv' /\ GrubInv' /\ CreateUkiInv'
  BY <1>2, <1>4, <1>8 DEF KeptUkiInv, ModulesInv, GrubInv, CreateUkiInv, NoLocals
<1>10. DriversInv'
  BY <1>2, <1>4, <1>8 DEF DriversInv, BootHasDrivers, UkisHaveDrivers, NoLocals
<1> QED
  BY <1>5, <1>6, <1>7, <1>9, <1>10

\* Packages are managed at the packages step only.
LEMMA PackageStepsAtPackages ==
    ASSUME Control, PackageStep \/ PackageOperation
    PROVE  step = 4
<1>1. pkgStep # "idle"
  BY DEF PackageStep, configureSnapshotTime, mountRpmSourcesHelper, mountRpmsSource, mountRpmSources,
         setupServicePrevention, refreshRpmPackageMetadata, refreshDebPackageMetadata, close,
         mountRpmSourcesUndo, deferredClose, cleanRpmCache, cleanDebCache, teardownServicePrevention,
         cleanupSnapshotTimeConfig, PackageOperation, RpmPackageOperation, DebPackageOperation, PackageOps
<1> QED
  BY <1>1 DEF Control

\* The steps of managePackages that leave the kernels alone.
LEMMA PackageManagementStep ==
    ASSUME ImageInv, PackageManagement
    PROVE  ImageInv'
<1> USE DEF ImageInv
<1>1. step = 4 /\ UNCHANGED <<cfg, ukiInfo, step, loc, runs>>
  BY PackageStepsAtPackages DEF PackageManagement
<1>2. CASE pkgStep' = "idle" /\ pkgErr'
  <2>1. HasGrub(img)
    BY GrubDomain DEF Shape, HasGrub
  <2>2. result' = "failed" /\ img' = [img EXCEPT !.etcMounted = FALSE]
    BY <1>2 DEF PackageManagement
  <2>3. HasGrub(img') /\ KernelsOf(img') = KernelsOf(img) /\ img'.baselineResolv = img.baselineResolv
    BY <2>1, <2>2, Unmounted
  <2> QED
    BY <1>1, <1>2, <2>2, <2>3, RunFails DEF KnownKernels
<1>3. CASE ~(pkgStep' = "idle" /\ pkgErr')
  <2>1. UNCHANGED <<result, img>>
    BY <1>3 DEF PackageManagement
  <2>2. Shape' /\ Control' /\ ChainAccepted' /\ KnownKernels'
    BY <1>1, <2>1 DEF Shape, Control, ChainAccepted, KnownKernels
  <2>3. ResolvInv' /\ EtcInv' /\ LabelInv'
    BY <1>1, <2>1 DEF ResolvInv, EtcInv, LabelInv
  <2>4. Uki' = Uki
    BY <1>1 DEF Uki
  <2>5. KeptUkiInv' /\ ModulesInv' /\ GrubInv' /\ CreateUkiInv'
    BY <1>1, <2>1, <2>4 DEF KeptUkiInv, ModulesInv, GrubInv, CreateUkiInv
  <2>6. DriversInv'
    BY <1>1, <2>1, <2>4 DEF DriversInv, BootHasDrivers, UkisHaveDrivers
  <2> QED
    BY <2>2, <2>3, <2>5, <2>6
<1> QED
  BY <1>2, <1>3

\* What the package manager may make of the kernels: each comes and goes with its modules.
KernelChange(im) ==
    /\ Frame(img, im, KernelFields) /\ HasGrub(im) /\ KernelsOf(im) \subseteq Kernels
    /\ im.vmlinuz \subseteq im.libModules \union (img.vmlinuz \ img.libModules)
    /\ im.grub.kind = img.grub.kind
    /\ (/\ im.grub.kind # "none"
        /\ DOMAIN img.grub.lines = img.vmlinuz /\ img.libModules \subseteq img.vmlinuz) =>
          DOMAIN im.grub.lines = im.vmlinuz /\ im.libModules \subseteq im.vmlinuz
    /\ img.vmlinuz \subseteq DOMAIN img.initramfs => im.vmlinuz \subseteq DOMAIN im.initramfs
    /\ \A k \in DOMAIN im.initramfs \intersect im.libModules :
          \/ im.initramfs[k] = img.dracut
          \/ k \in DOMAIN img.initramfs \intersect img.libModules /\ im.initramfs[k] = img.initramfs[k]
    /\ im.libModules \ im.vmlinuz \subseteq img.libModules \ img.vmlinuz

\* What an operation of the package manager may make of the kernels.
LEMMA KernelChangesAre ==
    ASSUME Shape, KnownKernels, NEW op, NEW im \in KernelChanges(op)
    PROVE  KernelChange(im)
<1>1. HasGrub(img)
  BY GrubDomain DEF Shape, HasGrub
<1>2. \/ im = img
      \/ \E k \in img.libModules : im = KernelRemoved(img, k)
      \/ \E k \in Kernels : im = KernelInstalled(img, k)
  BY DEF KernelChanges
<1>3. CASE im = img
  BY <1>1, <1>3, FrameStays DEF KernelChange, KnownKernels
<1>4. ASSUME NEW k \in img.libModules, im = KernelRemoved(img, k)
      PROVE  KernelChange(im)
  <2>1. /\ Frame(img, im, KernelFields) /\ HasGrub(im)
        /\ im.libModules = img.libModules \ {k} /\ im.vmlinuz = img.vmlinuz \ {k}
        /\ DOMAIN im.initramfs = DOMAIN img.initramfs \ {k}
        /\ \A x \in DOMAIN im.initramfs : im.initramfs[x] = img.initramfs[x]
        /\ im.grub.kind = img.grub.kind
        /\ DOMAIN im.grub.lines = DOMAIN img.grub.lines \ {k}
    BY <1>1, <1>4, KernelRemovedEdit
  <2>2. im.esp = img.esp
    BY <2>1 DEF Shape, Frame, ImageFields, KernelFields
  <2>3. KernelsOf(im) \subseteq Kernels
    BY <2>1, <2>2 DEF KnownKernels, KernelsOf
  <2> QED
    BY <2>1, <2>3 DEF KernelChange
<1>5. ASSUME NEW k \in Kernels, im = KernelInstalled(img, k)
      PROVE  KernelChange(im)
  <2>1. /\ Frame(img, im, KernelFields) /\ HasGrub(im)
        /\ im.libModules = img.libModules \union {k} /\ im.vmlinuz = img.vmlinuz \union {k}
        /\ DOMAIN im.initramfs = DOMAIN img.initramfs \union {k}
        /\ \A x \in DOMAIN im.initramfs : im.initramfs[x] = IF x = k THEN img.dracut ELSE img.initramfs[x]
        /\ im.grub.kind = img.grub.kind
        /\ DOMAIN im.grub.lines \subseteq DOMAIN img.grub.lines \union im.vmlinuz
        /\ img.grub.kind # "none" /\ DOMAIN img.grub.lines = img.vmlinuz => DOMAIN im.grub.lines = im.vmlinuz
    BY <1>1, <1>5, KernelInstalledEdit
  <2>2. im.esp = img.esp
    BY <2>1 DEF Shape, Frame, ImageFields, KernelFields
  <2>3. KernelsOf(im) \subseteq Kernels
    BY <2>1, <2>2 DEF KnownKernels, KernelsOf
  <2> QED
    BY <2>1, <2>3 DEF KernelChange
<1> QED
  BY <1>2, <1>3, <1>4, <1>5

\* An operation of the package manager, which may fail half way.
LEMMA PackageOperationStep ==
    ASSUME ImageInv, RunPackageOperation
    PROVE  ImageInv'
<1> USE DEF ImageInv
<1>1. step = 4 /\ result = "running" /\ UNCHANGED <<cfg, ukiInfo, step, loc, runs>>
  BY PackageStepsAtPackages DEF RunPackageOperation
<1>2. PICK im \in KernelChanges(pkgStep) :
          IF pkgErr' /\ pkgStep' = "idle"
          THEN result' = "failed" /\ img' = [im EXCEPT !.etcMounted = FALSE]
          ELSE img' = im /\ UNCHANGED result
  BY DEF RunPackageOperation
<1>3. KernelChange(im)
  BY KernelChangesAre
<1>4. \A x \in {"esp", "resolv", "baselineResolv", "etcMounted", "etcWorkDir", "unlabelled"} : im[x] = img[x]
  BY <1>3 DEF KernelChange, Shape, Frame, ImageFields, KernelFields
<1>5. CASE pkgErr' /\ pkgStep' = "idle"
  <2>1. result' = "failed" /\ img' = [im EXCEPT !.etcMounted = FALSE]
    BY <1>2, <1>5
  <2>2. HasGrub(img') /\ KernelsOf(img') = KernelsOf(im) /\ img'.baselineResolv = im.baselineResolv
    BY <1>3, <2>1, Unmounted DEF KernelChange
  <2> QED
    BY <1>1, <1>3, <1>4, <1>5, <2>1, <2>2, RunFails DEF KernelChange
<1>6. CASE ~(pkgErr' /\ pkgStep' = "idle")
  <2>1. img' = im /\ result' = "running" /\ Uki' = Uki
    BY <1>1, <1>2, <1>6 DEF Uki
  <2>2. Shape' /\ Control' /\ ChainAccepted' /\ KnownKernels'
    BY <1>1, <1>3, <2>1, GrubDomain DEF KernelChange, HasGrub, Shape, Control, ChainAccepted, KnownKernels
  <2>3. ResolvInv' /\ EtcInv' /\ LabelInv'
    BY <1>1, <1>4, <2>1 DEF ResolvInv, EtcInv, LabelInv
  <2>4. KeptUkiInv' /\ CreateUkiInv'
    BY <1>1, <2>1 DEF KeptUkiInv, CreateUkiInv
  <2>5. ModulesInv'
    BY <1>1, <1>3, <2>1 DEF ModulesInv, KernelChange
  <2>6. GrubInv'
    BY <1>1, <1>3, <1>4, <2>1 DEF GrubInv, KernelChange
  <2>7. DriversInv'
    <3> SUFFICES ASSUME ~loc.split PROVE DriversInv'
      BY <1>1 DEF DriversInv
    <3>1. img'.fstab = img.fstab /\ img'.verity = img.verity /\ img'.dracut = img.dracut
      BY <1>3, <2>1 DEF KernelChange, Shape, Frame, ImageFields, KernelFields
    <3>2. \A drivers : HasDrivers(img', drivers) <=> HasDrivers(img, drivers)
      BY <3>1 DEF HasDrivers
    <3>3. /\ ~SplitChain(cfg) /\ HasDrivers(img, img.dracut) /\ img.vmlinuz \subseteq DOMAIN img.initramfs
          /\ BootHasDrivers
          /\ Uki \in {"passthrough", "modify"} => UkisHaveDrivers(img.libModules \ img.vmlinuz)
      BY <1>1 DEF DriversInv
    <3>4. BootHasDrivers' /\ img'.vmlinuz \subseteq DOMAIN img'.initramfs
      BY <1>3, <2>1, <3>2, <3>3 DEF KernelChange, BootHasDrivers
    <3>5. Uki \in {"passthrough", "modify"} => UkisHaveDrivers(img.libModules \ img.vmlinuz)'
      BY <1>3, <1>4, <2>1, <3>2, <3>3 DEF KernelChange, UkisHaveDrivers
    <3> QED
      BY <1>1, <2>1, <3>1, <3>2, <3>3, <3>4, <3>5 DEF DriversInv
  <2> QED
    BY <2>2, <2>3, <2>4, <2>5, <2>6, <2>7
<1> QED
  BY <1>5, <1>6

\* No kernel or initramfs is left in /boot by the packages when the UKIs are kept.
LEMMA KernelCheckStep ==
    ASSUME ImageInv, KernelCheck
    PROVE  ImageInv'
<1> USE DEF ImageInv
<1>1. AtStep(Steps[5]) /\ Advance /\ UNCHANGED <<img, loc, ukiInfo>>
  BY StepsValues DEF KernelCheck, Becomes
<1>2. StepMade /\ step = 5
  BY <1>1, StepMadeAt
<1>3. SameKernels /\ SameDrivers /\ GrubKept(img, img') /\ Frame(img, img', {})
  BY <1>1, FrameStays DEF SameKernels, SameDrivers, GrubKept
<1>4. Shape'
  BY <1>1 DEF Shape
<1>5. Control' /\ ChainAccepted' /\ KnownKernels'
  BY <1>1, <1>2, ControlKept DEF KnownKernels
<1>6. ResolvInv' /\ EtcInv' /\ LabelInv'
  BY <1>1, <1>2, <1>3, FilesKept
<1>7. ModulesInv' /\ GrubInv' /\ CreateUkiInv'
  BY <1>1, <1>2, <1>3, ModulesKept, GrubInvKept, CreateUkiKept
<1>8. KeptUkiInv'
  <2>1. Uki' = Uki /\ cfg' = cfg /\ result' = "running" /\ result = "running"
    BY <1>2 DEF StepMade, Uki
  <2>2. Uki \in {"passthrough", "modify"} => ~hasKernelBinariesInBoot(img)
    BY DEF KernelCheck
  <2>3. hasKernelBinariesInBoot(img)' = hasKernelBinariesInBoot(img)
    BY <1>1 DEF hasKernelBinariesInBoot
  <2> QED
    BY <1>1, <2>1, <2>2, <2>3 DEF KeptUkiInv
<1>9. DriversInv'
  BY <1>1, <1>2, <1>3, DriversKept
<1> QED
  BY <1>4, <1>5, <1>6, <1>7, <1>8, <1>9

-----------------------------------------------------------------------------
(* Boot loader and SELinux.                                                 *)

\* The image has its fields and grub's.
LEMMA ImageHasGrub ==
    ASSUME Shape PROVE HasGrub(img)
BY GrubDomain DEF Shape, HasGrub

\* The files that are written after grub was edited.
LEMMA WrittenGrub ==
    ASSUME NEW im, NEW mid, NEW fields, Frame(im, mid, fields), "grub" \in DOMAIN im
    PROVE  Frame(im, Written(mid), fields \union {"unlabelled"}) /\ Written(mid).grub = mid.grub
<1>1. Frame(mid, Written(mid), {"unlabelled"})
  BY WrittenFrame
<1>2. Written(mid).grub = mid.grub
  BY <1>1 DEF Frame
<1> QED
  BY <1>1, <1>2, FrameThen

\* A hard reset makes grub's configuration anew, for every kernel in /boot.
LEMMA HardResetStep ==
    ASSUME ImageInv, hardResetBootLoader
    PROVE  ImageInv'
<1> USE DEF ImageInv
<1>1. PICK mode : Becomes(Written(configureDiskBootLoader(img, mode, Extra)))
  BY DEF hardResetBootLoader
<1> DEFINE mid == configureDiskBootLoader(img, mode, Extra)
<1>2. AtStep(Steps[14]) /\ Advance /\ UNCHANGED <<loc, ukiInfo>> /\ img' = Written(mid)
  BY <1>1, StepsValues DEF hardResetBootLoader, Becomes
<1>3. StepMade /\ step = 14
  BY <1>2, StepMadeAt
<1>4. /\ Frame(img, mid, {"grub"}) /\ HasGrub(mid)
      /\ mid.grub.kind # "none" /\ DOMAIN mid.grub.lines = img.vmlinuz
  BY HardResetEdit, ImageHasGrub
<1> HIDE DEF mid
<1>5. Frame(img, img', {"grub", "unlabelled"}) /\ img'.grub = mid.grub
  <2>1. Frame(img, Written(mid), {"grub"} \union {"unlabelled"}) /\ Written(mid).grub = mid.grub
    BY <1>4, WrittenGrub DEF Shape, ImageFields
  <2>2. {"grub"} \union {"unlabelled"} = {"grub", "unlabelled"}
    OBVIOUS
  <2> QED
    BY <1>2, <2>1, <2>2
<1>6. SameKernels /\ SameDrivers
  BY <1>5, FrameKernels DEF DriverFields
<1>7. HasGrub(img')
  BY <1>4, <1>5 DEF Frame, HasGrub
<1>8. Shape' /\ Control' /\ ChainAccepted'
  BY <1>2, <1>3, <1>7, ShapeKept, ControlKept
<1>9. KnownKernels'
  BY <1>2, <1>4, <1>5, <1>6, KnownKernelsKept
<1>10. ResolvInv' /\ EtcInv' /\ LabelInv'
  BY <1>2, <1>3, <1>5, FilesKept
<1>11. KeptUkiInv' /\ ModulesInv' /\ CreateUkiInv'
  BY <1>2, <1>3, <1>6, KeptUkiKept, ModulesKept, CreateUkiKept
<1>12. GrubInv'
  <2>1. DOMAIN img.esp = {} => img.libModules \subseteq img.vmlinuz
    BY <1>3 DEF hardResetBootLoader, determineBootConfigType, GrubInv, StepMade
  <2>2. Uki' = Uki /\ DOMAIN img'.esp = DOMAIN img.esp /\ step' = 15 /\ result = "running"
    BY <1>3, <1>6 DEF StepMade, Uki, SameKernels
  <2> QED
    BY <1>4, <1>5, <1>6, <2>1, <2>2 DEF GrubInv, SameKernels
<1>13. DriversInv'
  BY <1>2, <1>3, <1>6, DriversKept
<1> QED
  BY <1>8, <1>9, <1>10, <1>11, <1>12, <1>13

\* Command lines are edited in grub's configuration or in uki-kernel-info.json.
LEMMA AddKernelCommandLineStep ==
    ASSUME ImageInv, AddKernelCommandLine
    PROVE  ImageInv'
<1> USE DEF ImageInv
<1>1. AtStep(Steps[14]) /\ Advance /\ UNCHANGED loc
  BY StepsValues DEF AddKernelCommandLine, Becomes
<1>2. StepMade /\ step = 14
  BY <1>1, StepMadeAt
<1> DEFINE edited == BootCustomizerAddKernelCommandLine(img, Extra)
           mid == WriteToFile(edited)
<1>3. GrubEdit(img, edited)
  BY ImageHasGrub, AddKernelCommandLineEdit
<1>4. GrubEdit(edited, mid)
  BY <1>3, ImageHasGrub, GrubEditHasGrub, WriteToFileEdit
<1>5. GrubEdit(img, mid)
  BY <1>3, <1>4, ImageHasGrub, GrubEditThen
<1>6. img' = img \/ img' = Written(mid)
  BY DEF AddKernelCommandLine, Becomes
<1> HIDE DEF edited, mid
<1>7. Frame(img, Written(mid), {"grub", "unlabelled"}) /\ GrubKept(img, Written(mid))
  <2>1. Frame(img, Written(mid), {"grub"} \union {"unlabelled"}) /\ Written(mid).grub = mid.grub
    BY <1>5, WrittenGrub DEF GrubEdit, Shape, ImageFields
  <2>2. {"grub"} \union {"unlabelled"} = {"grub", "unlabelled"}
    OBVIOUS
  <2> QED
    BY <1>5, <2>1, <2>2 DEF GrubEdit, GrubKept
<1>8. Frame(img, img', {"grub", "unlabelled"}) /\ GrubKept(img, img')
  BY <1>6, <1>7, FrameStays DEF GrubKept
<1>9. /\ DOMAIN ukiInfo' = DOMAIN ukiInfo /\ DOMAIN ukiInfo'.lines = DOMAIN ukiInfo.lines
      /\ ukiInfo'.staged = ukiInfo.staged
  <2>1. ukiInfo' = ukiInfo \/ ukiInfo' = appendToUkiCmdlineFile(ukiInfo, Extra)
    BY DEF AddKernelCommandLine, Becomes
  <2> DEFINE lines == [k \in DOMAIN ukiInfo.lines |-> ukiInfo.lines[k] \o Extra]
  <2>2. appendToUkiCmdlineFile(ukiInfo, Extra) = [ukiInfo EXCEPT !.lines = lines]
    BY DEF appendToUkiCmdlineFile, EveryKernel
  <2>3. DOMAIN lines = DOMAIN ukiInfo.lines
    OBVIOUS
  <2> HIDE DEF lines
  <2> QED
    BY <2>1, <2>2, <2>3 DEF Shape, NoUkiInfo
<1> QED
  BY <1>1, <1>2, <1>8, <1>9, PlainStep DEF Tracked, DriverFields

\* SELinux' step, at which a boot configuration is asked for.
LEMMA SELinuxKept ==
    ASSUME ImageInv, StepMade, step = 15, determineBootConfigType(img) # "notFound",
           Frame(img, img', {"grub", "seConfig", "unlabelled"}), GrubKept(img, img'),
           DOMAIN loc' = DOMAIN loc, LocFrame({"selinuxMode"}),
           DOMAIN ukiInfo' = DOMAIN ukiInfo, DOMAIN ukiInfo'.lines = DOMAIN ukiInfo.lines,
           ukiInfo'.staged = ukiInfo.staged
    PROVE  ImageInv'
<1> USE DEF ImageInv
<1>1. SameKernels /\ SameDrivers
  BY FrameKernels DEF DriverFields
<1>2. \A v \in {"cf", "resolv", "overlayUpdated", "verityUpdated", "orphans", "split"} : loc'[v] = loc[v]
  BY DEF LocFrame, NoLocals
<1>3. Shape' /\ Control' /\ ChainAccepted'
  BY <1>2, HasGrubKept, ShapeKept, ControlKept
<1>4. KnownKernels'
  BY <1>1, KnownKernelsKept DEF GrubKept
<1>5. ResolvInv' /\ EtcInv' /\ LabelInv'
  BY <1>2, FilesKept
<1>6. KeptUkiInv' /\ ModulesInv' /\ CreateUkiInv'
  BY <1>1, <1>2, KeptUkiKept, ModulesKept, CreateUkiKept
<1>7. GrubInv'
  <2>1. Uki' = Uki /\ step' = 16 /\ result = "running" /\ DOMAIN img'.esp = DOMAIN img.esp
    BY <1>1 DEF StepMade, Uki, SameKernels
  <2>2. img'.grub.kind = img.grub.kind /\ (img.grub.kind # "none" \/ DOMAIN img.esp # {})
    BY DEF GrubKept, determineBootConfigType
  <2>3. DOMAIN img.esp = {} /\ img.grub.kind # "none" =>
            DOMAIN img'.grub.lines = img'.vmlinuz /\ img'.libModules \subseteq img'.vmlinuz
    BY <1>1, <2>1 DEF GrubInv, SameKernels, GrubKept
  <2> QED
    BY <2>1, <2>2, <2>3 DEF GrubInv
<1>8. DriversInv'
  BY <1>1, <1>2, DriversKept
<1> QED
  BY <1>3, <1>4, <1>5, <1>6, <1>7, <1>8

\* Without os.selinux.mode the mode is read only.
LEMMA KeepSELinuxStep ==
    ASSUME ImageInv, keepSELinux
    PROVE  ImageInv'
<1> USE DEF ImageInv
<1>1. AtStep(Steps[15]) /\ Advance /\ UNCHANGED <<img, ukiInfo>>
  BY StepsValues DEF keepSELinux
<1>2. StepMade /\ step = 15
  BY <1>1, StepMadeAt
<1>3. PICK mode : loc' = [loc EXCEPT !.selinuxMode = mode]
  BY DEF keepSELinux
<1>4. DOMAIN loc' = DOMAIN loc /\ LocFrame({"selinuxMode"})
  BY <1>3, LocUpdate DEF NoLocals
<1>5. Frame(img, img', {"grub", "seConfig", "unlabelled"}) /\ GrubKept(img, img')
  BY <1>1, FrameStays DEF GrubKept
<1> QED
  BY <1>1, <1>2, <1>4, <1>5, SELinuxKept DEF keepSELinux

\* os.selinux.mode changes command lines and SELinux' configuration file.
LEMMA HandleSELinuxStep ==
    ASSUME ImageInv, handleSELinux
    PROVE  ImageInv'
<1> USE DEF ImageInv
<1> DEFINE mode == resolveSeLinux(cfg)
           args == selinuxModeToArgs(mode)
           updated == UpdateKernelCommandLineArgs(img, selinuxArgNames, args)
           lines == IF Hard THEN img ELSE WriteToFile(updated)
           mid == UpdateSELinuxModeInConfigFile(lines, mode)
<1>1. AtStep(Steps[15]) /\ Advance
  BY StepsValues DEF handleSELinux
<1>2. StepMade /\ step = 15
  BY <1>1, StepMadeAt
<1>3. img' = Written(mid) /\ loc' = [loc EXCEPT !.selinuxMode = mode]
  BY DEF handleSELinux
<1>4. GrubEdit(img, lines)
  <2>1. GrubEdit(img, updated)
    BY ImageHasGrub, UpdateArgsEdit
  <2> HIDE DEF updated
  <2>2. GrubEdit(updated, WriteToFile(updated))
    BY <2>1, ImageHasGrub, GrubEditHasGrub, WriteToFileEdit
  <2>3. GrubEdit(img, WriteToFile(updated))
    BY <2>1, <2>2, ImageHasGrub, GrubEditThen
  <2> QED
    BY <2>3, GrubEditStays
<1> HIDE DEF lines
<1>5. Frame(lines, mid, {"seConfig"})
  BY DEF UpdateSELinuxModeInConfigFile, Frame
<1> HIDE DEF mid, mode
<1>6. Frame(img, mid, {"grub", "seConfig"}) /\ mid.grub = lines.grub
  BY <1>4, <1>5 DEF GrubEdit, Frame, Shape, ImageFields
<1>7. Frame(img, img', {"grub", "seConfig"} \union {"unlabelled"}) /\ img'.grub = mid.grub
  BY <1>3, <1>6, WrittenGrub DEF Shape, ImageFields
<1>8. {"grub", "seConfig"} \union {"unlabelled"} = {"grub", "seConfig", "unlabelled"}
  OBVIOUS
<1>9. Frame(img, img', {"grub", "seConfig", "unlabelled"})
  BY <1>7, <1>8
<1>10. GrubKept(img, img')
  BY <1>4, <1>6, <1>7 DEF GrubEdit, GrubKept
<1>11. DOMAIN loc' = DOMAIN loc /\ LocFrame({"selinuxMode"})
  BY <1>3, LocUpdate DEF NoLocals
<1>12. /\ DOMAIN ukiInfo' = DOMAIN ukiInfo /\ DOMAIN ukiInfo'.lines = DOMAIN ukiInfo.lines
       /\ ukiInfo'.staged = ukiInfo.staged
  <2>1. ukiInfo' = ukiInfo \/ ukiInfo' = updateUkiCmdlineFile(ukiInfo, selinuxArgNames, args)
    BY DEF handleSELinux, mode
  <2> HIDE DEF args
  <2> DEFINE cmds == [k \in DOMAIN ukiInfo.lines |-> updateUkiCmdline(ukiInfo.lines[k], selinuxArgNames, args)]
  <2>2. updateUkiCmdlineFile(ukiInfo, selinuxArgNames, args) = [ukiInfo EXCEPT !.lines = cmds]
    BY DEF updateUkiCmdlineFile, EveryKernel
  <2>3. DOMAIN cmds = DOMAIN ukiInfo.lines
    OBVIOUS
  <2> HIDE DEF cmds
  <2> QED
    BY <2>1, <2>2, <2>3 DEF Shape, NoUkiInfo
<1>13. determineBootConfigType(img) # "notFound"
  BY DEF handleSELinux
<1> QED
  BY <1>2, <1>9, <1>10, <1>11, <1>12, <1>13, SELinuxKept

-----------------------------------------------------------------------------
(* Overlays, verity, initramfs and user scripts.                            *)

\* A chain that keeps the UKIs and is not split has no file with what the modes refuse.
LEMMA NotSplit ==
    ASSUME Control, ChainAccepted, Uki \in {"passthrough", "modify"}, ~SplitChain(cfg)
    PROVE  /\ ~AnyFile(cfg, LAMBDA f : f.overlays)
           /\ resolveStorage(cfg).verity = "none" /\ ~resolveStorage(cfg).parts
<1>1. \A i \in 1..Len(cfg) : ~cfg[i].hard /\ cfg[i].verity = "none" /\ ~cfg[i].overlays
  BY DEF Uki, SplitChain, AnyFile, validateUkiModifyMode, validateUkiPassthroughMode
<1>2. \A i \in 1..Len(cfg) : ~cfg[i].parts
  BY <1>1 DEF ChainAccepted, ConfigFileIsValid
<1>3. ~AnyFile(cfg, LAMBDA f : f.overlays)
  BY <1>1 DEF AnyFile
<1> DEFINE with == {i \in 1..Len(cfg) : HasStorage(cfg[i])}
<1>4. CASE with = {}
  BY <1>3, <1>4 DEF resolveStorage, EmptyFile
<1>5. CASE with # {}
  <2>1. PICK i \in 1..Len(cfg) : with = {i}
    BY <1>5 DEF ChainAccepted, StorageMoreThanOne
  <2>2. i \in Int
    OBVIOUS
  <2> HIDE DEF with
  <2>3. LastOf(with) = i
    <3>1. \E l \in with : \A j \in with : j <= l
      BY <2>1, <2>2
    <3>2. LastOf(with) \in with
      BY <3>1 DEF LastOf
    <3> QED
      BY <2>1, <3>2
  <2>4. resolveStorage(cfg) = cfg[i]
    BY <1>5, <2>3 DEF resolveStorage, with
  <2> QED
    BY <1>1, <1>2, <1>3, <2>4
<1> QED
  BY <1>4, <1>5

\* A step that leaves the kernels alone and sets one of the two variables that ask for a
\* new initramfs; not for a chain that keeps the UKIs.
LEMMA InitramfsAsked ==
    ASSUME ImageInv, StepMade, step \in {16, 17}, NEW fields, Frame(img, img', fields),
           fields \intersect (Tracked \ {"dracut", "fstab", "verity"}) = {}, GrubKept(img, img'), UNCHANGED ukiInfo,
           DOMAIN loc' = DOMAIN loc, LocFrame({"overlayUpdated", "verityUpdated"}), DriversInv',
           Uki \in {"passthrough", "modify"} /\ ~SplitChain(cfg) => ~loc'.overlayUpdated /\ ~loc'.verityUpdated
    PROVE  ImageInv'
<1> USE DEF ImageInv
<1>1. SameKernels
  <2>1. \A x \in {"vmlinuz", "libModules", "initramfs", "esp"} : img'[x] = img[x]
    BY DEF Shape, Frame, ImageFields, Tracked, DriverFields
  <2> QED
    BY <2>1 DEF SameKernels
<1>2. \A v \in {"cf", "resolv", "selinuxMode", "orphans"} : loc'[v] = loc[v]
  BY DEF LocFrame, NoLocals
<1>3. Shape' /\ Control' /\ ChainAccepted'
  BY <1>2, HasGrubKept, ShapeKept, ControlKept
<1>4. KnownKernels'
  BY <1>1, KnownKernelsKept DEF GrubKept
<1>5. ResolvInv' /\ EtcInv' /\ LabelInv'
  <2>1. fields \intersect {"resolv", "baselineResolv", "etcMounted", "etcWorkDir"} = {}
    BY DEF Tracked, DriverFields
  <2> QED
    BY <1>2, <2>1, FilesKept
<1>6. ModulesInv' /\ GrubInv' /\ CreateUkiInv'
  BY <1>1, <1>2, ModulesKept, GrubInvKept, CreateUkiKept
<1>7. KeptUkiInv'
  <2>1. Uki' = Uki /\ cfg' = cfg /\ result = "running" /\ step > 5
    BY DEF StepMade, Uki
  <2>2. hasKernelBinariesInBoot(img)' = hasKernelBinariesInBoot(img)
    BY <1>1 DEF hasKernelBinariesInBoot, SameKernels
  <2> QED
    BY <2>1, <2>2 DEF KeptUkiInv
<1> QED
  BY <1>3, <1>4, <1>5, <1>6, <1>7

\* Overlays add their driver to dracut and ask for a new initramfs.
LEMMA OverlaysStep ==
    ASSUME ImageInv, enableOverlays
    PROVE  ImageInv'
<1> USE DEF ImageInv
<1> DEFINE some == AnyFile(cfg, LAMBDA f : f.overlays)
           driver == addDracutDriver(img, {"overlay"})
           mid == [driver EXCEPT !.fstab = @ \union {"overlay"}]
<1>1. AtStep(Steps[16]) /\ Advance /\ UNCHANGED ukiInfo
  BY StepsValues DEF enableOverlays
<1>2. StepMade /\ step = 16
  BY <1>1, StepMadeAt
<1>3. (img' = img \/ img' = Written(mid)) /\ loc' = [loc EXCEPT !.overlayUpdated = some]
  BY DEF enableOverlays
<1>4. Uki \in {"passthrough", "modify"} /\ ~SplitChain(cfg) => ~some
  BY NotSplit
<1> HIDE DEF some
<1>5. Frame(img, driver, {"dracut"})
  BY DEF addDracutDriver, Frame
<1>5a. driver.dracut = img.dracut \union {"overlay"} /\ DOMAIN driver = ImageFields
  BY DEF addDracutDriver, Shape, ImageFields
<1> HIDE DEF driver
<1>6. Frame(driver, mid, {"fstab"})
  BY DEF Frame
<1> HIDE DEF mid
<1>7. Frame(mid, Written(mid), {"unlabelled"})
  BY WrittenFrame
<1>8. Frame(img, img', {"dracut", "fstab", "unlabelled"})
  BY <1>3, <1>5, <1>6, <1>7 DEF Frame
<1>9. GrubKept(img, img')
  BY <1>8, FrameGrub
<1>10. DOMAIN loc' = DOMAIN loc /\ loc'.overlayUpdated = some /\ LocFrame({"overlayUpdated"})
  BY <1>3, LocUpdate DEF NoLocals
<1>11. loc'.verityUpdated = loc.verityUpdated /\ LocFrame({"overlayUpdated", "verityUpdated"})
  BY <1>10 DEF LocFrame, NoLocals
<1>12. Uki \in {"passthrough", "modify"} /\ ~SplitChain(cfg) => ~loc'.overlayUpdated /\ ~loc'.verityUpdated
  BY <1>2, <1>4, <1>10, <1>11 DEF KeptUkiInv, StepMade
<1>13. loc'.split = loc.split
  BY <1>10 DEF LocFrame, NoLocals
<1>14. \/ SameDrivers /\ (step = 17 /\ loc.overlayUpdated => loc'.overlayUpdated)
       \/ /\ HasDrivers(img, img.dracut) => HasDrivers(img', img'.dracut)
          /\ loc'.overlayUpdated \/ (step = 17 /\ loc'.verityUpdated)
          /\ ~(Uki \in {"passthrough", "modify"} /\ ~SplitChain(cfg))
  <2>1. CASE ~some
    <3>1. UNCHANGED img
      BY <2>1 DEF enableOverlays, some
    <3> QED
      BY <1>2, <3>1 DEF SameDrivers
  <2>2. CASE some
    <3>1. img' = Written(mid)
      BY <2>2 DEF enableOverlays, some, mid, driver
    <3>2. img'.dracut = img.dracut \union {"overlay"} /\ img'.verity = img.verity
      BY <1>5a, <1>6, <1>7, <1>8, <3>1 DEF Frame, Shape, ImageFields
    <3> QED
      BY <1>4, <1>10, <2>2, <3>2 DEF HasDrivers
  <2> QED
    BY <2>1, <2>2
<1>15. DriversInv'
  BY <1>2, <1>8, <1>13, <1>14, DriversAsked
<1> QED
  BY <1>1, <1>2, <1>8, <1>9, <1>10, <1>11, <1>12, <1>15, InitramfsAsked DEF Tracked, DriverFields

\* New verity devices do so too.
LEMMA VerityStep ==
    ASSUME ImageInv, enableVerityPartition
    PROVE  ImageInv'
<1> USE DEF ImageInv
<1> DEFINE verity == resolveStorage(cfg).verity
           booted == addDracutDriver(img, {"verity"})
           prepared == IF verity = "root" THEN PrepareForVerity(booted) ELSE booted
           lines == WriteToFile(prepared)
           mid == [lines EXCEPT !.verity = verity]
<1>1. AtStep(Steps[17]) /\ Advance /\ UNCHANGED ukiInfo
  BY StepsValues DEF enableVerityPartition
<1>2. StepMade /\ step = 17
  BY <1>1, StepMadeAt
<1>3. (img' = img \/ img' = Written(mid)) /\ loc' = [loc EXCEPT !.verityUpdated = verity # "none"]
  BY DEF enableVerityPartition
<1>4. Uki \in {"passthrough", "modify"} /\ ~SplitChain(cfg) => verity = "none"
  BY NotSplit
<1> HIDE DEF verity
<1>5. Frame(img, booted, {"dracut"})
  BY DEF addDracutDriver, Frame
<1>5a. booted.dracut = img.dracut \union {"verity"} /\ DOMAIN booted = ImageFields
  BY DEF addDracutDriver, Shape, ImageFields
<1> HIDE DEF booted
<1>6. booted.grub = img.grub /\ booted.vmlinuz = img.vmlinuz /\ HasGrub(booted)
  BY <1>5, ImageHasGrub DEF Frame, HasGrub, ImageFields
<1>7. GrubEdit(booted, prepared)
  BY <1>6, GrubEditStays, PrepareForVerityEdit
<1> HIDE DEF prepared
<1>8. GrubEdit(booted, lines)
  <2>1. GrubEdit(prepared, lines)
    BY <1>6, <1>7, GrubEditHasGrub, WriteToFileEdit
  <2> QED
    BY <1>6, <1>7, <2>1, GrubEditThen
<1> HIDE DEF lines
<1>9. Frame(lines, mid, {"verity"})
  BY DEF Frame
<1> HIDE DEF mid
<1>10. Frame(img, mid, {"dracut", "grub", "verity"}) /\ mid.grub = lines.grub
  BY <1>5, <1>6, <1>8, <1>9 DEF GrubEdit, Frame, HasGrub, ImageFields
<1>11. Frame(mid, Written(mid), {"unlabelled"}) /\ Written(mid).grub = mid.grub
  BY <1>10, WrittenFrame DEF Frame, Shape, ImageFields
<1>12. Frame(img, img', {"dracut", "grub", "verity", "unlabelled"})
  BY <1>3, <1>10, <1>11 DEF Frame
<1>13. GrubKept(img, img')
  BY <1>3, <1>6, <1>8, <1>10, <1>11 DEF GrubEdit, GrubKept
<1>14. /\ DOMAIN loc' = DOMAIN loc /\ loc'.verityUpdated = (verity # "none") /\ LocFrame({"verityUpdated"})
  BY <1>3, LocUpdate DEF NoLocals
<1>15. loc'.overlayUpdated = loc.overlayUpdated /\ LocFrame({"overlayUpdated", "verityUpdated"})
  BY <1>14 DEF LocFrame, NoLocals
<1>16. Uki \in {"passthrough", "modify"} /\ ~SplitChain(cfg) => ~loc'.overlayUpdated /\ ~loc'.verityUpdated
  BY <1>2, <1>4, <1>14, <1>15 DEF KeptUkiInv, StepMade
<1>17. loc'.split = loc.split
  BY <1>14 DEF LocFrame, NoLocals
<1>18. \/ SameDrivers /\ (step = 17 /\ loc.overlayUpdated => loc'.overlayUpdated)
       \/ /\ HasDrivers(img, img.dracut) => HasDrivers(img', img'.dracut)
          /\ loc'.overlayUpdated \/ (step = 17 /\ loc'.verityUpdated)
          /\ ~(Uki \in {"passthrough", "modify"} /\ ~SplitChain(cfg))
  <2>1. CASE verity = "none"
    <3>1. UNCHANGED img
      BY <2>1 DEF enableVerityPartition, verity
    <3> QED
      BY <1>15, <3>1 DEF SameDrivers
  <2>2. CASE verity # "none"
    <3>1. img' = Written(mid)
      BY <2>2 DEF enableVerityPartition, verity, mid, lines, prepared, booted
    <3>2. lines.dracut = booted.dracut /\ mid.dracut = lines.dracut
      BY <1>5a, <1>8, <1>9 DEF GrubEdit, Frame, ImageFields
    <3>3. img'.dracut = img.dracut \union {"verity"}
      BY <1>5a, <1>8, <1>9, <1>11, <3>1, <3>2 DEF GrubEdit, Frame, ImageFields
    <3>4. img'.fstab = img.fstab
      BY <1>12 DEF Frame, Shape, ImageFields
    <3> QED
      BY <1>2, <1>4, <1>14, <2>2, <3>3, <3>4 DEF HasDrivers
  <2> QED
    BY <2>1, <2>2
<1>19. DriversInv'
  BY <1>2, <1>12, <1>17, <1>18, DriversAsked
<1> QED
  BY <1>1, <1>2, <1>12, <1>13, <1>14, <1>15, <1>16, <1>19, InitramfsAsked DEF Tracked, DriverFields

\* A new initramfs gets every driver of dracut's configuration, for every kernel with modules.
LEMMA InitramfsStep ==
    ASSUME ImageInv, regenerateInitramfs
    PROVE  ImageInv'
<1> USE DEF ImageInv
<1>1. AtStep(Steps[18]) /\ Advance /\ UNCHANGED <<loc, ukiInfo>>
  BY StepsValues DEF regenerateInitramfs, Becomes
<1>2. StepMade /\ step = 18
  BY <1>1, StepMadeAt
<1> DEFINE init == Merge(img.initramfs, [k \in img.libModules |-> img.dracut])
           mid == [img EXCEPT !.initramfs = init]
<1>3. img' = IF InitramfsNeeded THEN Written(mid) ELSE img
  BY DEF regenerateInitramfs, Becomes, RegenerateInitramfs
<1>4. DOMAIN init = DOMAIN img.initramfs \union img.libModules
  BY DEF Merge
<1>4a. \A k \in img.libModules : init[k] = img.dracut
  BY DEF Merge
<1> HIDE DEF init
<1>5. Frame(img, mid, {"initramfs"}) /\ mid.initramfs = init
  BY DEF Frame, Shape, ImageFields
<1> HIDE DEF mid
<1>6. Frame(mid, Written(mid), {"unlabelled"}) /\ Written(mid).initramfs = init
  BY <1>5, WrittenFrame DEF Frame, Shape, ImageFields
<1>7. Frame(img, img', {"initramfs", "unlabelled"})
  BY <1>3, <1>5, <1>6 DEF Frame
<1>8. DOMAIN img'.initramfs \subseteq DOMAIN img.initramfs \union img.libModules
  BY <1>3, <1>4, <1>6
<1>9. img'.vmlinuz = img.vmlinuz /\ img'.libModules = img.libModules /\ img'.esp = img.esp
  BY <1>7 DEF Frame, Shape, ImageFields
<1>10. GrubKept(img, img') /\ img'.grub = img.grub
  BY <1>7, FrameGrub
<1>11. Uki' = Uki /\ cfg' = cfg /\ result = "running" /\ result' = "running" /\ step' = 19
  BY <1>2 DEF StepMade, Uki
<1>12. Shape' /\ Control' /\ ChainAccepted'
  BY <1>1, <1>2, <1>7, <1>10, HasGrubKept, ShapeKept, ControlKept
<1>13. KnownKernels'
  BY <1>1, <1>8, <1>9, <1>10 DEF KnownKernels, KernelsOf
<1>14. ResolvInv' /\ EtcInv' /\ LabelInv'
  BY <1>1, <1>2, <1>7, FilesKept
<1>15. ModulesInv' /\ GrubInv' /\ CreateUkiInv'
  BY <1>1, <1>2, <1>9, <1>10, <1>11 DEF ModulesInv, GrubInv, CreateUkiInv
<1>16. KeptUkiInv'
  <2> SUFFICES ASSUME Uki \in {"passthrough", "modify"}, ~SplitChain(cfg)
               PROVE  ~InitramfsNeeded /\ ~hasKernelBinariesInBoot(img) /\ ~loc.overlayUpdated /\ ~loc.verityUpdated
    BY <1>1, <1>3, <1>11 DEF KeptUkiInv, hasKernelBinariesInBoot
  <2> QED
    BY <1>2, <1>11, NotSplit DEF KeptUkiInv, InitramfsNeeded
<1>17. DriversInv'
  <2>1. img'.fstab = img.fstab /\ img'.verity = img.verity /\ img'.dracut = img.dracut
    BY <1>7 DEF Frame, Shape, ImageFields
  <2>2. \A drivers : HasDrivers(img', drivers) <=> HasDrivers(img, drivers)
    BY <2>1 DEF HasDrivers
  <2>3. UkisHaveDrivers(img.libModules \ img.vmlinuz)' <=> UkisHaveDrivers(img.libModules \ img.vmlinuz)
    BY <1>9, <2>2 DEF UkisHaveDrivers
  <2> SUFFICES ASSUME ~loc.split
               PROVE  DriversInv'
    BY <1>1 DEF DriversInv
  <2>4. HasDrivers(img, img.dracut) /\ img.vmlinuz \subseteq DOMAIN img.initramfs
    BY <1>11 DEF DriversInv
  <2>5. BootHasDrivers' /\ img'.vmlinuz \subseteq DOMAIN img'.initramfs
    <3>1. CASE InitramfsNeeded
      BY <1>3, <1>4, <1>4a, <1>6, <1>9, <2>2, <2>4, <3>1 DEF BootHasDrivers
    <3>2. CASE ~InitramfsNeeded
      <4>1. BootHasDrivers
        BY <1>2, <1>11, <3>2 DEF DriversInv, InitramfsNeeded
      <4> QED
        BY <1>3, <2>4, <3>2, <4>1 DEF BootHasDrivers
    <3> QED
      BY <3>1, <3>2
  <2>6. /\ ~SplitChain(cfg)
        /\ Uki \in {"passthrough", "modify"} => UkisHaveDrivers(img.libModules \ img.vmlinuz)
    BY <1>11 DEF DriversInv
  <2> QED
    BY <1>11, <2>1, <2>2, <2>3, <2>4, <2>5, <2>6 DEF DriversInv
<1> QED
  BY <1>12, <1>13, <1>14, <1>15, <1>16, <1>17

\* User scripts write files.
LEMMA ScriptsStep ==
    ASSUME ImageInv, runUserScripts
    PROVE  ImageInv'
<1> USE DEF ImageInv
<1>1. (AtStep(Steps[19]) \/ AtStep(Steps[25])) /\ Advance /\ UNCHANGED <<loc, ukiInfo>>
  BY StepsValues DEF runUserScripts, Becomes
<1>2. StepMade /\ step \in {19, 25}
  BY <1>1, StepMadeAt
<1>3. img' = img \/ img' = Written(img)
  BY DEF runUserScripts, Becomes
<1>4. Frame(img, img', {"unlabelled"})
  BY <1>3, FrameStays, WrittenFrame
<1>5. GrubKept(img, img')
  BY <1>4, FrameGrub
<1>6. step > 23 => img'.unlabelled \subseteq img.unlabelled \union {"finalizeScripts"}
  <2>1. Written(img).unlabelled = img.unlabelled \union {Steps[step]}
    BY DEF Written, Shape, ImageFields
  <2>2. step > 23 => Steps[step] = "finalizeScripts"
    BY <1>2, StepsValues
  <2> QED
    BY <1>3, <2>1, <2>2
<1> QED
  BY <1>1, <1>2, <1>4, <1>5, <1>6, PlainStep DEF Tracked, DriverFields

-----------------------------------------------------------------------------
(* UKIs and the root hash.                                                  *)

\* The kernels go from /boot to uki-kernel-info.json.
LEMMA PrepareUkiStep ==
    ASSUME ImageInv, prepareUki
    PROVE  ImageInv'
<1> USE DEF ImageInv
<1>1. AtStep(Steps[20]) /\ Advance /\ UNCHANGED loc
  BY StepsValues DEF prepareUki
<1>2. StepMade /\ step = 20
  BY <1>1, StepMadeAt
<1>3. Uki' = Uki /\ cfg' = cfg /\ result = "running" /\ result' = "running" /\ step' = 21
  BY <1>2 DEF StepMade, Uki
<1>4. CASE Uki # "create"
  <2>1. UNCHANGED <<img, ukiInfo>>
    BY <1>4 DEF prepareUki
  <2>2. SameKernels /\ GrubKept(img, img') /\ Frame(img, img', {})
    BY <2>1, FrameStays DEF SameKernels, GrubKept
  <2>3. Shape' /\ KnownKernels'
    BY <1>1, <2>1 DEF Shape, KnownKernels
  <2>4. Control' /\ ChainAccepted'
    BY <1>1, <1>2, ControlKept
  <2>5. ResolvInv' /\ EtcInv' /\ LabelInv'
    BY <1>1, <1>2, <2>2, FilesKept
  <2>6. KeptUkiInv' /\ ModulesInv' /\ GrubInv'
    BY <1>1, <1>2, <2>2, KeptUkiKept, ModulesKept, GrubInvKept
  <2>7. CreateUkiInv'
    BY <1>3, <1>4 DEF CreateUkiInv
  <2>8. DriversInv'
    <3>1. /\ UkisHaveDrivers(img.libModules \ img.vmlinuz)' <=> UkisHaveDrivers(img.libModules \ img.vmlinuz)
          /\ BootHasDrivers' <=> BootHasDrivers
      BY <2>1 DEF UkisHaveDrivers, BootHasDrivers
    <3> QED
      BY <1>1, <1>2, <1>3, <1>4, <2>1, <3>1 DEF DriversInv
  <2> QED
    BY <2>3, <2>4, <2>5, <2>6, <2>7, <2>8
<1>5. CASE Uki = "create"
  <2> DEFINE known == KnownCmdlines(img, ukiInfo)
             lines == [k \in img.vmlinuz |-> IF k \in DOMAIN known THEN known[k]
                                             ELSE CHOOSE line \in getFallbackKernelArgs(known) : TRUE]
             staged == [k \in img.vmlinuz |-> img.initramfs[k]]
             g == [img.grub EXCEPT !.kind = "none", !.lines = NoLines]
  <2>1. /\ KernelsHaveInitramfs(img)
        /\ ukiInfo' = ResolvedUkiInfo(img, known) /\ img' = CleanBootDirectory(img)
    BY <1>5 DEF prepareUki
  <2>2. ukiInfo' = [exists |-> TRUE, lines |-> lines, staged |-> staged]
    BY <2>1 DEF ResolvedUkiInfo
  <2>3. /\ DOMAIN lines = img.vmlinuz /\ img.vmlinuz # {} /\ img.vmlinuz \subseteq DOMAIN img.initramfs
        /\ \A k \in img.vmlinuz : staged[k] = img.initramfs[k]
    BY <2>1 DEF KernelsHaveInitramfs
  <2> HIDE DEF lines, staged
  <2>4. DOMAIN ukiInfo' = DOMAIN ukiInfo /\ DOMAIN ukiInfo'.lines = img.vmlinuz
    BY <2>2, <2>3 DEF Shape, NoUkiInfo
  <2>5. img' = [img EXCEPT !.vmlinuz = {}, !.initramfs = NoLines, !.grub = g]
    BY <2>1 DEF CleanBootDirectory, Shape, ImageFields
  <2>6. DOMAIN g = GrubFields /\ g.kind = "none" /\ g.lines = NoLines
    BY GrubDomain DEF Shape, GrubFields
  <2> HIDE DEF g
  <2>7. /\ Frame(img, img', {"vmlinuz", "initramfs", "grub"})
        /\ img'.vmlinuz = {} /\ img'.initramfs = NoLines /\ img'.grub = g
    BY <2>5 DEF Frame, Shape, ImageFields
  <2>8. img'.libModules = img.libModules /\ img'.esp = img.esp
    BY <2>7 DEF Frame, Shape, ImageFields
  <2>9. DOMAIN NoLines = {}
    BY DEF NoLines
  <2>10. HasGrub(img')
    BY <2>6, <2>7 DEF HasGrub, Frame, Shape, GrubKinds
  <2>11. Shape' /\ Control' /\ ChainAccepted'
    BY <1>1, <1>2, <2>4, <2>10, ShapeKept, ControlKept
  <2>12. KnownKernels'
    BY <2>4, <2>6, <2>7, <2>8, <2>9 DEF KnownKernels, KernelsOf
  <2>13. ResolvInv' /\ EtcInv' /\ LabelInv'
    BY <1>1, <1>2, <2>7, FilesKept
  <2>14. KeptUkiInv'
    BY <1>3, <1>5 DEF KeptUkiInv
  <2>15. ModulesInv' /\ GrubInv'
    BY <1>1, <1>2, <1>3, <1>5, <2>6, <2>7, <2>8 DEF ModulesInv, GrubInv
  <2>16. CreateUkiInv'
    BY <1>1, <1>2, <1>3, <1>5, <2>3, <2>4, <2>7, <2>8 DEF CreateUkiInv, ModulesInv
  <2>17. DriversInv'
    <3>1. img'.fstab = img.fstab /\ img'.verity = img.verity /\ img'.dracut = img.dracut
      BY <2>7 DEF Frame, Shape, ImageFields
    <3>2. \A drivers : HasDrivers(img', drivers) <=> HasDrivers(img, drivers)
      BY <3>1 DEF HasDrivers
    <3>3. DOMAIN ukiInfo'.lines = img.vmlinuz /\ ukiInfo'.staged = staged
      BY <2>2, <2>3
    <3> SUFFICES ASSUME ~loc.split
                 PROVE  DriversInv'
      BY <1>1 DEF DriversInv
    <3>4. ~SplitChain(cfg) /\ HasDrivers(img, img.dracut) /\ BootHasDrivers
      BY <1>2, <1>3 DEF DriversInv
    <3>5. \A k \in DOMAIN ukiInfo'.lines \intersect img'.libModules : HasDrivers(img', ukiInfo'.staged[k])
      BY <2>3, <2>8, <3>2, <3>3, <3>4 DEF BootHasDrivers
    <3>6. BootHasDrivers'
      BY <2>7, <2>9 DEF BootHasDrivers
    <3> QED
      BY <1>1, <1>3, <1>5, <2>7, <3>1, <3>2, <3>4, <3>5, <3>6 DEF DriversInv
  <2> QED
    BY <2>11, <2>12, <2>13, <2>14, <2>15, <2>16, <2>17
<1> QED
  BY <1>4, <1>5

\* CheckForInstalledKernel: from here on some kernel has modules.
LEMMA CheckKernelStep ==
    ASSUME ImageInv, CheckForInstalledKernel
    PROVE  ImageInv'
<1> USE DEF ImageInv
<1>1. AtStep(Steps[26]) /\ Advance /\ UNCHANGED <<img, loc, ukiInfo>>
  BY StepsValues DEF CheckForInstalledKernel, Becomes
<1>2. StepMade /\ step = 26
  BY <1>1, StepMadeAt
<1>3. SameKernels /\ GrubKept(img, img') /\ Frame(img, img', {})
  BY <1>1, FrameStays DEF SameKernels, GrubKept
<1>4. Shape' /\ KnownKernels'
  BY <1>1 DEF Shape, KnownKernels
<1>5. Control' /\ ChainAccepted'
  BY <1>1, <1>2, ControlKept
<1>6. ResolvInv' /\ EtcInv' /\ LabelInv'
  BY <1>1, <1>2, <1>3, FilesKept
<1>7. KeptUkiInv' /\ GrubInv' /\ CreateUkiInv'
  BY <1>1, <1>2, <1>3, KeptUkiKept, GrubInvKept, CreateUkiKept
<1>8. ModulesInv'
  <2>1. img.libModules # {}
    BY DEF CheckForInstalledKernel, checkForInstalledKernel
  <2>2. Uki' = Uki /\ result = "running" /\ step' = 27
    BY <1>2 DEF StepMade, Uki
  <2> QED
    BY <1>1, <1>2, <2>1, <2>2 DEF ModulesInv
<1>9. SameDrivers
  BY <1>1 DEF SameDrivers
<1>10. DriversInv'
  BY <1>1, <1>2, <1>9, DriversKept
<1> QED
  BY <1>4, <1>5, <1>6, <1>7, <1>8, <1>10

\* The root hash goes to grub.cfg or to uki-kernel-info.json.
LEMMA VerityImageStep ==
    ASSUME ImageInv, customizeVerityImage
    PROVE  ImageInv'
<1> USE DEF ImageInv
<1>1. AtStep(Steps[27]) /\ Advance /\ UNCHANGED loc
  BY StepsValues DEF customizeVerityImage
<1>2. StepMade /\ step = 27
  BY <1>1, StepMadeAt
<1> DEFINE hash == RootHashes[runs]
           grubbed == updateGrubConfigForVerity(img, img.verity, hash)
           args == constructVerityKernelCmdlineArgs(img.verity, hash)
<1>3. \/ img' = img
      \/ img' = [img EXCEPT !.hash = hash]
      \/ img' = [grubbed EXCEPT !.hash = hash]
  BY DEF customizeVerityImage
<1>4. ukiInfo' = ukiInfo \/ ukiInfo' = appendKernelArgsToUkiCmdlineFile(ukiInfo, args)
  BY DEF customizeVerityImage
<1>5. GrubEdit(img, grubbed)
  BY ImageHasGrub, VerityEdit
<1> HIDE DEF hash, grubbed
<1>6. Frame(img, img', {"grub", "hash"}) /\ GrubKept(img, img')
  <2>1. CASE img' = img
    BY <2>1, FrameStays DEF GrubKept
  <2>2. CASE img' = [img EXCEPT !.hash = hash]
    <3>1. Frame(img, img', {"hash"})
      BY <2>2 DEF Frame
    <3> QED
      BY <3>1, FrameGrub, FrameMore
  <2>3. CASE img' = [grubbed EXCEPT !.hash = hash]
    <3>1. Frame(grubbed, img', {"hash"})
      BY <2>3 DEF Frame
    <3>2. img'.grub = grubbed.grub
      BY <1>5, <3>1 DEF GrubEdit, Frame, Shape, ImageFields
    <3>3. Frame(img, img', {"grub", "hash"})
      BY <1>5, <3>1 DEF GrubEdit, Frame
    <3> QED
      BY <1>5, <3>2, <3>3 DEF GrubEdit, GrubKept
  <2> QED
    BY <1>3, <2>1, <2>2, <2>3
<1>7. /\ DOMAIN ukiInfo' = DOMAIN ukiInfo /\ DOMAIN ukiInfo'.lines = DOMAIN ukiInfo.lines
      /\ ukiInfo'.staged = ukiInfo.staged
  <2> HIDE DEF args
  <2> DEFINE dropped == verityKernelArgsToRemove \union {KernelOpts.name}
             cmds == [k \in DOMAIN ukiInfo.lines |-> Without(ukiInfo.lines[k], dropped) \o args]
  <2>1. appendKernelArgsToUkiCmdlineFile(ukiInfo, args) = [ukiInfo EXCEPT !.lines = cmds]
    BY DEF appendKernelArgsToUkiCmdlineFile, EveryKernel
  <2>2. DOMAIN cmds = DOMAIN ukiInfo.lines
    OBVIOUS
  <2> HIDE DEF cmds
  <2> QED
    BY <1>4, <2>1, <2>2 DEF Shape, NoUkiInfo
<1>8. img'.unlabelled = img.unlabelled
  BY <1>6 DEF Frame, Shape, ImageFields
<1> QED
  BY <1>1, <1>2, <1>6, <1>7, <1>8, PlainStep DEF Tracked, DriverFields

\* The last step: the kernels of uki-kernel-info.json get UKIs, or the UKIs stay.
LEMMA CreateUkiStep ==
    ASSUME ImageInv, createUki
    PROVE  ImageInv'
<1> USE DEF ImageInv
<1>1. step = 28 /\ result = "running" /\ pkgStep = "idle"
  <2>1. AtStep(Steps[28]) /\ step \in 1..28
    BY StepsValues DEF createUki, Control
  <2> QED
    BY <2>1, StepPosition DEF AtStep
<1>2. result' = "ok" /\ UNCHANGED <<cfg, step, loc, runs, pkgStep>> /\ Uki' = Uki
  BY DEF createUki, pkgVars, Uki
<1> DEFINE ukis == [k \in DOMAIN ukiInfo.lines |-> [line |-> ukiInfo.lines[k], init |-> ukiInfo.staged[k]]]
           built == [img EXCEPT !.esp = ukis]
           named == [built EXCEPT !.addons = TRUE]
           relined == [k \in DOMAIN img.esp |-> [img.esp[k] EXCEPT !.line = ukiInfo.lines[k]]]
           modified == [img EXCEPT !.esp = relined]
<1>3. img' = CASE Uki = "create" -> named [] Uki = "modify" -> modified [] OTHER -> img
  BY DEF createUki, buildUkis, modifyUkiAddons, Shape, ImageFields
<1>4. DOMAIN ukis = DOMAIN ukiInfo.lines /\ DOMAIN relined = DOMAIN img.esp
  OBVIOUS
<1>4a. /\ \A k \in DOMAIN ukis : "init" \in DOMAIN ukis[k] /\ ukis[k].init = ukiInfo.staged[k]
       /\ \A k \in DOMAIN img.esp : "init" \in DOMAIN img.esp[k] =>
              "init" \in DOMAIN relined[k] /\ relined[k].init = img.esp[k].init
  OBVIOUS
<1> HIDE DEF ukis, relined
<1>5. Frame(img, built, {"esp"}) /\ built.esp = ukis
  BY DEF Frame, Shape, ImageFields
<1>6. Frame(img, modified, {"esp"}) /\ modified.esp = relined
  BY DEF Frame, Shape, ImageFields
<1> HIDE DEF built, modified
<1>7. Frame(img, named, {"esp", "addons"}) /\ named.esp = ukis
  BY <1>5 DEF Frame, Shape, ImageFields
<1> HIDE DEF named
<1>8. Frame(img, img', {"esp", "addons"})
  BY <1>3, <1>6, <1>7, FrameStays DEF Frame
<1>9. DOMAIN img'.esp = IF Uki = "create" THEN DOMAIN ukiInfo.lines ELSE DOMAIN img.esp
  BY <1>3, <1>4, <1>6, <1>7
<1>10. \A x \in {"vmlinuz", "libModules", "initramfs", "grub", "resolv", "baselineResolv", "etcMounted",
                 "etcWorkDir", "unlabelled", "fstab", "verity", "dracut"} : img'[x] = img[x]
  BY <1>8 DEF Frame, Shape, ImageFields
<1>11. ukiInfo' = ukiInfo \/ ukiInfo' = NoUkiInfo
  BY DEF createUki
<1>12. Shape'
  BY <1>2, <1>8, <1>10, <1>11 DEF Shape, Frame
<1>13. Control' /\ ChainAccepted'
  BY <1>1, <1>2 DEF Control, ChainAccepted
<1>14. KnownKernels'
  BY <1>9, <1>10, <1>11 DEF KnownKernels, KernelsOf, NoUkiInfo, NoLines
<1>15. ResolvInv' /\ EtcInv' /\ LabelInv'
  BY <1>1, <1>2, <1>10 DEF ResolvInv, EtcInv, LabelInv
<1>16. KeptUkiInv'
  BY <1>1, <1>2, <1>10 DEF KeptUkiInv, hasKernelBinariesInBoot
<1>17. ModulesInv'
  BY <1>1, <1>2, <1>10 DEF ModulesInv
<1>18. CreateUkiInv'
  BY <1>1, <1>2, <1>9, <1>10 DEF CreateUkiInv
<1>19. GrubInv'
  <2>1. CASE Uki = "create"
    <3>1. DOMAIN img'.esp # {}
      BY <1>1, <1>2, <2>1, <1>18 DEF CreateUkiInv
    <3> QED
      BY <1>1, <1>2, <2>1, <3>1 DEF GrubInv
  <2>2. CASE Uki # "create"
    BY <1>1, <1>2, <1>9, <1>10, <2>2 DEF GrubInv
  <2> QED
    BY <2>1, <2>2
<1>20. DriversInv'
  <2>1. \A drivers : HasDrivers(img', drivers) <=> HasDrivers(img, drivers)
    BY <1>10 DEF HasDrivers
  <2>2. BootHasDrivers' <=> BootHasDrivers
    BY <1>10, <2>1 DEF BootHasDrivers
  <2> SUFFICES ASSUME ~loc.split
               PROVE  DriversInv'
    BY <1>2 DEF DriversInv
  <2>3. /\ ~SplitChain(cfg) /\ HasDrivers(img, img.dracut) /\ BootHasDrivers
        /\ img.vmlinuz \subseteq DOMAIN img.initramfs
    BY <1>1 DEF DriversInv
  <2>4. CASE Uki = "create"
    <3>1. img'.esp = ukis /\ \A k \in DOMAIN ukis \intersect img.libModules : HasDrivers(img, ukiInfo.staged[k])
      BY <1>1, <1>3, <1>4, <1>7, <2>4 DEF DriversInv
    <3>2. UkisHaveDrivers(img.libModules)'
      BY <1>4a, <1>10, <2>1, <3>1 DEF UkisHaveDrivers
    <3> QED
      BY <1>1, <1>2, <1>10, <2>1, <2>2, <2>3, <2>4, <3>2 DEF DriversInv
  <2>5. CASE Uki # "create"
    <3>1. img'.esp = relined \/ img'.esp = img.esp
      BY <1>3, <1>6, <2>5
    <3>2. UkisHaveDrivers(img.libModules \ img.vmlinuz) => UkisHaveDrivers(img.libModules \ img.vmlinuz)'
      BY <1>4, <1>4a, <1>10, <2>1, <3>1 DEF UkisHaveDrivers
    <3>3. Uki \in {"passthrough", "modify"} => UkisHaveDrivers(img.libModules \ img.vmlinuz)
      BY <1>1 DEF DriversInv
    <3> QED
      BY <1>1, <1>2, <1>10, <2>1, <2>2, <2>3, <2>5, <3>2, <3>3 DEF DriversInv
  <2> QED
    BY <2>4, <2>5
<1> QED
  BY <1>12, <1>13, <1>14, <1>15, <1>16, <1>17, <1>18, <1>19, <1>20

-----------------------------------------------------------------------------
(* Runs.                                                                    *)

\* An image that a run may start from.
Fresh(im) ==
    /\ HasGrub(im) /\ KernelsOf(im) \subseteq Kernels
    /\ im.vmlinuz \subseteq im.libModules
    /\ DOMAIN im.esp = {} /\ im.grub.kind # "none" =>
          DOMAIN im.grub.lines = im.vmlinuz /\ im.libModules \subseteq im.vmlinuz
    /\ im.resolv # "host" /\ im.baselineResolv # "host"
    /\ ~im.etcMounted /\ ~im.etcWorkDir

\* A base image may be customized.
LEMMA BaseImagesFresh ==
    ASSUME NEW im \in BaseImages PROVE Fresh(im)
<1>1. /\ DOMAIN im = ImageFields /\ DOMAIN im.grub = DOMAIN NoGrub /\ im.grub.kind \in GrubKinds
      /\ KernelsOf(im) \subseteq Kernels /\ im.vmlinuz \subseteq im.libModules
      /\ DOMAIN im.esp = {} /\ im.grub.kind # "none" =>
            DOMAIN im.grub.lines = im.vmlinuz /\ im.libModules \subseteq im.vmlinuz
      /\ im.resolv # "host" /\ im.baselineResolv # "host" /\ ~im.etcMounted /\ ~im.etcWorkDir
  BY BaseImagesAssumption, Zenon
<1> QED
  BY <1>1, GrubDomain, Zenon DEF Fresh, HasGrub

\* An image that has the drivers it needs.
Driven(im) ==
    /\ HasDrivers(im, im.dracut)
    /\ im.vmlinuz \subseteq DOMAIN im.initramfs
    /\ \A k \in DOMAIN im.initramfs \intersect im.libModules : HasDrivers(im, im.initramfs[k])
    /\ \A k \in DOMAIN im.esp \intersect im.libModules :
          "init" \in DOMAIN im.esp[k] /\ HasDrivers(im, im.esp[k].init)

\* At the start of a run the whole image has them.
LEMMA DriversAtStart ==
    ASSUME NEW im, Driven(im), img = im, step = 1, ~SplitChain(cfg) PROVE DriversInv
BY DEF Driven, DriversInv, UkisHaveDrivers, BootHasDrivers

\* A base image has its drivers.
LEMMA BaseImagesDriven ==
    ASSUME NEW im \in BaseImages PROVE Driven(im)
<1>1. /\ HasDrivers(im, im.dracut) /\ im.vmlinuz \subseteq DOMAIN im.initramfs
      /\ \A k \in DOMAIN im.initramfs : HasDrivers(im, im.initramfs[k])
      /\ \A k \in DOMAIN im.esp : DOMAIN im.esp[k] = {"line", "init"} /\ HasDrivers(im, im.esp[k].init)
  BY BaseImagesAssumption, Zenon
<1> QED
  BY <1>1 DEF Driven

\* New partitions have a new fstab and no verity, and so need no driver.
LEMMA PartitionsDriven ==
    ASSUME NEW im, DOMAIN im = ImageFields, Driven(im), NEW chain
    PROVE  Driven(customizePartitionsUsingFileCopy(im, chain))
<1> DEFINE new == [im EXCEPT !.verity = "none", !.fstab = {}]
<1>1. /\ new.verity = "none" /\ new.fstab = {} /\ new.dracut = im.dracut /\ new.vmlinuz = im.vmlinuz
      /\ new.initramfs = im.initramfs /\ new.libModules = im.libModules /\ new.esp = im.esp
  BY DEF ImageFields
<1> HIDE DEF new
<1>2. \A drivers : HasDrivers(new, drivers)
  BY <1>1 DEF HasDrivers
<1>3. Driven(new)
  BY <1>1, <1>2 DEF Driven
<1> QED
  BY <1>3 DEF customizePartitionsUsingFileCopy, new

\* A set of natural numbers has a least element.
LEMMA LeastOf ==
    ASSUME NEW T \in SUBSET Nat, T # {} PROVE \E x \in T : \A y \in T : x <= y
<1> DEFINE R == {p \in Nat \X Nat : p[1] < p[2]}
<1>1. IsWellFoundedOn(R, Nat)
  BY NatLessThanWellFounded, Zenon DEF OpToRel
<1>2. \A x, y \in Nat : y < x => <<y, x>> \in R
  OBVIOUS
<1> HIDE DEF R
<1>3. PICK x \in T : \A y \in T : ~(<<y, x>> \in R)
  BY <1>1, WFMin
<1> QED
  <2>1. \A y \in T : ~(y < x)
    BY <1>2, <1>3
  <2>2. \A y \in T : x \in Nat /\ y \in Nat
    OBVIOUS
  <2>3. \A y \in T : x <= y
    BY <2>1, <2>2
  <2> QED
    BY <2>3

\* Of the files of a chain that have a setting one is the last.
LEMMA LastExists ==
    ASSUME NEW n \in Nat, NEW S \in SUBSET (1..n), S # {}
    PROVE  \E i \in S : \A j \in S : j <= i
<1> DEFINE T == {m \in Nat : \E i \in S : m = n - i}
<1>0. PICK a \in S : TRUE
  OBVIOUS
<1>1. T \in SUBSET Nat /\ T # {}
  <2>1. n - a \in T
    OBVIOUS
  <2> QED
    BY <2>1
<1>2. PICK m \in T : \A y \in T : m <= y
  BY <1>1, LeastOf
<1>3. PICK i \in S : m = n - i
  BY <1>2
<1>4. \A j \in S : n - j \in T
  OBVIOUS
<1> QED
  BY <1>2, <1>3, <1>4

\* os.uki.mode of a chain is a mode of one of its files.
LEMMA UkiTyped == Control => Uki \in UkiModes
<1> SUFFICES ASSUME Control PROVE Uki \in UkiModes
  OBVIOUS
<1> DEFINE set == {i \in 1..Len(cfg) : cfg[i].uki # "unset"}
           last == CHOOSE i \in set : \A j \in set : j <= i
<1>1. CASE set = {}
  BY <1>1 DEF Uki, resolveUki, LastSet, UkiModes
<1>2. CASE set # {}
  <2>1. Len(cfg) \in Nat /\ DOMAIN cfg = 1..Len(cfg) /\ \A i \in DOMAIN cfg : cfg[i].uki \in UkiModes
    BY LenChain, FilesTyped DEF Control
  <2>2. set \in SUBSET (1..Len(cfg))
    OBVIOUS
  <2>3. \E i \in set : \A j \in set : j <= i
    BY <1>2, <2>1, <2>2, LastExists
  <2> QED
    BY <1>2, <2>1, <2>3 DEF Uki, resolveUki, LastSet
<1> QED
  BY <1>1, <1>2

\* New partitions get the same files.
LEMMA PartitionsFresh ==
    ASSUME NEW im, Fresh(im), NEW chain
    PROVE  LET new == customizePartitionsUsingFileCopy(im, chain)
           IN Fresh(new) /\ new.esp = im.esp /\ new.libModules = im.libModules
<1> DEFINE new == customizePartitionsUsingFileCopy(im, chain)
<1>1. DOMAIN new = ImageFields /\ \A x \in ImageFields \ {"verity", "fstab"} : new[x] = im[x]
  BY DEF customizePartitionsUsingFileCopy, Fresh, HasGrub
<1> HIDE DEF new
<1>2. \A x \in {"grub", "vmlinuz", "libModules", "initramfs", "esp", "resolv", "baselineResolv",
                "etcMounted", "etcWorkDir"} : new[x] = im[x]
  BY <1>1 DEF ImageFields
<1>3. Fresh(new) /\ new.esp = im.esp /\ new.libModules = im.libModules
  BY <1>1, <1>2 DEF Fresh, HasGrub, KernelsOf
<1> QED
  BY <1>3 DEF new

\* The image of a run that succeeded.
LEMMA OutputFresh ==
    ASSUME ImageInv, result = "ok" PROVE Fresh(img)
<1> USE DEF ImageInv
<1>1. step = 28
  BY DEF Control
<1>2. img.vmlinuz \subseteq img.libModules
  BY <1>1 DEF ModulesInv, CreateUkiInv
<1>3. DOMAIN img.esp = {} /\ img.grub.kind # "none" =>
          DOMAIN img.grub.lines = img.vmlinuz /\ img.libModules \subseteq img.vmlinuz
  BY DEF GrubInv
<1>4. /\ img.resolv # "host" /\ img.baselineResolv # "host"
      /\ ~img.etcMounted /\ ~img.etcWorkDir
  BY <1>1 DEF ResolvInv, EtcInv
<1> QED
  BY <1>2, <1>3, <1>4, ImageHasGrub DEF Fresh, KnownKernels

\* The image of a run that succeeded has its drivers, unless a chain of its history is split.
LEMMA OutputDriven ==
    ASSUME ImageInv, result = "ok", ~loc.split PROVE Driven(img)
<1> USE DEF ImageInv
<1>1. step = 28
  BY DEF Control
<1>2. /\ ~SplitChain(cfg) /\ HasDrivers(img, img.dracut) /\ img.vmlinuz \subseteq DOMAIN img.initramfs
      /\ BootHasDrivers
  BY <1>1 DEF DriversInv
<1>3. UkisHaveDrivers(img.libModules)
  <2>1. CASE Uki = "create"
    BY <2>1 DEF DriversInv
  <2>2. CASE Uki = "unset"
    BY <2>2 DEF GrubInv, UkisHaveDrivers
  <2>3. CASE Uki \in {"passthrough", "modify"}
    <3>1. img.vmlinuz = {}
      BY <1>1, <1>2, <2>3 DEF KeptUkiInv, hasKernelBinariesInBoot
    <3>2. UkisHaveDrivers(img.libModules \ img.vmlinuz)
      BY <2>3 DEF DriversInv
    <3> QED
      BY <3>1, <3>2 DEF UkisHaveDrivers
  <2> QED
    BY <2>1, <2>2, <2>3, UkiTyped DEF UkiModes
<1> QED
  BY <1>2, <1>3 DEF Driven, BootHasDrivers, UkisHaveDrivers

\* What Accepted says of an image without os.uki.
LEMMA AcceptedUki ==
    ASSUME NEW im, NEW chain, Accepted(im, chain), resolveUki(chain) = "unset"
    PROVE  DOMAIN im.esp = {}
BY DEF Accepted, validateUkiMode

\* The first run starts from a base image.
LEMMA ImageInvInit == Init => ImageInv
<1> SUFFICES ASSUME Init PROVE ImageInv
  OBVIOUS
<1>1. PICK im \in BaseImages : img = customizePartitionsUsingFileCopy(im, cfg)
  BY DEF Init
<1>2. Fresh(img)
  BY <1>1, BaseImagesFresh, PartitionsFresh
<1>3. /\ cfg \in Chains /\ Accepted(img, cfg) /\ ukiInfo = NoUkiInfo /\ step = 1 /\ result = "running"
      /\ runs = 1 /\ pkgStep = "idle"
      /\ loc = [NoLocals EXCEPT !.orphans = DOMAIN img.esp \ img.libModules, !.split = SplitChain(cfg)]
  BY DEF Init, PkgInit
<1> DEFINE orphans == DOMAIN img.esp \ img.libModules
           split == SplitChain(cfg)
<1>4. loc = [NoLocals EXCEPT !.orphans = orphans, !.split = split]
  BY <1>3
<1> HIDE DEF orphans, split
<1>5. /\ DOMAIN loc = DOMAIN NoLocals /\ loc.cf = 1 /\ loc.resolv = "none"
      /\ loc.overlayUpdated = FALSE /\ loc.verityUpdated = FALSE /\ loc.orphans = orphans /\ loc.split = split
  BY <1>4 DEF NoLocals
<1>6. Shape /\ KnownKernels
  BY <1>2, <1>3, <1>5, GrubDomain DEF Shape, Fresh, HasGrub, KnownKernels, NoUkiInfo, NoLines
<1>7. Control
  BY <1>3, <1>5, LenChain, OsAssumption DEF Control
<1>8. ChainAccepted
  BY <1>3 DEF ChainAccepted, Accepted
<1>9. ResolvInv /\ EtcInv /\ LabelInv
  BY <1>2, <1>3, <1>5 DEF ResolvInv, EtcInv, LabelInv, Fresh
<1>10. KeptUkiInv /\ CreateUkiInv
  BY <1>3, <1>5 DEF KeptUkiInv, CreateUkiInv
<1>11. ModulesInv
  BY <1>2, <1>3, <1>5 DEF ModulesInv, Fresh, orphans
<1>12. GrubInv
  BY <1>2, <1>3, AcceptedUki DEF GrubInv, Fresh, Uki
<1>13. Driven(img)
  BY <1>1, BaseImagesFresh, BaseImagesDriven, PartitionsDriven DEF Fresh, HasGrub
<1>14. DriversInv
  <2>1. CASE loc.split
    BY <2>1 DEF DriversInv
  <2>2. CASE ~loc.split
    BY <1>3, <1>5, <1>13, <2>2, DriversAtStart DEF split
  <2> QED
    BY <2>1, <2>2
<1> QED
  BY <1>6, <1>7, <1>8, <1>9, <1>10, <1>11, <1>12, <1>14 DEF ImageInv

\* A further run starts from the image of the one before, or from a base image.
LEMMA NextRunStep ==
    ASSUME ImageInv, PackagesOnlyInRun, NEW chain \in Chains, NextRun(chain)
    PROVE  ImageInv'
<1>1. PICK im : (im \in IF result = "ok" THEN {img} ELSE BaseImages) /\ StartRun(im, chain)
  BY DEF NextRun
<1>2. Fresh(im)
  BY <1>1, OutputFresh, BaseImagesFresh
<1> DEFINE new == customizePartitionsUsingFileCopy(im, chain)
           leftover == ukiInfo.exists
           orphans == DOMAIN im.esp \ im.libModules
           split == SplitChain(chain) \/ (result = "ok" /\ loc.split)
<1>3. /\ Accepted(new, chain) /\ img' = new /\ cfg' = chain /\ step' = 1 /\ result' = "running"
      /\ loc' = [NoLocals EXCEPT !.leftover = leftover, !.orphans = orphans, !.split = split]
  BY <1>1 DEF StartRun
<1>4. runs < MaxRuns /\ runs' = runs + 1 /\ UNCHANGED <<ukiInfo, pkgStep>> /\ result # "running"
  BY DEF NextRun
<1>5. pkgStep' = "idle"
  BY <1>4 DEF PackagesOnlyInRun
<1>6. Fresh(new) /\ new.esp = im.esp /\ new.libModules = im.libModules
  BY <1>2, PartitionsFresh
<1> HIDE DEF new, leftover, split
<1>7. orphans = DOMAIN img'.esp \ img'.libModules
  BY <1>3, <1>6
<1> HIDE DEF orphans
<1>8. /\ DOMAIN loc' = DOMAIN NoLocals /\ loc'.cf = 1 /\ loc'.resolv = "none"
      /\ loc'.overlayUpdated = FALSE /\ loc'.verityUpdated = FALSE /\ loc'.orphans = orphans /\ loc'.split = split
  BY <1>3 DEF NoLocals
<1>9. HasGrub(img') /\ KernelsOf(img') \subseteq Kernels
  BY <1>3, <1>6 DEF Fresh
<1>10. Shape' /\ KnownKernels'
  BY <1>4, <1>8, <1>9, GrubDomain DEF ImageInv, Shape, HasGrub, KnownKernels
<1>11. Control'
  BY <1>3, <1>4, <1>5, <1>8, LenChain, OsAssumption DEF ImageInv, Control
<1>12. ChainAccepted'
  BY <1>3 DEF ChainAccepted, Accepted
<1>13. ResolvInv' /\ EtcInv' /\ LabelInv'
  BY <1>3, <1>6, <1>8 DEF ResolvInv, EtcInv, LabelInv, Fresh
<1>14. KeptUkiInv' /\ CreateUkiInv'
  BY <1>3, <1>8 DEF KeptUkiInv, CreateUkiInv
<1>15. ModulesInv'
  BY <1>3, <1>6, <1>7, <1>8 DEF ModulesInv, Fresh
<1>16. GrubInv'
  <2>1. Uki' = resolveUki(chain)
    BY <1>3 DEF Uki
  <2> QED
    BY <1>3, <1>6, <2>1, AcceptedUki DEF GrubInv, Fresh
<1>17. DriversInv'
  <2>1. CASE split
    BY <1>8, <2>1 DEF DriversInv
  <2>2. CASE ~split
    <3>1. ~SplitChain(cfg)' /\ (result = "ok" => ~loc.split)
      BY <1>3, <2>2 DEF split
    <3>2. Driven(im)
      BY <1>1, <3>1, OutputDriven, BaseImagesDriven
    <3>3. Driven(new)
      BY <1>2, <3>2, PartitionsDriven DEF new, Fresh, HasGrub
    <3>4. Driven(img)'
      BY <1>3, <3>3 DEF Driven, HasDrivers
    <3> QED
      BY <1>3, <3>1, <3>4 DEF Driven, DriversInv, UkisHaveDrivers, BootHasDrivers
  <2> QED
    BY <2>1, <2>2
<1> QED
  BY <1>10, <1>11, <1>12, <1>13, <1>14, <1>15, <1>16, <1>17 DEF ImageInv

\* Every step keeps the invariant.
LEMMA ImageInvNext == ImageInv /\ RpmInv /\ [Next]_vars => ImageInv'
<1> SUFFICES ASSUME ImageInv, RpmInv, [Next]_vars PROVE ImageInv'
  OBVIOUS
<1>1. CASE PackagesDone \/ UpdateHostname \/ AddOrUpdateUsers \/ copyAdditionalDirs \/ copyAdditionalFiles
           \/ EnableOrDisableServices \/ LoadOrDisableModules \/ addCustomizerRelease \/ addImageHistory
           \/ removeOsPackageManager
  BY <1>1, FileSteps
<1>2. CASE SetupEtcOverlay \/ overrideResolvConf \/ restoreResolvConf \/ selinuxSetFiles \/ FinalizeEtcOverlay
  BY <1>2, SetupEtcOverlayStep, OverrideResolvStep, RestoreResolvStep, SetFilesStep, EtcFinalizeStep
<1>3. CASE ExtractUkis \/ StartPackages \/ PackageManagement \/ RunPackageOperation \/ KernelCheck
  BY <1>3, ExtractUkisStep, StartPackagesStep, PackageManagementStep, PackageOperationStep, KernelCheckStep
<1>4. CASE hardResetBootLoader \/ AddKernelCommandLine \/ keepSELinux \/ handleSELinux
  BY <1>4, HardResetStep, AddKernelCommandLineStep, KeepSELinuxStep, HandleSELinuxStep
<1>5. CASE enableOverlays \/ enableVerityPartition \/ regenerateInitramfs \/ runUserScripts
  BY <1>5, OverlaysStep, VerityStep, InitramfsStep, ScriptsStep
<1>6. CASE prepareUki \/ CheckForInstalledKernel \/ customizeVerityImage \/ createUki
  BY <1>6, PrepareUkiStep, CheckKernelStep, VerityImageStep, CreateUkiStep
<1>7. CASE StepFails
  BY <1>7, StepFailsStep
<1>8. CASE \E chain \in Chains : NextRun(chain)
  BY <1>8, NextRunStep DEF RpmInv
<1>9. CASE Finished \/ UNCHANGED vars
  <2>1. UNCHANGED <<img, cfg, ukiInfo, step, result, loc, runs, pkgStep>>
    BY <1>9 DEF Finished, vars, osVars, pkgVars
  <2>2. Shape' /\ Control' /\ ChainAccepted' /\ KnownKernels' /\ ResolvInv' /\ EtcInv' /\ LabelInv'
    BY <2>1 DEF ImageInv, Shape, Control, ChainAccepted, KnownKernels, ResolvInv, EtcInv, LabelInv
  <2>3. KeptUkiInv' /\ ModulesInv' /\ GrubInv' /\ CreateUkiInv'
    BY <2>1 DEF ImageInv, KeptUkiInv, ModulesInv, GrubInv, CreateUkiInv, Uki
  <2>4. DriversInv'
    BY <2>1 DEF ImageInv, DriversInv, Uki, UkisHaveDrivers, BootHasDrivers
  <2> QED
    BY <2>2, <2>3, <2>4 DEF ImageInv
<1> QED
  BY <1>1, <1>2, <1>3, <1>4, <1>5, <1>6, <1>7, <1>8, <1>9 DEF Next

-----------------------------------------------------------------------------
(* The packages sections.                                                   *)

AllGuards == {"custom-tdnf.conf", "policy-rc.d", "start-stop-daemon"}

PackagesTyped == pkgCfg \in PackageConfigs /\ pkgErr \in BOOLEAN /\ guards \subseteq AllGuards

\* The packages section of a file.
LEMMA PackageConfigTyped ==
    ASSUME NEW f, f.ops \subseteq PackageOps, f.snapshot \in BOOLEAN
    PROVE  PackageConfigOf(f) \in PackageConfigs
<1> DEFINE manager == IF img.distro = "ubuntu" THEN "apt" ELSE "tdnf"
<1>1. manager \in Managers
  BY DEF Managers
<1>2. PackageConfigOf(f) = [manager |-> manager, snapshot |-> f.snapshot, ops |-> f.ops]
  BY DEF PackageConfigOf
<1> HIDE DEF manager
<1> QED
  BY <1>1, <1>2 DEF PackageConfigs

\* The steps of managePackages keep the types of its variables.
LEMMA PackageStepTyped ==
    ASSUME PackagesTyped, PackageStep \/ PackageOperation
    PROVE  PackagesTyped'
<1> USE DEF PackagesTyped, AllGuards, Goto, Fail
<1>1. CASE configureSnapshotTime
  BY <1>1 DEF configureSnapshotTime
<1>2. CASE mountRpmSourcesHelper
  BY <1>2 DEF mountRpmSourcesHelper
<1>3. CASE \E s \in RpmSources : mountRpmsSource(s)
  BY <1>3 DEF mountRpmsSource
<1>4. CASE mountRpmSources
  BY <1>4 DEF mountRpmSources
<1>5. CASE setupServicePrevention
  BY <1>5 DEF setupServicePrevention
<1>6. CASE refreshRpmPackageMetadata \/ refreshDebPackageMetadata
  BY <1>6 DEF refreshRpmPackageMetadata, refreshDebPackageMetadata
<1>7. CASE close
  <2>1. UNCHANGED <<pkgCfg, guards>>
    BY <1>7 DEF close
  <2>2. UNCHANGED pkgErr \/ \E failing \in CloseFailures(repos) : pkgErr' = CloseReturnsError(repos, failing)
    BY <1>7 DEF close
  <2>3. \A failing : CloseReturnsError(repos, failing) \in BOOLEAN
    BY DEF CloseReturnsError
  <2> QED
    BY <2>1, <2>2, <2>3
<1>8. CASE mountRpmSourcesUndo \/ deferredClose
  BY <1>8 DEF mountRpmSourcesUndo, deferredClose
<1>9. CASE cleanRpmCache \/ cleanDebCache
  BY <1>9 DEF cleanRpmCache, cleanDebCache
<1>10. CASE teardownServicePrevention \/ cleanupSnapshotTimeConfig
  BY <1>10 DEF teardownServicePrevention, cleanupSnapshotTimeConfig
<1>11. CASE PackageOperation
  BY <1>11 DEF PackageOperation, RpmPackageOperation, DebPackageOperation
<1> QED
  BY <1>1, <1>2, <1>3, <1>4, <1>5, <1>6, <1>7, <1>8, <1>9, <1>10, <1>11 DEF PackageStep

\* Every step keeps the types of the package variables.
LEMMA PackagesTypedNext == PackagesTyped /\ Control /\ [Next]_vars => PackagesTyped'
<1> SUFFICES ASSUME PackagesTyped, Control, [Next]_vars PROVE PackagesTyped'
  OBVIOUS
<1>1. CASE OtherStep \/ createUki \/ StepFails \/ Finished \/ UNCHANGED vars
  <2>1. UNCHANGED <<pkgCfg, pkgErr, guards>>
    BY <1>1, OtherStepsLeavePackages DEF createUki, StepFails, Abort, Finished, vars, pkgVars
  <2> QED
    BY <2>1 DEF PackagesTyped
<1>2. CASE StartPackages
  <2>1. cfg \in Chains /\ loc.cf \in 1..Len(cfg)
    BY <1>2, LenChain DEF StartPackages, Control
  <2>2. PackageConfigOf(cfg[loc.cf]) \in PackageConfigs
    BY <2>1, FilesTyped, PackageConfigTyped
  <2> QED
    BY <1>2, <2>2 DEF StartPackages, ManagePackages, PackagesTyped
<1>3. CASE PackageManagement \/ RunPackageOperation
  BY <1>3, PackageStepTyped DEF PackageManagement, RunPackageOperation
<1>4. CASE \E chain \in Chains : NextRun(chain)
  BY <1>4 DEF NextRun, PackagesTyped, NoGuards
<1> QED
  BY <1>1, <1>2, <1>3, <1>4 DEF Next, OtherStep

-----------------------------------------------------------------------------
(* Theorems.                                                                *)

OsInv == PackagesInv /\ PackagesTyped /\ ImageInv

\* The invariant of OS customizations: the package flow and the image, from any base image,
\* along any chain that is accepted, through any number of runs.
THEOREM OsAlways == Spec => []OsInv
<1>1. Init => OsInv
  <2>1. Init => PackagesTyped
    <3>1. NoPackages \in PackageConfigs
      BY DEF NoPackages, PackageConfigs, Managers
    <3>2. Init => pkgCfg = NoPackages /\ pkgErr = FALSE /\ guards = {}
      BY DEF Init, PkgInit, NoGuards
    <3> QED
      BY <3>1, <3>2 DEF PackagesTyped
  <2> QED
    BY <2>1, PackagesInvInit, ImageInvInit DEF OsInv
<1>2. OsInv /\ [Next]_vars => OsInv'
  BY PackagesInvNext, PackagesTypedNext, ImageInvNext DEF OsInv, PackagesInv, ImageInv
<1> QED
  BY <1>1, <1>2, PTL DEF Spec

\* Every initramfs, grub entry and UKI stays that of a known kernel, managePackages stays
\* within its steps, and doOsCustomizations within its own.
THEOREM OsTypeCorrect == Spec => []TypeOK
<1>1. OsInv => TypeOK
  <2> SUFFICES ASSUME OsInv PROVE TypeOK
    OBVIOUS
  <2>1. PkgTypeOK
    BY DEF OsInv, PackagesInv, RpmInv, ReposTyped, FlowInv, RightFlow, PackagesTyped, AllGuards, PkgTypeOK
  <2> QED
    BY <2>1, StepsValues DEF OsInv, ImageInv, Control, KnownKernels, TypeOK
<1> QED
  BY <1>1, OsAlways, PTL

\* restoreResolvConf comes before anything of the image is folded or closed, so the host's
\* resolv.conf that overrideResolvConf put in place is in no image that is written.
THEOREM HostResolvConfRemoved == Spec => []NoHostResolvConf
<1>1. OsInv => NoHostResolvConf
  BY DEF OsInv, ImageInv, Control, ResolvInv, NoHostResolvConf
<1> QED
  BY <1>1, OsAlways, PTL

\* No step after selinuxSetFiles writes files but the finalizeCustomization scripts.
THEOREM WrittenFilesLabelled == Spec => []FilesLabelled
<1>1. OsInv => FilesLabelled
  BY DEF OsInv, ImageInv, Control, LabelInv, FilesLabelled
<1> QED
  BY <1>1, OsAlways, PTL

\* In the modes that keep the UKIs no step after KernelCheck makes a kernel or an initramfs:
\* what would make one, its own file may not have.
THEOREM KeptUkisStayWhole == Spec => []UkisStayWhole
<1>1. OsInv => UkisStayWhole
  BY DEF OsInv, ImageInv, Control, KeptUkiInv, UkisStayWhole
<1> QED
  BY <1>1, OsAlways, PTL

\* Whatever kernels the packages install and remove, the rebuilt boot entries are of kernels
\* whose modules are there, and there is one.
THEOREM BootedKernelsHaveModules == Spec => []BootedKernelsInstalled
<1>1. OsInv => BootedKernelsInstalled
  <2> SUFFICES ASSUME OsInv, result = "ok", Uki \in {"unset", "create"}
               PROVE  Booted # {} /\ Booted \subseteq img.libModules \union loc.orphans
    BY DEF BootedKernelsInstalled
  <2> USE DEF OsInv, ImageInv
  <2>1. step = 28
    BY DEF Control
  <2>2. CASE Uki = "create"
    <3>1. DOMAIN img.esp # {} /\ DOMAIN img.esp \subseteq img.libModules \union loc.orphans
      BY <2>1, <2>2 DEF CreateUkiInv
    <3>2. Booted = DOMAIN img.esp
      BY <3>1 DEF Booted, BootedLines
    <3> QED
      BY <3>1, <3>2
  <2>3. CASE Uki = "unset"
    <3>1. DOMAIN img.esp = {} /\ img.grub.kind # "none"
      BY <2>1, <2>3 DEF GrubInv
    <3>2. DOMAIN img.grub.lines = img.vmlinuz /\ img.libModules \subseteq img.vmlinuz
      BY <3>1 DEF GrubInv
    <3>3. img.libModules # {} /\ img.vmlinuz \subseteq img.libModules
      BY <2>1, <2>3 DEF ModulesInv
    <3>4. Booted = DOMAIN img.grub.lines
      BY <3>1 DEF Booted, BootedLines
    <3> QED
      BY <3>2, <3>3, <3>4
  <2> QED
    BY <2>2, <2>3
<1> QED
  BY <1>1, OsAlways, PTL

\* InitramfsHasDrivers, for every chain that is not split: every kernel with modules that a
\* customized image boots has the overlay and verity drivers the image needs in its
\* initramfs, whichever of /boot, a new UKI and a kept UKI it boots from.
THEOREM BootedKernelsHaveDrivers == Spec => []InitramfsHasDrivers
<1>1. OsInv => InitramfsHasDrivers
  <2> SUFFICES ASSUME ImageInv, result = "ok", ~loc.split, NEW k \in Booted \intersect img.libModules
               PROVE  HasDrivers(img, BootedInitramfs(img, k))
    BY DEF OsInv, InitramfsHasDrivers
  <2>1. Driven(img)
    BY OutputDriven
  <2>2. CASE k \in DOMAIN img.esp
    BY <2>1, <2>2 DEF Driven, BootedInitramfs
  <2>3. CASE k \notin DOMAIN img.esp
    <3>1. DOMAIN img.esp = {} /\ k \in DOMAIN img.grub.lines
      BY <2>3 DEF Booted, BootedLines
    <3>2. img.grub.kind # "none" /\ DOMAIN img.grub.lines = img.vmlinuz
      BY <3>1 DEF ImageInv, GrubInv, CreateUkiInv, Control
    <3> QED
      BY <2>1, <2>3, <3>1, <3>2 DEF Driven, BootedInitramfs
  <2> QED
    BY <2>2, <2>3
<1> QED
  BY <1>1, OsAlways, PTL


\* Every close, unmount and teardown that a successful run skips is one whose object it
\* never made: no RPM mount, repository file, service guard or /etc overlay is left.
THEOREM RunLeavesNothing == Spec => []NothingLeftBehind
<1>1. OsInv => NothingLeftBehind
  <2> SUFFICES ASSUME OsInv, result = "ok" PROVE NothingLeftBehind
    BY DEF NothingLeftBehind
  <2> USE DEF OsInv
  <2>1. pkgStep = "idle"
    BY DEF PackagesInv, RpmInv, PackagesOnlyInRun
  <2>2. NothingHeld
    BY <2>1 DEF PackagesInv, HeldOnlyByPackages
  <2>3. ~img.etcMounted /\ ~img.etcWorkDir
    BY DEF ImageInv, Control, EtcInv
  <2> QED
    BY <2>2, <2>3 DEF NothingLeftBehind, NothingHeld, ReposClean
<1> QED
  BY <1>1, OsAlways, PTL

=============================================================================

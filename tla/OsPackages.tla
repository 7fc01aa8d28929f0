----------------------------- MODULE OsPackages -----------------------------
(***************************************************************************)
(* The package step of an OS customization: managePackagesRpm and          *)
(* managePackagesDeb, with the temporary things they put into the chroot   *)
(* the package manager runs in.  The RPM flow bind-mounts the host's RPM   *)
(* sources below a directory of its own (rpmsourcesmounts.go), closes them *)
(* explicitly and once more in a defer, and may add a tdnf configuration   *)
(* for a snapshot time; the Debian flow keeps services from starting.      *)
(* The step runs once per configuration file of the chain.                 *)
(***************************************************************************)
EXTENDS Naturals, FiniteSets

CONSTANT RpmSources      \* the host files and directories given as RPM sources

ASSUME RpmSourcesFinite == IsFiniteSet(RpmSources)

VARIABLES
    pkgStep,    \* where managePackages is, "idle" when it is not running
    pkgCfg,     \* the packages section of the configuration file it works on
    pkgErr,     \* the error it will return
    repos,      \* rpmSourcesMounts, and what it put into the chroot
    guards      \* custom-tdnf.conf, policy-rc.d and the diverted start-stop-daemon

pkgVars == <<pkgStep, pkgCfg, pkgErr, repos, guards>>

Managers == {"tdnf", "dnf", "apt"}
PackageOps == {"remove", "updateExisting", "install", "update"}

\* os.packages of one configuration file, and the package manager of the distribution.
PackageConfigs == [manager : Managers, snapshot : BOOLEAN, ops : SUBSET PackageOps]
NoPackages == [manager |-> "tdnf", snapshot |-> FALSE, ops |-> {}]

PkgSteps == {"idle", "snapshot", "setup", "mkdir", "mount", "refresh"} \union PackageOps
              \union {"close", "clean", "teardown", "undo", "deferClose", "deferSnapshot"}

\* created is rpmsMountParentDirCreated, opened is mounts; dir, mounted and
\* allRepos are what the chroot really holds.
ReposClosed == [dir |-> FALSE, created |-> FALSE, opened |-> {}, mounted |-> {}, allRepos |-> FALSE]
NoGuards == {}

PkgTypeOK ==
    /\ pkgStep \in PkgSteps
    /\ pkgCfg \in PackageConfigs
    /\ pkgErr \in BOOLEAN
    /\ repos \in [dir : BOOLEAN, created : BOOLEAN, opened : SUBSET RpmSources,
                  mounted : SUBSET RpmSources, allRepos : BOOLEAN]
    /\ guards \subseteq {"custom-tdnf.conf", "policy-rc.d", "start-stop-daemon"}

PkgInit ==
    /\ pkgStep = "idle"
    /\ pkgCfg = NoPackages
    /\ pkgErr = FALSE
    /\ repos = ReposClosed
    /\ guards = NoGuards

needPackageSources(c) == c.ops \intersect {"install", "update", "updateExisting"} # {}

needPackageCleanup(c) == needPackageSources(c) \/ "remove" \in c.ops

-----------------------------------------------------------------------------
(* Control flow of managePackagesRpm and managePackagesDeb.                 *)

\* The operations in the order both functions run them; an empty list is skipped.
OpsInOrder == <<"remove", "updateExisting", "install", "update">>

OpAfter(c, i) ==
    LET later == {j \in (i + 1)..4 : OpsInOrder[j] \in c.ops}
    IN IF later = {} THEN "close" ELSE OpsInOrder[CHOOSE j \in later : \A k \in later : j <= k]

PositionOf(op) == CHOOSE i \in 1..4 : OpsInOrder[i] = op

Goto(step) == pkgStep' = step /\ UNCHANGED pkgErr

\* The deferred calls run in reverse order, the mounts before the snapshot configuration.
DeferredFrom == IF pkgCfg.manager = "apt" THEN "idle"
                ELSE IF repos.created \/ repos.opened # {} THEN "deferClose" ELSE "deferSnapshot"

Fail == pkgStep' = DeferredFrom /\ pkgErr' = TRUE

\* managePackagesRpm starts without an rpmSourcesMounts; what the chroot holds stays.
ManagePackages(c) ==
    /\ pkgStep = "idle"
    /\ pkgCfg' = c
    /\ pkgErr' = FALSE
    /\ pkgStep' = IF c.manager = "apt"
                  THEN IF needPackageSources(c) THEN "setup" ELSE OpAfter(c, 0)
                  ELSE "snapshot"
    /\ repos' = [repos EXCEPT !.created = FALSE, !.opened = {}]
    /\ UNCHANGED guards

\* dnf has no snapshot time; tdnf is given a configuration file of its own.
configureSnapshotTime ==
    /\ pkgStep = "snapshot"
    /\ \/ /\ pkgCfg.snapshot /\ pkgCfg.manager = "tdnf"
          /\ guards' = guards \union {"custom-tdnf.conf"}
          /\ Goto(IF needPackageSources(pkgCfg) THEN "mkdir" ELSE OpAfter(pkgCfg, 0))
       \/ /\ ~pkgCfg.snapshot
          /\ Goto(IF needPackageSources(pkgCfg) THEN "mkdir" ELSE OpAfter(pkgCfg, 0))
          /\ UNCHANGED guards
       \/ /\ pkgCfg.snapshot                       \* returns before the defer
          /\ pkgStep' = "idle" /\ pkgErr' = TRUE
          /\ UNCHANGED guards
    /\ UNCHANGED <<pkgCfg, repos>>

\* os.Mkdir refuses a directory that is already there, and then nothing is owned.
mountRpmSourcesHelper ==
    /\ pkgStep = "mkdir"
    /\ \/ /\ ~repos.dir
          /\ repos' = [repos EXCEPT !.dir = TRUE, !.created = TRUE]
          /\ Goto("mount")
       \/ /\ pkgStep' = "undo" /\ pkgErr' = TRUE
          /\ UNCHANGED repos
    /\ UNCHANGED <<pkgCfg, guards>>

\* createRepoFromDirectory, createRepoFromRepoConfig and redirectRepoUri come down
\* to one bind mount per local source, in the order of the sources.
mountRpmsSource(s) ==
    /\ pkgStep = "mount"
    /\ s \notin repos.opened
    /\ repos' = [repos EXCEPT !.opened = @ \union {s}, !.mounted = @ \union {s}]
    /\ UNCHANGED <<pkgStep, pkgErr, pkgCfg, guards>>

\* All sources are mounted and allrepos.repo is written; or one source cannot be
\* read or mounted, or the file cannot be written, and mountRpmSources undoes itself.
mountRpmSources ==
    /\ pkgStep = "mount"
    /\ \/ /\ repos.opened = RpmSources
          /\ repos' = [repos EXCEPT !.allRepos = TRUE]
          /\ Goto("refresh")
       \/ /\ \E written \in BOOLEAN :
                repos' = [repos EXCEPT !.allRepos = written /\ repos.opened = RpmSources]
          /\ pkgStep' = "undo" /\ pkgErr' = TRUE
    /\ UNCHANGED <<pkgCfg, guards>>

setupServicePrevention ==
    /\ pkgStep = "setup"
    /\ \/ /\ guards \intersect {"policy-rc.d", "start-stop-daemon"} = {}
          /\ guards' = guards \union {"policy-rc.d", "start-stop-daemon"}
          /\ Goto("refresh")
       \/ /\ \E g \in {guards, guards \union {"policy-rc.d"}} : guards' = g
          /\ Fail
    /\ UNCHANGED <<pkgCfg, repos>>

\* GPG keys and check-update, whose exit code 100 is not an error.
refreshRpmPackageMetadata ==
    /\ pkgStep = "refresh" /\ pkgCfg.manager # "apt"
    /\ Goto(OpAfter(pkgCfg, 0)) \/ Fail
    /\ UNCHANGED <<pkgCfg, repos, guards>>

refreshDebPackageMetadata ==
    /\ pkgStep = "refresh" /\ pkgCfg.manager = "apt"
    /\ Goto(OpAfter(pkgCfg, 0)) \/ Fail
    /\ UNCHANGED <<pkgCfg, repos, guards>>

\* One operation of tdnf or dnf; it may change the image whether or not it fails.
RpmPackageOperation ==
    /\ pkgStep \in PackageOps /\ pkgCfg.manager # "apt"
    /\ Goto(OpAfter(pkgCfg, PositionOf(pkgStep))) \/ Fail
    /\ UNCHANGED <<pkgCfg, repos, guards>>

\* One operation of apt-get; removing also runs autoremove.
DebPackageOperation ==
    /\ pkgStep \in PackageOps /\ pkgCfg.manager = "apt"
    /\ Goto(OpAfter(pkgCfg, PositionOf(pkgStep))) \/ Fail
    /\ UNCHANGED <<pkgCfg, repos, guards>>

PackageOperation == RpmPackageOperation \/ DebPackageOperation

-----------------------------------------------------------------------------
(* rpmSourcesMounts.close, at each of its three call sites.                 *)

\* Mutation: os.RemoveAll of the directory whatever failed.
ClosedRemoveAll(r, failing) ==
    [r EXCEPT !.allRepos = FALSE, !.mounted = r.mounted \intersect failing,
              !.dir = @ /\ ~r.created, !.created = FALSE]

\* failing: what cannot be removed.  A mount that cannot be unmounted keeps the
\* directory, which is removed with os.Remove and only when nothing failed before.
Closed(r, failing) ==
    LET stuck == r.mounted \intersect failing
        errs == stuck # {} \/ (r.allRepos /\ "allrepos" \in failing)
        removed == ~errs /\ r.created /\ "dir" \notin failing
    IN [r EXCEPT !.allRepos = @ /\ "allrepos" \in failing,
                 !.mounted = stuck,
                 !.dir = @ /\ ~removed,
                 !.created = @ /\ ~removed]

CloseFailures(r) == SUBSET ({"allrepos", "dir"} \union r.mounted)

\* Mutation: only a mount that stays is an error.
CloseReturnsErrorMounts(r, failing) == Closed(r, failing).mounted # {}

CloseReturnsError(r, failing) ==
    LET after == Closed(r, failing)
    IN after.allRepos \/ after.mounted # {} \/ after.created

\* The explicit close at the end of the RPM flow; its error is returned.
close ==
    /\ pkgStep = "close"
    /\ IF repos.created
       THEN \E failing \in CloseFailures(repos) :
              /\ repos' = Closed(repos, failing)
              /\ pkgStep' = IF CloseReturnsError(repos, failing) THEN "deferClose" ELSE "clean"
              /\ pkgErr' = CloseReturnsError(repos, failing)
       ELSE Goto("clean") /\ UNCHANGED repos
    /\ UNCHANGED <<pkgCfg, guards>>

\* mountRpmSources failed: close, with a warning only; the caller never sees the mounts.
mountRpmSourcesUndo ==
    /\ pkgStep = "undo"
    /\ \E failing \in CloseFailures(repos) : repos' = Closed(repos, failing)
    /\ Goto("deferSnapshot")
    /\ UNCHANGED <<pkgCfg, guards>>

\* The deferred close; a second close only does what the first one left.
deferredClose ==
    /\ pkgStep = "deferClose"
    /\ \E failing \in CloseFailures(repos) : repos' = Closed(repos, failing)
    /\ Goto("deferSnapshot")
    /\ UNCHANGED <<pkgCfg, guards>>

cleanRpmCache ==
    /\ pkgStep = "clean" /\ pkgCfg.manager # "apt"
    /\ Goto(DeferredFrom) \/ (needPackageSources(pkgCfg) /\ Fail)
    /\ UNCHANGED <<pkgCfg, repos, guards>>

\* Also after packages were only removed.
cleanDebCache ==
    /\ pkgStep = "clean" /\ pkgCfg.manager = "apt"
    /\ \/ Goto(IF needPackageSources(pkgCfg) THEN "teardown" ELSE "idle")
       \/ needPackageCleanup(pkgCfg) /\ Fail
    /\ UNCHANGED <<pkgCfg, repos, guards>>

teardownServicePrevention ==
    /\ pkgStep = "teardown"
    /\ \/ guards' = guards \ {"policy-rc.d", "start-stop-daemon"} /\ Goto("idle")
       \/ guards' = guards \ {"policy-rc.d"} /\ Fail
    /\ UNCHANGED <<pkgCfg, repos>>

\* A defer too: its error is returned when there is none yet.
cleanupSnapshotTimeConfig ==
    /\ pkgStep = "deferSnapshot"
    /\ pkgStep' = "idle"
    /\ \/ guards' = guards \ {"custom-tdnf.conf"} /\ UNCHANGED pkgErr
       \/ "custom-tdnf.conf" \in guards /\ UNCHANGED guards /\ pkgErr' = TRUE
    /\ UNCHANGED <<pkgCfg, repos>>

PackageStep ==
    \/ configureSnapshotTime
    \/ mountRpmSourcesHelper
    \/ \E s \in RpmSources : mountRpmsSource(s)
    \/ mountRpmSources
    \/ setupServicePrevention
    \/ refreshRpmPackageMetadata
    \/ refreshDebPackageMetadata
    \/ close
    \/ mountRpmSourcesUndo
    \/ deferredClose
    \/ cleanRpmCache
    \/ cleanDebCache
    \/ teardownServicePrevention
    \/ cleanupSnapshotTimeConfig
=============================================================================

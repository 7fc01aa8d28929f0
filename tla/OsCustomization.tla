--------------------------- MODULE OsCustomization ---------------------------
(***************************************************************************)
(* doOsCustomizations and what customizeImageHelper's caller does after it *)
(* (customizeVerityImage, createUki): the steps that change the OS of an   *)
(* image, in the order of the code.  A configuration is a chain of files,  *)
(* base configurations first; some settings are taken from one file of the *)
(* chain, others are applied file by file.  Images are customized again,   *)
(* with the same build directory, up to MaxRuns times.                     *)
(***************************************************************************)
EXTENDS OsPackages, BootConfig, ConfigChain

CONSTANTS
    BaseImages,     \* the images a first run may start from
    Chains,         \* the configurations: sequences of ConfigFile records
    Kernels,        \* the kernel versions packages may install
    RootHashes,     \* RootHashes[n]: the root hash of the hash tree that run n makes
    MaxRuns

ImageFields ==
    {"distro", "grub", "esp", "addons", "vmlinuz", "initramfs", "libModules", "dracut", "seConfig",
     "verity", "hash", "fstab", "resolv", "baselineResolv", "etcMounted", "etcWorkDir", "hostname",
     "users", "groups", "services", "disabledModules", "loadedModules", "manager", "unlabelled"}

\* The kernels that something in an image belongs to.
KernelsOf(im) == im.vmlinuz \union im.libModules \union DOMAIN im.initramfs \union DOMAIN im.esp
                   \union DOMAIN im.grub.lines

\* An initramfs, or dracut's configuration, with the drivers an image needs: overlay when
\* fstab mounts an overlay, verity's when the image has a verity device.
HasDrivers(im, drivers) == /\ "overlay" \in im.fstab => "overlay" \in drivers
                           /\ im.verity # "none" => "verity" \in drivers

\* No two runs make the same hash tree: formatting one takes a random salt.  Nor is it that of
\* a base image.
ASSUME OsAssumption ==
    /\ MaxRuns \in Nat \ {0}
    /\ RootHashes \in [1..MaxRuns -> STRING]
    /\ \A n, m \in 1..MaxRuns : n # m => RootHashes[n] # RootHashes[m]

\* A base image has the fields of an image, the kernels in its /boot have their modules and an
\* initramfs, and its grub, when it boots with one, has an entry for each of its kernels.  It
\* has the drivers it needs, and its command lines are sequences of arguments.  Nothing of a
\* customization under way is in it: the host's resolv.conf, or the /etc overlay.
ASSUME BaseImagesAssumption ==
    \A im \in BaseImages :
        /\ DOMAIN im = ImageFields
        /\ DOMAIN im.grub = DOMAIN NoGrub /\ im.grub.kind \in GrubKinds
        /\ KernelsOf(im) \subseteq Kernels
        /\ im.vmlinuz \subseteq im.libModules /\ im.vmlinuz \subseteq DOMAIN im.initramfs
        /\ HasDrivers(im, im.dracut)
        /\ \A k \in DOMAIN im.initramfs : HasDrivers(im, im.initramfs[k])
        /\ \A k \in DOMAIN im.esp : DOMAIN im.esp[k] = {"line", "init"} /\ HasDrivers(im, im.esp[k].init)
        /\ DOMAIN im.esp = {} /\ im.grub.kind # "none" =>
              DOMAIN im.grub.lines = im.vmlinuz /\ im.libModules \subseteq im.vmlinuz
        /\ im.grub.linux \in Seq(Args) /\ im.grub.dflt \in Seq(Args) /\ im.grub.device \in Devices
        /\ \A k \in DOMAIN im.grub.lines : im.grub.lines[k] \in Seq(Args)
        /\ \A k \in DOMAIN im.esp : im.esp[k].line \in Seq(Args)
        /\ \A n \in 1..MaxRuns : im.hash # RootHashes[n]
        /\ im.resolv # "host" /\ im.baselineResolv # "host"
        /\ ~im.etcMounted /\ ~im.etcWorkDir

ModuleModes == {"always", "auto", "disable", "inherit"}

\* A chain is a sequence of files, whose packages, modes and extra arguments are typed.
ASSUME ChainsAssumption ==
    \A chain \in Chains :
        /\ chain \in Seq({chain[i] : i \in DOMAIN chain})
        /\ \A i \in DOMAIN chain : /\ chain[i].ops \subseteq PackageOps /\ chain[i].snapshot \in BOOLEAN
                                  /\ chain[i].uki \in UkiModes
                                  /\ chain[i].selinux \in {""} \union SELinuxModes
                                  /\ chain[i].extra \in Seq(Args)
                                  /\ \A m \in DOMAIN chain[i].modules : chain[i].modules[m].mode \in ModuleModes

VARIABLES
    img,        \* the image being customized
    cfg,        \* the configuration chain of the run
    ukiInfo,    \* uki-kernel-info.json, in the build directory
    step,       \* index in Steps of the step that is next
    result,     \* "running", "ok" or "failed"
    loc,        \* the local variables of doOsCustomizations
    runs

osVars == <<img, cfg, ukiInfo, step, result, loc, runs>>
vars == <<osVars, pkgVars>>

\* One configuration file without any setting; "" and "unset" are Go's zero values.
EmptyFile ==
    [ops |-> {}, snapshot |-> FALSE, uki |-> "unset", hard |-> FALSE, selinux |-> "", extra |-> <<>>,
     overlays |-> FALSE, verity |-> "none", reinit |-> FALSE, parts |-> FALSE, hostname |-> "",
     users |-> {}, groups |-> {}, dirs |-> FALSE, enable |-> {}, disable |-> {}, modules |-> NoLines, files |-> FALSE,
     noHistory |-> FALSE, removeManager |-> FALSE, scripts |-> FALSE]

\* The last three record how the run began: whether it found a uki-kernel-info.json, the
\* UKIs whose kernel no longer had its modules, and whether this or an earlier customization
\* of the image has a SplitChain.
NoLocals == [cf |-> 1, resolv |-> "none", selinuxMode |-> "", overlayUpdated |-> FALSE,
             verityUpdated |-> FALSE, leftover |-> FALSE, orphans |-> {}, split |-> FALSE]

-----------------------------------------------------------------------------
(* Resolving the chain, configvalidation.go.                                *)

resolveUki(chain) == LastSet(chain, "uki", "unset")
resolveSeLinux(chain) == LastSet(chain, "selinux", "")
resolveHostname(chain) == LastSet(chain, "hostname", "")
resolveRemovePackageManager(chain) == LastSet(chain, "removeManager", FALSE)
resolveImageHistory(chain) == LastSet(chain, "noHistory", FALSE)

\* The hard reset of any file counts.
resolveBootLoaderResetType(chain) == AnyFile(chain, LAMBDA f : f.hard)

resolveOsKernelCommandLine(chain) == mergeKernelCommandLine(chain)

\* At most one file may have storage settings.
HasStorage(f) == f.verity # "none" \/ f.reinit \/ f.parts
resolveStorage(chain) ==
    LET with == {i \in 1..Len(chain) : HasStorage(chain[i])}
    IN IF with = {} THEN EmptyFile ELSE chain[LastOf(with)]
StorageMoreThanOne(chain) ==
    \E i, j \in 1..Len(chain) : i # j /\ HasStorage(chain[i]) /\ HasStorage(chain[j])

\* What the two modes refuse, of the settings of the same file.
validateUkiModifyMode(f) == ~f.hard /\ f.verity = "none" /\ ~f.overlays

validateUkiPassthroughMode(f) ==
    ~f.hard /\ f.verity = "none" /\ ~f.overlays /\ f.selinux = "" /\ f.extra = <<>> /\ ~f.reinit

\* Config.IsValid asks this of one file only: in a chain another file may have what the mode
\* refuses.  What then becomes of the UKIs is left to KeptUkisHaveDrivers.
SplitChain(chain) ==
    \/ resolveUki(chain) = "modify" /\ AnyFile(chain, LAMBDA f : ~validateUkiModifyMode(f))
    \/ resolveUki(chain) = "passthrough" /\ AnyFile(chain, LAMBDA f : ~validateUkiPassthroughMode(f))

ConfigFileIsValid(f) ==
    /\ f.uki = "modify" => validateUkiModifyMode(f)
    /\ f.uki = "passthrough" => validateUkiPassthroughMode(f)
    /\ f.parts => f.hard

\* ValidateConfig of the distribution's handler.
DistroAccepts(im, chain) ==
    CASE im.distro = "acl" -> /\ ~resolveBootLoaderResetType(chain)
                              /\ ~AnyFile(chain, LAMBDA f : f.overlays \/ f.parts)
      [] im.distro = "ubuntu" -> /\ ~resolveBootLoaderResetType(chain)
                                 /\ ~AnyFile(chain, LAMBDA f : f.snapshot)
      [] OTHER -> TRUE

\* New partitions get the files of the old ones, a new fstab and no verity.
customizePartitionsUsingFileCopy(im, chain) ==
    IF resolveStorage(chain).parts THEN [im EXCEPT !.verity = "none", !.fstab = {}] ELSE im

\* Everything that is checked before doOsCustomizations.
Accepted(im, chain) ==
    /\ \A i \in 1..Len(chain) : ConfigFileIsValid(chain[i])
    /\ ~StorageMoreThanOne(chain)
    /\ DistroAccepts(im, chain)
    /\ validateUkiMode(im, resolveUki(chain), im.addons)
    /\ resolveStorage(chain).verity # "none" => im.verity = "none"

Uki == resolveUki(cfg)
Hard == resolveBootLoaderResetType(cfg)
Extra == resolveOsKernelCommandLine(cfg)

\* Verity's data partitions are mounted read-only unless they are reinitialized.
ReadOnlyVerity(im, chain) == IF resolveStorage(chain).reinit THEN "none" ELSE im.verity

-----------------------------------------------------------------------------
(* Control.                                                                 *)

\* Mutation: the UKIs are never made.
StepsNoUki == <<
    "setupEtcOverlay", "overrideResolvConf", "extractUkis", "packages", "kernelCheck", "hostname",
    "users", "dirs", "files", "services", "modules", "release", "history", "bootLoader", "selinux",
    "overlays", "verity", "initramfs", "postScripts", "prepareUki", "removePackageManager",
    "restoreResolvConf", "setFiles", "etcFinalize", "finalizeScripts", "checkKernel",
    "verityImage">>

\* Mutation: /etc/resolv.conf is restored after /etc was folded.
StepsRestoreLate == <<
    "setupEtcOverlay", "overrideResolvConf", "extractUkis", "packages", "kernelCheck", "hostname",
    "users", "dirs", "files", "services", "modules", "release", "history", "bootLoader", "selinux",
    "overlays", "verity", "initramfs", "postScripts", "prepareUki", "removePackageManager",
    "etcFinalize", "restoreResolvConf", "setFiles", "finalizeScripts", "checkKernel",
    "verityImage", "createUki">>

\* Mutation: the check for new kernels comes before the packages.
StepsCheckFirst == <<
    "setupEtcOverlay", "overrideResolvConf", "extractUkis", "kernelCheck", "packages", "hostname",
    "users", "dirs", "files", "services", "modules", "release", "history", "bootLoader", "selinux",
    "overlays", "verity", "initramfs", "postScripts", "prepareUki", "removePackageManager",
    "restoreResolvConf", "setFiles", "etcFinalize", "finalizeScripts", "checkKernel",
    "verityImage", "createUki">>

\* Mutation: files are labelled before the package manager is removed.
StepsLabelEarly == <<
    "setupEtcOverlay", "overrideResolvConf", "extractUkis", "packages", "kernelCheck", "hostname",
    "users", "dirs", "files", "services", "modules", "release", "history", "bootLoader", "selinux",
    "overlays", "verity", "initramfs", "postScripts", "prepareUki", "setFiles",
    "removePackageManager", "restoreResolvConf", "etcFinalize", "finalizeScripts", "checkKernel",
    "verityImage", "createUki">>

\* The order of doOsCustomizations; the last two run after the image was closed.
Steps == <<
    "setupEtcOverlay", "overrideResolvConf", "extractUkis", "packages", "kernelCheck", "hostname",
    "users", "dirs", "files", "services", "modules", "release", "history", "bootLoader", "selinux",
    "overlays", "verity", "initramfs", "postScripts", "prepareUki", "removePackageManager",
    "restoreResolvConf", "setFiles", "etcFinalize", "finalizeScripts", "checkKernel",
    "verityImage", "createUki">>

AtStep(s) == result = "running" /\ Steps[step] = s /\ pkgStep = "idle"

Advance == step' = step + 1 /\ UNCHANGED <<result, cfg, runs, pkgVars>>

\* A step that changes the image and nothing else.
Becomes(im) == img' = im /\ Advance /\ UNCHANGED <<ukiInfo, loc>>

\* Files written since the last relabelling, by the step that wrote them.
Written(im) == [im EXCEPT !.unlabelled = @ \union {Steps[step]}]

\* The deferred calls: the /etc overlay and the connection are closed.
Abort ==
    /\ result' = "failed"
    /\ img' = [img EXCEPT !.etcMounted = FALSE]
    /\ UNCHANGED <<cfg, ukiInfo, step, loc, runs, pkgVars>>

StartRun(im, chain) ==
    /\ Accepted(customizePartitionsUsingFileCopy(im, chain), chain)
    /\ img' = customizePartitionsUsingFileCopy(im, chain)
    /\ cfg' = chain
    /\ step' = 1
    /\ result' = "running"
    /\ loc' = [NoLocals EXCEPT !.leftover = ukiInfo.exists, !.orphans = DOMAIN im.esp \ im.libModules,
                               !.split = SplitChain(chain) \/ (result = "ok" /\ loc.split)]

-----------------------------------------------------------------------------
(* The steps.                                                               *)

\* ACL assembles /etc from the baseline below /usr and the root partition.
SetupEtcOverlay ==
    /\ AtStep("setupEtcOverlay")
    /\ Becomes(IF img.distro = "acl" THEN [img EXCEPT !.etcMounted = TRUE, !.etcWorkDir = TRUE] ELSE img)

\* The host's resolv.conf replaces the image's; not on a root that is read-only.
overrideResolvConf ==
    /\ AtStep("overrideResolvConf")
    /\ ReadOnlyVerity(img, cfg) # "root"
    /\ img' = [img EXCEPT !.resolv = "host"]
    /\ loc' = [loc EXCEPT !.resolv = img.resolv]
    /\ Advance
    /\ UNCHANGED ukiInfo

\* Create mode on an image with UKIs, and modify mode, save the command lines; a
\* hard reset does not.
ExtractUkis ==
    /\ AtStep("extractUkis")
    /\ img' = IF Uki = "create" THEN extractKernelAndInitramfsFromUkis(img) ELSE img
    /\ ukiInfo' = IF \/ Uki = "modify"
                     \/ Uki = "create" /\ DOMAIN img.esp # {} /\ ~Hard
                  THEN SavedUkiCmdlines(img, ukiInfo) ELSE ukiInfo
    /\ Advance
    /\ UNCHANGED loc

PackageConfigOf(f) ==
    [manager |-> IF img.distro = "ubuntu" THEN "apt" ELSE "tdnf", snapshot |-> f.snapshot, ops |-> f.ops]

\* addRemoveAndUpdatePackages, for each file of the chain.
StartPackages ==
    /\ AtStep("packages")
    /\ loc.cf <= Len(cfg)
    /\ ManagePackages(PackageConfigOf(cfg[loc.cf]))
    /\ loc' = [loc EXCEPT !.cf = @ + 1]
    /\ UNCHANGED <<img, cfg, ukiInfo, step, result, runs>>

PackagesDone ==
    /\ AtStep("packages")
    /\ loc.cf > Len(cfg)
    /\ ~pkgErr
    /\ Becomes(Written(img))

\* The steps of managePackages that leave the image's own files alone.
PackageManagement ==
    /\ result = "running"
    /\ PackageStep
    /\ IF pkgStep' = "idle" /\ pkgErr'
       THEN result' = "failed" /\ img' = [img EXCEPT !.etcMounted = FALSE]
       ELSE UNCHANGED <<result, img>>
    /\ UNCHANGED <<cfg, ukiInfo, step, loc, runs>>

\* What the package manager may do to the kernels.
KernelChanges(op) ==
    {img} \union (CASE op = "remove" -> {KernelRemoved(img, k) : k \in img.libModules}
                    [] op = "updateExisting" -> {}
                    [] OTHER -> {KernelInstalled(img, k) : k \in Kernels \ img.libModules})

RunPackageOperation ==
    /\ result = "running"
    /\ PackageOperation
    /\ ReadOnlyVerity(img, cfg) = "none" \/ pkgErr'
    /\ \E im \in KernelChanges(pkgStep) :
          IF pkgErr' /\ pkgStep' = "idle"
          THEN result' = "failed" /\ img' = [im EXCEPT !.etcMounted = FALSE]
          ELSE img' = im /\ UNCHANGED result
    /\ UNCHANGED <<cfg, ukiInfo, step, loc, runs>>

\* ErrUkiKernelModified: the two modes that keep the UKIs refuse a new kernel.
KernelCheck ==
    /\ AtStep("kernelCheck")
    /\ Uki \in {"passthrough", "modify"} => ~hasKernelBinariesInBoot(img)
    /\ Becomes(img)

UpdateHostname ==
    /\ AtStep("hostname")
    /\ Becomes(IF resolveHostname(cfg) = "" THEN img
               ELSE Written([img EXCEPT !.hostname = resolveHostname(cfg)]))

\* Groups and users of a file, in this order; one that exists cannot be given an id.
addOrUpdateGroup(f, names) == names \union {g.name : g \in f.groups}
addOrUpdateUser(f, names) == names \union {u.name : u \in f.users}

GroupsBefore(i) == Applied(cfg, i - 1, img.groups, addOrUpdateGroup)
UsersBefore(i) == Applied(cfg, i - 1, img.users, addOrUpdateUser)

AddOrUpdateUsers ==
    /\ AtStep("users")
    /\ \A i \in 1..Len(cfg) :
          /\ \A g \in cfg[i].groups : g.id => g.name \notin GroupsBefore(i)
          /\ \A u \in cfg[i].users : u.id => u.name \notin UsersBefore(i)
    /\ Becomes(Written([img EXCEPT !.groups = GroupsBefore(Len(cfg) + 1),
                                   !.users = UsersBefore(Len(cfg) + 1)]))

\* The directories of all files of the chain come before the files of any, so a file
\* of a base configuration wins over a directory of a later one.
copyAdditionalDirs ==
    /\ AtStep("dirs")
    /\ Becomes(IF AnyFile(cfg, LAMBDA f : f.dirs) THEN Written(img) ELSE img)

copyAdditionalFiles ==
    /\ AtStep("files")
    /\ Becomes(IF AnyFile(cfg, LAMBDA f : f.files) THEN Written(img) ELSE img)

\* Enable first, then disable, file by file.
ServicesAfter(f, services) == (services \union f.enable) \ f.disable

ServicesOfChain == Applied(cfg, Len(cfg), img.services, ServicesAfter)

EnableOrDisableServices ==
    /\ AtStep("services")
    /\ Becomes(Written([img EXCEPT !.services = ServicesOfChain]))

\* isModuleDisabled: a module that is disabled, or whose disabling is inherited, takes no options.
ModuleOptionsRefused(f, disabled) ==
    \E m \in DOMAIN f.modules : /\ f.modules[m].options
                                /\ \/ f.modules[m].mode = "disable"
                                   \/ f.modules[m].mode = "inherit" /\ m \in disabled

ModulesWith(f, modes) == {m \in DOMAIN f.modules : f.modules[m].mode \in modes}

\* Mutation: a module that is loaded again stays on the list of disabled ones.
DisabledAfterKeep(f, disabled) == disabled \union ModulesWith(f, {"disable"})

DisabledAfter(f, disabled) ==
    (disabled \ ModulesWith(f, {"always", "auto"})) \union ModulesWith(f, {"disable"})

DisabledBefore(i) == Applied(cfg, i - 1, img.disabledModules, DisabledAfter)

LoadOrDisableModules ==
    /\ AtStep("modules")
    /\ \A i \in 1..Len(cfg) : ~ModuleOptionsRefused(cfg[i], DisabledBefore(i))
    /\ Becomes(Written([img EXCEPT
           !.disabledModules = DisabledBefore(Len(cfg) + 1),
           !.loadedModules = @ \union UNION {ModulesWith(cfg[i], {"always"}) : i \in 1..Len(cfg)}]))

addCustomizerRelease ==
    /\ AtStep("release")
    /\ Becomes(Written(img))

\* Only the last file of the chain is recorded, and nothing when /usr is read-only.
addImageHistory ==
    /\ AtStep("history")
    /\ Becomes(IF resolveImageHistory(cfg) \/ ReadOnlyVerity(img, cfg) = "usr" THEN img ELSE Written(img))

\* handleBootLoader.
hardResetBootLoader ==
    /\ AtStep("bootLoader")
    /\ Hard
    /\ determineBootConfigType(img) # "notFound"
    /\ \E current \in GetSELinuxMode(img) \ {"absent"} :
          LET mode == IF resolveSeLinux(cfg) = "" THEN current ELSE resolveSeLinux(cfg)
          IN Becomes(Written(configureDiskBootLoader(img, mode, Extra)))

AddKernelCommandLine ==
    /\ AtStep("bootLoader")
    /\ ~Hard
    /\ IF Extra = <<>> THEN Becomes(img)
       ELSE /\ CanAddKernelCommandLine(img, Uki, ukiInfo)
            /\ img' = Written(WriteToFile(BootCustomizerAddKernelCommandLine(img, Extra)))
            /\ ukiInfo' = IF determineBootConfigType(img) = "uki"
                          THEN appendToUkiCmdlineFile(ukiInfo, Extra) ELSE ukiInfo
            /\ Advance
            /\ UNCHANGED loc

\* Without os.selinux.mode the mode of the image is kept, and is only read.
keepSELinux ==
    /\ AtStep("selinux")
    /\ resolveSeLinux(cfg) = ""
    /\ determineBootConfigType(img) # "notFound"
    /\ \E mode \in GetSELinuxMode(img) \ {"absent"} : loc' = [loc EXCEPT !.selinuxMode = mode]
    /\ Advance
    /\ UNCHANGED <<img, ukiInfo>>

handleSELinux ==
    LET mode == resolveSeLinux(cfg)
        args == selinuxModeToArgs(mode)
    IN /\ AtStep("selinux")
       /\ mode # ""
       /\ SELinuxSupported(img)
       /\ determineBootConfigType(img) # "notFound"
       /\ ~Hard => CanUpdateKernelCommandLineArgs(img, Uki, ukiInfo)
       /\ CanUpdateSELinuxConfigFile(img, mode)
       /\ LET lines == IF Hard THEN img
                       ELSE WriteToFile(UpdateKernelCommandLineArgs(img, selinuxArgNames, args))
          IN img' = Written(UpdateSELinuxModeInConfigFile(lines, mode))
       /\ ukiInfo' = IF ~Hard /\ determineBootConfigType(img) = "uki"
                     THEN updateUkiCmdlineFile(ukiInfo, selinuxArgNames, args) ELSE ukiInfo
       /\ loc' = [loc EXCEPT !.selinuxMode = mode]
       /\ Advance

\* Driver, fstab entries, directories, and the semanage rules unless SELinux is disabled.
enableOverlays ==
    LET some == AnyFile(cfg, LAMBDA f : f.overlays)
    IN /\ AtStep("overlays")
       /\ img' = IF some THEN Written([addDracutDriver(img, {"overlay"}) EXCEPT !.fstab = @ \union {"overlay"}])
                 ELSE img
       /\ loc' = [loc EXCEPT !.overlayUpdated = some]
       /\ Advance
       /\ UNCHANGED ukiInfo

\* New verity devices: dracut, fstab and grub's defaults; the hash comes later.
enableVerityPartition ==
    LET verity == resolveStorage(cfg).verity
        booted == addDracutDriver(img, {"verity"})
    IN /\ AtStep("verity")
       /\ verity # "none" => determineBootConfigType(img) # "notFound"
       /\ img' = IF verity = "none" THEN img
                 ELSE Written([WriteToFile(IF verity = "root" THEN PrepareForVerity(booted) ELSE booted)
                               EXCEPT !.verity = verity])
       /\ loc' = [loc EXCEPT !.verityUpdated = verity # "none"]
       /\ Advance
       /\ UNCHANGED ukiInfo

\* Mutation: new verity devices do not ask for a new initramfs.
InitramfsNeededNoVerity == resolveStorage(cfg).parts \/ loc.overlayUpdated

InitramfsNeeded == resolveStorage(cfg).parts \/ loc.overlayUpdated \/ loc.verityUpdated

regenerateInitramfs ==
    /\ AtStep("initramfs")
    /\ Becomes(IF InitramfsNeeded THEN Written(RegenerateInitramfs(img)) ELSE img)

\* The configuration's directory is mounted at /_imageconfigs while a script runs.
runUserScripts ==
    /\ AtStep("postScripts") \/ AtStep("finalizeScripts")
    /\ Becomes(IF AnyFile(cfg, LAMBDA f : f.scripts) THEN Written(img) ELSE img)

\* Only create mode takes the kernels out of /boot.
prepareUki ==
    /\ AtStep("prepareUki")
    /\ IF Uki = "create"
       THEN LET known == KnownCmdlines(img, ukiInfo)
            IN /\ KernelsHaveInitramfs(img)
               /\ CanResolveCmdlines(img, known)
               /\ ukiInfo' = ResolvedUkiInfo(img, known)
               /\ img' = CleanBootDirectory(img)
       ELSE UNCHANGED <<img, ukiInfo>>
    /\ Advance
    /\ UNCHANGED loc

removeOsPackageManager ==
    /\ AtStep("removePackageManager")
    /\ resolveRemovePackageManager(cfg) => ReadOnlyVerity(img, cfg) = "none"
    /\ Becomes(IF resolveRemovePackageManager(cfg) THEN Written([img EXCEPT !.manager = FALSE]) ELSE img)

\* Without a file in the base image, systemd-resolved gets its symbolic link.
restoreResolvConf ==
    /\ AtStep("restoreResolvConf")
    /\ Becomes(Written([img EXCEPT !.resolv =
            IF loc.resolv # "none" THEN loc.resolv
            ELSE IF "systemd-resolved" \in img.services THEN "symlink" ELSE "none"]))

\* The policy is named by SELinux' configuration file.
selinuxSetFiles ==
    /\ AtStep("setFiles")
    /\ loc.selinuxMode # "disabled" => img.seConfig # "absent"
    /\ Becomes(IF loc.selinuxMode = "disabled" THEN img ELSE [img EXCEPT !.unlabelled = {}])

\* Folded into the baseline when /usr may be rewritten, else just unmounted.
FinalizeEtcOverlay ==
    /\ AtStep("etcFinalize")
    /\ Becomes(IF ~img.etcMounted THEN img
               ELSE [img EXCEPT !.etcMounted = FALSE, !.etcWorkDir = FALSE,
                                !.baselineResolv = IF resolveStorage(cfg).reinit THEN img.resolv ELSE @])

CheckForInstalledKernel ==
    /\ AtStep("checkKernel")
    /\ checkForInstalledKernel(img)
    /\ Becomes(img)

\* customizeVerityImage: nothing changes when the data partitions were read-only.
customizeVerityImage ==
    LET updated == img.verity # "none" /\ (resolveStorage(cfg).reinit \/ loc.verityUpdated)
        isUki == Uki \notin {"unset", "passthrough"}
        hash == RootHashes[runs]
    IN /\ AtStep("verityImage")
       /\ updated => IF isUki THEN ukiInfo.exists ELSE img.grub.kind # "none"
       /\ img' = IF ~updated THEN img
                 ELSE [(IF isUki THEN img ELSE updateGrubConfigForVerity(img, img.verity, hash)) EXCEPT !.hash = hash]
       /\ ukiInfo' = IF updated /\ isUki
                     THEN appendKernelArgsToUkiCmdlineFile(ukiInfo, constructVerityKernelCmdlineArgs(img.verity, hash))
                     ELSE ukiInfo
       /\ Advance
       /\ UNCHANGED loc

\* Modify mode needs a command line for each UKI, and leaves the build directory.
createUki ==
    /\ AtStep("createUki")
    /\ Uki = "modify" => DOMAIN img.esp \subseteq DOMAIN ukiInfo.lines
    /\ img' = CASE Uki = "create" -> [buildUkis(img, ukiInfo) EXCEPT !.addons = TRUE]
                [] Uki = "modify" -> modifyUkiAddons(img, ukiInfo)
                [] OTHER -> img
    /\ ukiInfo' = IF Uki = "create" THEN NoUkiInfo ELSE ukiInfo
    /\ result' = "ok"
    /\ UNCHANGED <<cfg, step, loc, runs, pkgVars>>

\* Any step may fail, by what it checks or by a command or file it works with.
StepFails == result = "running" /\ pkgStep = "idle" /\ Abort

\* The output of a run is the input of the next, with the same build directory; a
\* failed run leaves no image, and the next starts from a base image again.
NextRun(chain) ==
    /\ result # "running"
    /\ runs < MaxRuns
    /\ \E im \in IF result = "ok" THEN {img} ELSE BaseImages : StartRun(im, chain)
    /\ runs' = runs + 1
    /\ repos' = ReposClosed
    /\ guards' = NoGuards
    /\ UNCHANGED <<ukiInfo, pkgStep, pkgCfg, pkgErr>>

Finished == result # "running" /\ runs = MaxRuns /\ UNCHANGED vars

Init ==
    /\ cfg \in Chains
    /\ img \in {customizePartitionsUsingFileCopy(im, cfg) : im \in BaseImages}
    /\ Accepted(img, cfg)
    /\ ukiInfo = NoUkiInfo
    /\ step = 1
    /\ result = "running"
    /\ loc = [NoLocals EXCEPT !.orphans = DOMAIN img.esp \ img.libModules, !.split = SplitChain(cfg)]
    /\ runs = 1
    /\ PkgInit

Next ==
    \/ SetupEtcOverlay \/ overrideResolvConf \/ ExtractUkis
    \/ StartPackages \/ PackageManagement \/ RunPackageOperation \/ PackagesDone
    \/ KernelCheck \/ UpdateHostname \/ AddOrUpdateUsers \/ copyAdditionalDirs \/ copyAdditionalFiles
    \/ EnableOrDisableServices \/ LoadOrDisableModules \/ addCustomizerRelease \/ addImageHistory
    \/ hardResetBootLoader \/ AddKernelCommandLine \/ keepSELinux \/ handleSELinux
    \/ enableOverlays \/ enableVerityPartition \/ regenerateInitramfs \/ runUserScripts
    \/ prepareUki \/ removeOsPackageManager \/ restoreResolvConf \/ selinuxSetFiles
    \/ FinalizeEtcOverlay \/ CheckForInstalledKernel \/ customizeVerityImage \/ createUki
    \/ StepFails
    \/ \E chain \in Chains : NextRun(chain)
    \/ Finished

Spec == Init /\ [][Next]_vars
-----------------------------------------------------------------------------
(* Properties.                                                              *)

Booted == DOMAIN BootedLines(img)

CmdlineFor(k) == BootedLines(img)[k]

ArgsIn(line) == {line[i] : i \in 1..Len(line)}

\* The values of an argument in a command line.
ValuesOf(line, name) == {line[i].value : i \in IndicesOf(line, {name})}

\* The variables keep their types; in particular every initramfs in /boot, every grub
\* entry and every UKI is of a known kernel, and step stays within Steps.
TypeOK ==
    /\ PkgTypeOK
    /\ KernelsOf(img) \subseteq Kernels
    /\ cfg \in Chains
    /\ DOMAIN ukiInfo.lines \subseteq Kernels
    /\ step \in 1..Len(Steps)
    /\ result \in {"running", "ok", "failed"}
    /\ loc.cf \in 1..(Len(cfg) + 1)
    /\ runs \in 1..MaxRuns

\* A customized image never carries the build host's resolv.conf, neither in /etc nor in
\* the baseline that FinalizeEtcOverlay folds /etc into (resolvconf.go, acletcoverlay.go).
NoHostResolvConf == result = "ok" => img.resolv # "host" /\ img.baselineResolv # "host"

\* Unless SELinux is disabled, every file a step wrote was labelled afterwards; only the
\* finalizeCustomization scripts run after selinuxSetFiles.
FilesLabelled ==
    result = "ok" /\ loc.selinuxMode # "disabled" => img.unlabelled \subseteq {"finalizeScripts"}

\* Every kernel the image boots has an initramfs with the drivers the image needs, whether
\* the initramfs is in /boot, was regenerated, or is inside a UKI that was kept.  A UKI whose
\* modules an earlier run removed is made again with the initramfs it had.
InitramfsHasDrivers ==
    result = "ok" /\ ~loc.split =>
        \A k \in Booted \intersect img.libModules : HasDrivers(img, BootedInitramfs(img, k))

\* os.kernelCommandLine.extraCommandLine of all files of the chain reaches every kernel
\* the image boots, through grub's defaults, grub.cfg or uki-kernel-info.json.  A create
\* run that finds the uki-kernel-info.json of an earlier run is left to HardResetBooted, and
\* a SplitChain to KeptUkisHaveDrivers.
ExtraArgsBooted ==
    result = "ok" /\ ~(loc.leftover /\ Uki = "create") /\ ~loc.split =>
        \A k \in Booted : ArgsIn(Extra) \subseteq ArgsIn(CmdlineFor(k))

\* The SELinux mode the run decided on (the requested one, or the image's own) is the one
\* every kernel of the image boots with.  ACL, whose configuration file is not written, is
\* left out, and so is a create run that finds an earlier uki-kernel-info.json.
SELinuxModeBooted ==
    result = "ok" /\ img.distro # "acl" /\ ~(loc.leftover /\ Uki = "create") /\ ~loc.split =>
        \A k \in Booted : ModeOf(img, CmdlineFor(k)) = loc.selinuxMode

\* When a run rebuilt the hash tree, every kernel boots with the new root hash and with no
\* other one, in grub.cfg as in the UKIs.  In a SplitChain, which may rebuild the tree and keep
\* the UKIs, see KeptUkisHaveDrivers.
VerityHashBooted ==
    result = "ok" /\ img.hash = RootHashes[runs] /\ ~SplitChain(cfg) =>
        \A k \in Booted : /\ ValuesOf(CmdlineFor(k), HashArgName(img.verity)) = {img.hash}
                          /\ Len(findMatchingCommandLineArgs(CmdlineFor(k), {HashArgName(img.verity)})) = 1

\* The modes that keep the UKIs never leave a kernel or initramfs outside of them, which
\* the machine would not boot (ErrUkiKernelModified).
UkisStayWhole ==
    result = "ok" /\ Uki \in {"passthrough", "modify"} /\ ~SplitChain(cfg) => ~hasKernelBinariesInBoot(img)

\* When the boot entries are rebuilt, by grub or as new UKIs, every kernel the image boots
\* still has its modules, also when the packages removed or replaced kernels.  Only a UKI
\* that had lost them before the run, to a run that kept the UKIs, is made again without.
BootedKernelsInstalled ==
    result = "ok" /\ Uki \in {"unset", "create"} =>
        Booted # {} /\ Booted \subseteq img.libModules \union loc.orphans

\* While an RPM source of the host is mounted in the chroot, the directory its mount point
\* is in exists: close never deletes through a mount that is still there.
RpmMountsHaveDirectory == repos.mounted # {} => repos.dir

\* A run that succeeds leaves none of the temporary things in the image: RPM mounts and
\* their directory, allrepos.repo, tdnf's snapshot file, apt's service guards, and the
\* /etc overlay with its work directory.
NothingLeftBehind ==
    result = "ok" => /\ ~repos.dir /\ ~repos.allRepos /\ repos.mounted = {}
                     /\ guards = NoGuards
                     /\ ~img.etcMounted /\ ~img.etcWorkDir

\* What the last file of the chain that names a module, a service or a host name says of
\* it is what the image has, however the files before it set it.
LaterFileWins ==
    LET LastFile(P(_)) == LET with == {i \in 1..Len(cfg) : P(cfg[i])}
                      IN {cfg[i] : i \in {j \in with : \A l \in with : l <= j}}
    IN result = "ok" =>
        /\ \A f \in LastFile(LAMBDA g : g.hostname # "") : img.hostname = f.hostname
        /\ \A m \in UNION {DOMAIN cfg[i].modules : i \in 1..Len(cfg)} :
              \A f \in LastFile(LAMBDA g : m \in DOMAIN g.modules /\ g.modules[m].mode # "inherit") :
                  m \in img.disabledModules <=> f.modules[m].mode = "disable"
        /\ \A s \in UNION {cfg[i].enable \union cfg[i].disable : i \in 1..Len(cfg)} :
              \A f \in LastFile(LAMBDA g : s \in g.enable \union g.disable) :
                  s \in img.services <=> s \notin f.disable

\* "Pre-seeding here would carry the old UKI cmdline to the new UKI, defeating the reset":
\* after a hard reset of the boot loader the new UKIs boot with what grub's fresh
\* configuration says, never with a command line of an earlier customization.
HardResetBooted ==
    result = "ok" /\ Hard /\ Uki = "create" =>
        \A k \in Booted : ArgsIn(Extra) \subseteq ArgsIn(CmdlineFor(k))

\* "Since modify mode cannot modify the initramfs, overlays are incompatible": an image that
\* keeps its UKIs is never given an overlay that they have no driver for.
KeptUkisHaveDrivers ==
    result = "ok" /\ Uki \in {"passthrough", "modify"} =>
        \A k \in Booted : "overlay" \in img.fstab => "overlay" \in BootedInitramfs(img, k)
-----------------------------------------------------------------------------
(* What the theorems about the command lines assume of the inputs.           *)

\* A base image with UKIs has no grub.cfg: it would not be read, and the edits would go there.
UkisWithoutGrub == \A im \in BaseImages : DOMAIN im.esp # {} => im.grub.kind = "none"

\* The names of arguments that later steps replace or drop.
RewrittenNames == selinuxArgNames \union verityKernelArgsToRemove \union {"root", KernelOpts.name}

\* All other arguments.
PlainArgs == {a \in Args : a.name \notin RewrittenNames}

\* os.kernelCommandLine.extraCommandLine has other arguments than those.
PlainExtra == \A chain \in Chains : \A i \in 1..Len(chain) : chain[i].extra \in Seq(PlainArgs)

\* The arguments of a command line that decide on SELinux' mode.
Selecting(line) == findMatchingCommandLineArgs(line, selinuxArgNames)

\* In a base image all kernels boot with the same SELinux arguments, and
\* GRUB_CMDLINE_LINUX_DEFAULT has none of them.
UniformImages ==
    \A im \in BaseImages :
        /\ Selecting(im.grub.dflt) = <<>>
        /\ \A k \in DOMAIN im.grub.lines : Selecting(im.grub.lines[k]) = Selecting(im.grub.linux)
        /\ \A k, j \in DOMAIN im.esp : Selecting(im.esp[k].line) = Selecting(im.esp[j].line)
=============================================================================

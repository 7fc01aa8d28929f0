# TLA+ models of the Azure Linux image tools

Image Customizer (`imagecustomizer`, under `toolkit/tools/`) takes a disk image
or a LiveOS ISO, opens it through loopback devices and chroots, changes the OS
in it and writes it out in another format. This directory holds TLA+ models of
its core, the TLC configurations that check them and the TLAPS proofs about
them. `PROJECT.json` maps every definition to the lines that it models.

## The system

The program is a command-line tool that runs as root. It is mostly one
goroutine; a second one waits for SIGINT and SIGTERM and tears everything down.
What makes it hard is not concurrency inside the program but the host that it
changes: mounts that are busy, devices that are released late, a build directory
that holds what a killed run left, and a chain of stages each of which can fail
half way with deferred clean-ups behind it.

| Component | State | Operations | Correct when |
|---|---|---|---|
| Safe chroots (`internal/safechroot`) | `activeChroots` under `activeChrootsMutex`, the mount points and their `isMounted` flags, the root directory | `Initialize`, `Close`, `unmountAndRemove`, teardown on a signal | no recursive delete runs into a mount, no mount is forgotten, host mounts stay |
| Child processes (`internal/shell`, `internal/processes`, `internal/retry`) | `activeCommands`, `allowProcessCreation` under `activeCommandsMutex` | start, track, wait, untrack, stop all, retry | no process outlives the start of the teardown, no deadlock |
| Image connections (`internal/imageconnection`, `safeloopback`, `safemount`, `imagegen/diskutils`) | loopback device, mounts, temporary directories, `isAttached`, `isMounted` | connect, probe partitions, `CleanClose`, `Close` | a clean close means that the file is complete and free |
| Customization pipeline (`pkg/imagecustomizerlib/imagecustomizer.go` and the stages) | `rc.RawImageFile`, files in the build directory, the image | convert input, a dozen stages, write output, deferred clean-ups | each stage sees the finished work of the one before; verity and COSI data describe the image written |
| Disk layout (`imagecustomizerapi/disk.go`, `partition.go`, `diskutils.CreatePartitions`) | the list of partitions, filled in by validation | `Disk.IsValid`, `CreatePartitions` | an accepted layout is complete, ordered and can be created |
| Configuration (`configvalidation.go`, `baseconfigs.go`, `imagecustomizerapi`) | resolved configuration | load, merge, validate | the merged configuration obeys the rules that each file does |
| OS customizations (`customizeos.go`, `customize*.go`, `kernelmoduleutils.go`) | the mounted OS | an ordered list of steps, some once per run and some once per file of the chain | every step sees what it needs, and nothing temporary (`resolv.conf`, RPM mounts, service guards) stays |
| Packages and RPM sources (`customizepackages*.go`, `rpmsourcesmounts.go`) | bind mounts and their directory in the chroot, `allrepos.repo`, `custom-tdnf.conf` | mount, refresh, remove, update, install, close (three times) | no directory is removed under a mount, a close that left something is reported |
| Boot configuration (`bootcustomizer.go`, `grubcfgutils.go`, `defaultgrubutils.go`, `customizeuki.go`, `customizeverity.go`) | `/etc/default/grub`, `grub.cfg`, UKIs and addons, `uki-kernel-info.json` in the build directory | add and replace arguments, regenerate, hard reset, extract, build | the image boots an installed kernel with the arguments, SELinux mode, root hash and drivers asked for |
| LiveOS (`liveos*.go`, `savedconfigs.go`, `blsutils.go`) | the artifact store, `saved-configs.yaml`, `grub.cfg` and `grub-pxe.cfg` of the ISO | build, convert, repackage | the medium has what its boot entries name, and keeps what earlier runs asked for |
| inject-files, convert, create | as the pipeline | shorter pipelines over the same connections | as the pipeline |
| Partition discovery, COSI format, downloads, logging | see the code | | |

Interactions: the pipeline calls the stages in order; every stage opens the same
raw image through a connection; a connection owns a loopback device and a
chroot; a chroot owns mounts and is registered globally for the signal
goroutine; all of them run commands through `internal/shell`. The stages share
nothing but the file and a metadata record.

Hard behaviours: a signal between any two steps; an unmount that fails or, when
lazy, leaves the file system alive under a process; `losetup --detach`, which
only marks the device; device numbers that are reused; a failure at any step,
with several deferred calls to come; leftovers of a killed run; unsigned sizes;
an image that is customized again and again, through files that an earlier run
left in the image or in the build directory.
The list with lines is under `hazards` in `PROJECT.json`.

## Modules

| Module | Models | Notes |
|---|---|---|
| `SafeChroot` | safechroot, shell, processes, retry | two goroutines (`pc["main"]`, `pc["handler"]`), two mutexes, one action per step between lock operations or system calls |
| `SafeChroot_proofs` | | TLAPS proofs |
| `ImageFile` | what a connection promises | abstract specification |
| `ImageConnection` | imageconnection, safeloopback, safemount, the loop functions of diskutils, `connectToExistingImage` | the code is sequential; the host takes steps of its own. Implements `ImageFile` |
| `ImageConnection_proofs` | | TLAPS proofs, the refinement of `ImageFile` among them |
| `ImagePipeline` | `customizeImageOptionsHelper` and its stages; `convert`, `inject-files` and `create` | a stage is opened, works, and is closed; what `CleanClose` guarantees is taken from `ImageConnection` |
| `ImagePipeline_proofs` | | TLAPS proofs |
| `DiskLayout` | `Disk.IsValid`, `CreatePartitions` | one action per loop iteration; arithmetic modulo `Modulus` |
| `DiskLayout_proofs` | | TLAPS proofs |
| `ConfigChain` | how settings are resolved over a configuration and its base configurations | operators only |
| `KernelArgs` | command lines and the functions that edit them | operators only |
| `KernelArgs_proofs` | | induction over command lines; lemmas about every function of `KernelArgs` |
| `BootConfig` | grub, UKIs, kernels, SELinux and dracut of an image | operators that map images to images; extends `KernelArgs` |
| `OsPackages` | the package step, RPM sources, guards of tdnf and apt | variables and actions of its own |
| `OsCustomization` | `doOsCustomizations`, `customizeVerityImage`, `createUki`, run after run | composes `OsPackages`, `BootConfig` and `ConfigChain` |
| `OsCustomization_proofs` | | TLAPS proofs about the package step and the image that a run makes |
| `OsRequested_proofs` | | TLAPS proofs about what a chain asks for, also on the command lines that the kernels boot with; extends `OsCustomization_proofs` and `KernelArgs_proofs` |
| `LiveOs` | LiveOS ISO and PXE images, run after run | uses `BootConfig`, `ConfigChain` |
| `LiveOs_proofs` | | TLAPS proofs; extends `KernelArgs_proofs` |
| `MC_*` | | constants for TLC |

### SafeChroot

`mounted` is what the program has mounted, `hostMounts` what an existing
directory held before, `isMounted` the flags of the `MountPoint` structs, and
`stuck` the chroots for which `unmountAndRemove` last returned an error.
`frame` holds the chroot, mount and attempt that each goroutine works on inside
`unmountAndRemove`. A command of main runs on the host or in an open chroot and
may leave a daemon (gpg-agent) behind there; `Close` lists such processes with
`lsof`, itself a command that takes the shell's mutex, and interrupts them.
`cleanupAllChroots` keeps its mutex for ever, as the code does.
`defers` are main's deferred `Close` calls; `failing` says that an error is on
its way up, after which main opens and starts nothing more.

Abstractions: a process has no pid and no output; a chroot name stands for the
root directory; main is any sequence of `Initialize`, commands and `Close` that
closes in LIFO order, which is what its callers do. Main opens an existing
directory (the tools directory) again only after the Chroot on it has been
closed. Copying of files into the chroot and the extraction of a worker tar are
left out, except that they may fail (`CreateMountPointFails`).

### ImageConnection

The chroot is one mount here, as its two passes over many mounts are the subject
of `SafeChroot`. The probes are the mounts that partition discovery makes, one
after the other at the same directory. The host may keep any file system busy,
open the device (udev), clear a marked device when its last user is gone, and
give it to another program. `failed` records the objects whose last close
returned an error; the code logs these.

### ImagePipeline

The image is a record of version numbers: of the root file system, of the ESP,
of the root file system to which the hash tree and each copy of the root hash
belong, and of the ESP that the COSI metadata describes. Any stage that can
write increases a version. A stage fails before it opens the image, while it
works, or when it closes. Leftovers of a killed run are in `raw` from the start.
A configuration is one file, without base configurations. Left out
(`InScope`): verity in a LiveOS image, and a base image with verity
whose partitions are dropped by a new layout.

`config.command` says which command runs. `Stages` is the list of stages of
that command: `customize` has `customizeStages`; `convert` hands the file to
qemu-img, or for COSI makes a raw image and shares the output stages;
`inject-files` makes a raw image and writes files into its partitions;
`create` makes an empty disk, installs and customizes an OS in it in one stage
(`CustomizeImageHelperCreate`) and writes the output after the tools chroot is
closed. The files that are injected are those that
`outputArtifacts` gives away, so they change the ESP only. Unlike `customize`,
these commands leave `image.raw` in the build directory, so `RawFilesRemoved`
speaks of `customize` alone.

### DiskLayout

Sizes are in MiB: the parser accepts multiples of 1 MiB only, and GPT header and
footer round up to 1 MiB each. The text of sizes is left out.
`validated` remembers the disk that `IsValid` first accepted, and
validation may run again on it. Sums wrap around at `Modulus`, which stands for
2^64 bytes. `FooterWraps` names the one place where that shows in an accepted
disk: a last end of exactly one unit below the modulus, to which the size of the
footer is added (`disk.go:147`), so that the required size is 0. The properties
except it; the text of a size cannot reach it in practice.

### OsCustomization, OsPackages and BootConfig

An image is a record: the distribution, grub's configuration, the UKIs on the
ESP, kernels in `/boot` and `/lib/modules`, what each initramfs holds, the
SELinux configuration, verity, `resolv.conf`, users, services, modules, and the
set of files without a label (`unlabelled`). `Steps` lists the steps of the code
in its order, `step` is the next one, and each is an action. A step may fail and
end the run; the deferred calls (RPM sources, `custom-tdnf.conf`, service guards)
still run. `loc` holds the local variables that one step sets and another reads,
such as `selinuxMode` and `overlayUpdated`. A further run starts from the
image that a run has made, with the same build directory; a failed run
leaves `ukiInfo` (`uki-kernel-info.json`) there, and the next starts over.
Each file of the chain has an `rpmSourcesMounts` of its own, so `created` and
`opened` start over with each file while what is mounted stays.

Three fields of `loc` remember how the run began, for the properties only:
`leftover` (a `uki-kernel-info.json` was there), `orphans` (UKIs whose kernel had
no modules any more) and `split`: this or an earlier customization of the image
had a `SplitChain`, in which one file sets a UKI mode and another has what that
mode refuses. The code checks such rules per file only. Properties of the boot
configuration leave these images to `KeptUkisHaveDrivers`.

Assumed of a base image (`BaseImagesAssumption`): the kernels in `/boot` have
modules and an initramfs; grub, if the image boots with it, has an entry for each;
dracut's configuration and every initramfs have the drivers the image needs; its
command lines are sequences of arguments; its root hash is not one that a run will make; and
nothing of a customization under way is in it. Of a chain (`ChainsAssumption`): it is a
sequence of files whose package operations, snapshot flag, UKI mode, SELinux mode, extra
arguments and module settings are of their types.

A configuration is a chain of files. `LastSet`, `AnyFile` and
`mergeKernelCommandLine` resolve it; packages, users, groups, services, modules
and files are applied file by file, as in the code.

A command line is a sequence of arguments, name and value. Order matters: the
last one of a name wins, and new ones go in front of `$kernelopts`. A
legacy `grub.cfg` (Azure Linux 2) is edited in place; with `grub2-mkconfig` the
variables in `/etc/default/grub` are edited and the lines made anew; with
UKIs the command lines are in `uki-kernel-info.json` until they are built.
`BootedLines` is what the machine boots with.

The package managers are external: `remove`, `update` and `install` may take
away and add kernels, and with them initramfs files made by the configuration of
dracut at that time.

Left out: tokenizing and quoting, the `systemd_verity_*` arguments, password
hashes, SSH keys, file modes, the contents of scripts (a script may write
unlabelled files), Fedora.

### LiveOs

A run reads a disk image or an ISO (`convertInputImageToWriteableFormat`), changes the OS or not,
and then makes the output through one action per function of the builder:
extraction of artifacts into the store, the `os` of the raw image, the choice of
initramfs type, grub's configuration, the initrd images, the saved
configuration, packing. Only repackaging skips the raw image. `kept` is an
auxiliary variable: what the runs that lead to the input asked for. ISO
outputs become inputs of later runs; PXE artifacts do not. The version of dracut
and of the SELinux policy are members of small ordered sets, because the code
compares them with a constant. Of the files of the store the kdump images are told
apart: `kdump` are those of a kernel that is there, `additionalKdump` those without
one, which `storeIfKernelSpecificFile` makes additional files; the latter are staged
whatever `kdumpBootFiles` says and are carried over from ISO to ISO. On a medium
`kdump` is all of them, and reading it sorts them again. Verity, sizes, squashfs
and xorriso calls, and the contents of files, are left out.

## Runs

| Run | Bounds | Shows |
|---|---|---|
| `chroot_safety` | 2 chroots (one on an existing directory that holds a host mount), 2 nested mounts, 2 attempts; about 525,000 states | the six safety properties, with a signal at any point, and under fairness `SignalEndsProgram` |
| `chroot_host_mounts` | host mount under the last mount | violated: see findings |
| `image_connection` | 2 probes, 2 unmount and 2 detach attempts; 32,329 states | the promises of a connection, and that it implements `ImageFile` |
| `pipeline` | all configurations in scope of all four commands; 730,404 states | ordering, freshness and clean-up of the pipeline |
| `pipeline_iso_exports` | with exports from an ISO that is only repackaged | violated: see findings |
| `disk_layout` | up to 3 partitions, ends of 0, 2, 3 and 5, sizes of 0, 1, 2, 4, "grow" and unset, modulo 6; 2,472,798 states | acceptance, order, second validation, creation |
| `disk_layout_sizes` | the same | violated: see findings |
| `os_customization` | 2 runs, 2 kernels, 2 RPM sources, 7 base images, 13 chains of 1 or 2 files; 200,948 states | eleven properties of images that a run reports as done, and of the package step at any time |
| `uki_stale_cmdline` | the same | violated: see findings |
| `uki_split_chain` | the same | violated: see findings |
| `live_os` | 3 runs, 2 kernels, 4 disk images, 13 requests; 325,493 states | LiveOS media are complete, have SELinux off where it is not supported, and keep what earlier runs asked for |
| `live_os_convert` | the same | violated: see findings |

Why the bounds are enough: two chroots give a LIFO order, one with a directory
of its own and one without; two mounts give a reverse order, a nested pair and
"one done, one not"; two attempts give a retry and a last attempt (the code has
three, and ten for the device; the third differs from the second in nothing but
the delay). Two probes at one directory are the least with which a second close
could hit a newer mount. Three partitions have a first, a middle and a last one,
which the code treats differently; a modulus of 6 is the least at which both a
negative size and the footer of the largest end wrap around next to layouts
that do not. The pipeline needs no bound: its stages are finite.

For `os_customization`, the state that passes from run to run is the image and
one file in the build directory, so two runs show every effect of an earlier one.
The base images cover each boot loader (`grub2-mkconfig`, legacy, UKI), each kind
of verity (none, root, usr), each package manager and the distribution with an
overlay on `/etc`; the chains cover the four UKI modes, each SELinux mode, both kinds
of reset, and every step of `doOsCustomizations`; two kernels are what a
removal followed by an installation needs; two sources are "one unmounted, one
not". `RootHashes` names the root hash that each run would make; no two are the same, as
`veritysetup format` takes a random salt. For `live_os`, three runs are a build, a
conversion and a run that must keep what the first asked for; the requests combine
each value of `kdumpBootFiles` with a change of the OS, so that a kernel may be removed
while its kdump image stays, and be installed again. `MCInputs` asserts that
the images and chains satisfy the hypotheses of the theorems about command lines.

Deadlock is checked in all runs; a finished program stutters.

Every property has a mutant in `PROJECT.json`: an operator such as
`MayStartAlways`, next to the definition it stands in for, that changes
the model the way a plausible bug would, and with which TLC finds the property
violated.

### Fairness

Only `FairSpec` of `SafeChroot` has fairness. Weak fairness of main and of the
end of a process: the Go scheduler runs every goroutine, and a killed process
ends (a command that is not killed is assumed to end, too). Strong fairness of
the signal goroutine: main may take and release `activeChrootsMutex` again and
again, and `sync.Mutex` hands itself over to a waiter that has starved for a
millisecond. No fairness is assumed of signals, daemons or of an unmount.

## Findings

1. `HostMountsKept` (`chroot_host_mounts`). `unmountAndRemove` sets `isMounted`
   and never clears it. When a pass has undone a mount and failed at another, the
   next pass (the lazy retry, or the teardown) finds the flag still set and takes
   away what was mounted at the path before the chroot was opened. It matters
   only for a chroot on an existing directory, such as the tools directory.
2. `RawImagePresent` (`pipeline_iso_exports`). The comment in
   `customizeOSContents` says that validation tells the user that exports from an
   ISO without OS changes are not supported; it does not, and the exports run on
   a file that does not exist or that a killed run left behind.
3. `AcceptedSizesPositive` (`disk_layout_sizes`). The check that a partition ends
   after it starts runs before an omitted start is filled in, and is not
   repeated. The last partition may end before it starts. With an end of 0
   `createSinglePartition` reads "no end" and gives it the rest of the disk; in
   the other cases it stops with an error after the disk has been wiped.

4. `HardResetBooted` (`uki_stale_cmdline`). `prepareUki` prefers the command lines
   in `uki-kernel-info.json`. Runs that fail, and runs in modify mode, leave
   that file in the build directory. A later run with a hard reset of the
   boot loader, which must not carry old arguments over, then does so, and loses
   its own `extraCommandLine`.
5. `KeptUkisHaveDrivers` (`uki_split_chain`). What the modes passthrough and modify
   refuse is checked within each file, and the mode is resolved over the chain. With
   the mode in one file and an overlay in another, the image keeps UKIs whose
   initramfs has no overlay driver.
6. `EntriesNameOwnInitrd` (`live_os_convert`). Converting a full-OS ISO to a
   bootstrap ISO without OS changes leaves `initrd /boot/initrd.img` in its boot
   entries; a bootstrap ISO has `initrd-<version>.img` instead.

Other things met while modelling, which no run asks about:

- `liveosisoimages.go:331`: `cleanFullOSFolderForLiveOS` keeps the kdump images of kernels
  where `kdumpBootFiles` is `keep`, and `stageLiveOSFiles` puts them on the media where it
  is `none`. Where it is not given neither does, for a disk image as well as for an ISO
  that was told to keep them, although the comment there means to lose none and the
  documentation calls `none` the default. `KdumpKept` says nothing of such a run but that
  the images without a kernel stay.
- `imagecustomizer.go:296`: a request to keep kdump files is compared with the saved
  configuration only. An OS change without the setting takes them out of the full OS
  and leaves `keep` saved, and a later request to keep them is then taken to
  be no change: the ISO is packed again, without the kdump image of a kernel that has
  come back in between. `KdumpKept` excepts this (`DroppedEarlier`).
- `liveosisoartifactstore.go:359`: the comment says that no file of the input ISO
  overwrites a newer one. A kdump image that was an additional file, since its kernel
  was gone, does once the kernel is installed again: the names of additional files
  are compared, and the new image is not among them.
- A store that is read from an ISO has no path for the kernels of kdump images, so
  packing an ISO again with `kdumpBootFiles: none` fails when its media hold one of
  a kernel that is there (`CanStage`).
- `savedconfigs.go:219`: an SELinux mode given explicitly for an ISO with an old
  dracut is turned to disabled without the error that the comment at
  `liveosisobuilder.go:273` expects.
- `imagecustomizer.go:356`: artifacts of an ISO that stay after a failure are
  found by the next run, which copies with `--no-clobber`.
- `customizeverity.go:764`: arguments of usr verity that were put into `grub.cfg`
  only are lost when `grub2-mkconfig` runs again.
- A passthrough or modify run may remove a kernel's package and keep its UKI. A later
  create run makes that UKI again, with the initramfs it had: dracut is run for the
  kernels in `/lib/modules` only, so new overlay or verity drivers are not in it.
  `InitramfsHasDrivers` speaks of kernels with modules, `BootedKernelsInstalled`
  excepts such `orphans`.
- `disk.go:147`: the size that a layout requires is 0 when the last partition ends
  one MiB below 2^64 bytes (`FooterWraps`).
- `resolvconf.go:111`: an `/etc/resolv.conf` that a user adds is discarded.

## Proofs

`SafeChroot_proofs` proves, for every number of chroots, mounts, attempts and
every nesting of mounts, from `ConstantsAssumption` alone:

| Theorem | Property |
|---|---|
| `TypeCorrect` | `TypeOK` |
| `TeardownExcludesMain` | `ExclusiveUnmount` |
| `TeardownWithoutProcesses` | `NoProcessInTeardown` |
| `RemovalAfterUnmount` | `RemoveOnlyUnmounted` |
| `MountsNeverForgotten` | `MountsAccountedFor` |
| `ExitIsClean` | `ExitLeavesNoMounts` |

None of the properties is inductive. The argument has three layers.

- `ControlInv`: types; each mutex is held exactly between its Lock and Unlock
  (`LocksHeld`); what main and the handler are doing fits their program
  counters (`MainConsistent`, `HandlerConsistent`). `ExclusiveUnmount` follows,
  as the one mutex cannot have two holders.
- `ProcessInv`, on top of it: a running process is tracked and main waits for it,
  a killed one is waited for by the handler, and past the handler's first
  critical section nothing starts (`ProcessTracked`). Without the last part a
  process could start between the kill and the sweep.
- `MountInv`, on top of `ControlInv`: `unmountAndRemove` has no mount above its
  cursor (`UnmountProgress`), which needs that every mount has its flag
  (`FlagsCoverMounts`); so the delete at cursor 0 finds none. An active chroot
  is open, stuck, or swept by the teardown (`ActiveOpenOrStuck`); `Initialize`
  works on one that is neither open nor active (`InitializeFresh`), `Close` on
  the last deferred one (`CloseOnActive`); main gives up once an `Initialize`
  has left mounts (`AbandonedMeansFailing`); and the teardown has dealt with all
  above its loop variable (`SweepProgress`). `ExitLeavesNoMounts` needs all of
  these together.

Each action has a step of its own in the proof that the invariants are kept.
`SafeInv` in `SafeChroot` collects the conjuncts, so that TLC can check them on
the constants of `chroot_safety` before a proof is attempted.

`OsCustomization_proofs` proves `RpmMountsKeepDirectory`: `RpmMountsHaveDirectory`
holds for every set of RPM sources, every set of images and configuration
chains, and any number of runs. The directory of the bind mounts is removed in
`close`, which may run three times per file of the chain and fail at each mount.
The property is not inductive: a source could be mounted in a step whose
directory is already gone. `RpmInv` adds that the step that mounts has the
directory (`MountStepHasDirectory`) and that a run starts over only when no
package step is under way (`PackagesOnlyInRun`), as otherwise the fresh state of
the next run would forget mounts. The lemmas say that no operation leads back
to mounting (`NeverBackToMount`) and that a close keeps the directory while a
mount stays (`ClosedKeepsDirectory`); all steps outside the package step leave
its variables alone (`OtherStepsLeavePackages`).

The same module proves `PackagesInv`, which the rest of it uses: what tdnf's
snapshot file, the service guards of apt and the RPM mounts hold is released
step by step (`FlowInv`), so that outside a packages section they hold nothing,
or the run has failed (`HeldOnlyByPackages`).

`ImageConnection_proofs`, for any number of probes and attempts, from
`ConnectionAssumption`:

| Theorem | Property |
|---|---|
| `ConnectionTypeCorrect` | `TypeOK` |
| `CleanCloseIsClean` | `CleanCloseComplete` |
| `LeftOversReported` | `ClosedOrReported` |
| `OtherDevicesKept` | `ForeignDeviceKept` |
| `CloseTakesOwnMount` | `OwnMountOnly` |
| `ConnectionIsImageFile` | `ImplementsImageFile` |

`ConnectionInv` says, for each position of the program, which of probe mount,
chroot mount and device may exist: a mount without its flag is never there
(`ProbeInv`, `ChrootInv`); while `isAttached` is set the device is the program's own,
so a detach cannot hit a foreign one (`DeviceInv`); and a result is "clean" only after
the last wait has seen the device go (`ResultInv`). The last part is what the
refinement needs: the step that reports a clean close maps to the abstract step whose
guard says that the file is free. Every other step maps to an abstract step of the
image or to a stutter.

`DiskLayout_proofs`, for any number of partitions, any modulus above 1 and any values,
from `LayoutAssumption`:

| Theorem | Property |
|---|---|
| `LayoutTypeCorrect` | `TypeOK` |
| `AcceptedInOrder` | `AcceptedLayoutOrdered` |
| `SecondValidationStable` | `RevalidationStable` |
| `AcceptedIsCreatable` | `SfdiskNeverRefuses` |

`LoopInv` is the loop invariant of `Disk.IsValid`: up to the loop variable every
partition is filled in and ends where the next begins or before. `AcceptedInv` says
what the checks after the loop add. For a second pass the invariant has to say that
the disk in hand is the one that was accepted, and that the loop on it changes
nothing, since size and end of every partition are then marked as filled in.
`CreateInv` follows the entries that `CreatePartitions` has already written.

`ImagePipeline_proofs`, for every configuration of the four commands:

| Theorem | Property |
|---|---|
| `PipelineTypeCorrect` | `TypeOK` |
| `StagesSeeWhatWasWritten` | `NoStaleImage` |
| `OutputVerityMatches` | `VerityMatchesRoot` |
| `CosiDescribesItsEsp` | `CosiMetadataCurrent` |
| `RawImagesAreRemoved` | `RawFilesRemoved` |
| `StagesFindTheirImage` | `RawImagePresent`, if `IsoExports` is false (otherwise it is a finding) |

Here the constants add little: what the proofs add to the run is the reason.
`Positions` says at which position of which command each stage is, and `Done(command,
n)` that a position has been passed. `PipelineInv` then says which file is
`rc.RawImageFile` (`FileInv`) and that it was made (`RawInv`), which raw images may be
left (`LeftoverInv`), what is equal to what once the hash tree has been made
(`BaseInv`, `VerityInv`) and the ESP described (`CosiInv`), and that a device with
writes to make exists only where no stage will open the image (`StaleInv`). That a
stage that must run is not skipped (`SkippedStages`) rests on the rules of
`ValidateConfig` (`LegalFacts`), and so does the agreement of the two conditions named
`rebuildFullOsImage`.

The rest of `OsCustomization_proofs`, for all base images, chains, kernels, RPM sources and numbers of
runs, from `OsAssumption`, `BaseImagesAssumption` and `ChainsAssumption`:

| Theorem | Property |
|---|---|
| `OsTypeCorrect` | `TypeOK` |
| `HostResolvConfRemoved` | `NoHostResolvConf` |
| `WrittenFilesLabelled` | `FilesLabelled` |
| `KeptUkisStayWhole` | `UkisStayWhole` |
| `BootedKernelsHaveModules` | `BootedKernelsInstalled` |
| `BootedKernelsHaveDrivers` | `InitramfsHasDrivers` |
| `RunLeavesNothing` | `NothingLeftBehind` |

All of these speak of the end of a run. `ImageInv` says for each position in `Steps`
what already holds there, and enough of it at the last one to start the next run with:
where the host's `resolv.conf` may be (`ResolvInv`), from which step to which `/etc` is
an overlay (`EtcInv`), which files have no label (`LabelInv`), that nothing is put in
`/boot` next to UKIs that are kept (`KeptUkiInv`), which kernels have modules
(`ModulesInv`), that grub has an entry for each kernel in `/boot` (`GrubInv`), which
kernels `uki-kernel-info.json` names (`CreateUkiInv`), and which drivers are in
dracut's configuration, in `/boot`, in the UKIs and in the files staged for new ones
(`DriversInv`). A step that leaves the fields of a part alone keeps it by a lemma
(`ResolvKept`, ..., `DriversKept`); the others have a proof of their own, one lemma per
action. `Frame` and `GrubEdit` say which fields an edit of the image may change.

The proofs found what TLC had not met on its chains: split chains, which `UkisStayWhole`
and the properties of the boot configuration do not hold for (among them one that rebuilds the
hash tree and keeps the UKIs, with the old root hash), orphaned UKIs, and the
footer that wraps around. The chains and values of the runs have been extended, so that these
cases now occur in them.

`OsRequested_proofs`, from the same assumptions, for chains of any length:

| Theorem | Property | If |
|---|---|---|
| `LastFileDecides` | `LaterFileWins` | |
| `VerityHashReachesBoot` | `VerityHashBooted` | |
| `ExtraArgsReachBoot` | `ExtraArgsBooted` | `UkisWithoutGrub`, `PlainExtra` |
| `SELinuxModeReachesBoot` | `SELinuxModeBooted` | `UkisWithoutGrub`, `PlainExtra`, `UniformImages` |

For `LaterFileWins`, the settings are applied file by file by recursive
functions; `SetStepsLast` says, by induction over the files, that the last file that names an
element decides on it, whatever the image had before. `RequestedInv` holds that the host name,
the services and the modules are as the chain asks from their steps on, and one lemma for each
action says that no later step of the run touches them.

The other three follow the command lines through all the places they are kept in: grub's
defaults, `grub.cfg`, `uki-kernel-info.json` and the UKIs. `GrubIn`, `LinesIn` and `UkisIn` say
that the lines of a place are in a set, and one lemma for each edit (`AddedLines`,
`UpdatedLines`, `VerityLines`, `ResetLines`, ..., `Relined`) says which set leads to which;
`KernelArgs_proofs` says which sets of lines an edit of one line preserves. Each theorem then has
sets of its own: the lines with exactly one root hash, this one (`HashInv`); the lines with all
the extra arguments (`ExtraInv`); and the lines with the same SELinux arguments as each
other (`SELinuxInv`). The last one has three lists of arguments, grub's, the UKIs' and the
file's: they may differ until the step of SELinux reads or writes the mode, and from then on the
list that the image will boot with (`BootArgs`) stands for that mode. `BootShape` and `InfoShape`
say which place that is: an image boots from grub or from UKIs, both are there only between a
hard reset and `prepareUki`, and `uki-kernel-info.json` has the lines of the UKIs that a create
run found and no others.

The hypotheses are what the code relies on and does not check. With a `grub.cfg` beside its UKIs
(`UkisWithoutGrub`) an image would have the edits made where it does not boot from. An extra
argument of a name that a later step replaces, such as `root` or `selinux` (`PlainExtra`), would
be dropped again, or override the mode. `UniformImages` is about `GetSELinuxMode`: it looks at
one UKI for all of them, at `/etc/default/grub` for what `grub.cfg` says, and there at
`GRUB_CMDLINE_LINUX_DEFAULT` before `GRUB_CMDLINE_LINUX`, while `grub2-mkconfig` writes them the
other way round and the last argument of a name decides.

`KernelArgs_proofs` says what the functions on command lines do to lines of any length.
The library's induction theorems take an operator, which the provers cannot instantiate;
`NatSet` and `SeqSet` state induction with a set instead (a set of naturals that has 0 and
is closed under successor, a set of sequences that has `<<>>` and is closed under `Append`),
and rest on the least element of a set of naturals (`LeastNat`). `RecursionExists` says that
a function defined by recursion over `0..n` exists. From these: picking
and dropping arguments distributes over concatenation (`MatchingConcat`), dropping is
idempotent and leaves the other names alone (`MatchingTwice`, `MatchingWithout`), an
insertion or a replacement keeps all other arguments (`HasInsert`, `HasUpdate`), and the
last new argument of a name decides its value (`MatchingUpdated`, `FindOne`). `StringLiterals`
is assumed because the provers do not know that a literal is a member of `STRING`; TLC
checks it.

`LiveOs_proofs`, for all disk images and requests that `LiveOsAssumption` admits and for any
number of runs:

| Theorem | Property | If |
|---|---|---|
| `LiveTypeOK` | `TypeOK` | |
| `LiveKdumpKept` | `KdumpKept` | (the property excepts `DroppedEarlier`) |
| `LivePxeFetchesItsImage` | `PxeFetchesItsImage` | |
| `LiveBoots` | `MediaBoots` | no request has a `root=` of its own |
| `LiveRunsKept` | `EarlierRunsKept` | no request has a `root=` of its own |
| `LiveNoSELinux` | `LiveSELinuxOff` | no request has SELinux arguments of its own; `SELinuxReadable` of the disk images |
| `LiveOsBoots` | `LiveMediaComplete`, which is `MediaBoots` and `LiveSELinuxOff` | what these two assume |

`MediaInv` is the invariant of all of them: what the input, the raw image, the store, the
saved configurations and the outputs are at each phase, and where the kdump images are. An ISO
that a run made satisfies `IsoOK`, so that it can be the next input; that is what carries the
argument over any number of runs. `KdumpPlaced` is its part about kdump: the full OS has images
only where `keep` is saved, and then, unless a run dropped them, all those of the kernels that have
one on the media; a store made from a raw image (`Stored`) has every kdump image of a kernel, and
those without one among its additional files. An ISO that is only packed again never has a raw image, so what
holds of the store must be taken from the input (`Packed`). On top of it, `PxeRootInv`,
`RootInv`, `KeptInv` and `SELinuxInv` follow one kind of argument each through
`LiveOSEntry`, `updateGrubCfgForIso`, `updateGrubCfgForPxe` and
`finalizeLiveOSPxeBLSEntries`.

The hypotheses are there because the code appends the extra arguments of a request as they
are: an extra `root=` comes after the one that names the medium, is taken by a full OS, which
should have none, and is replaced with the others by a later run, which then does not keep
it. An extra `selinux=1` undoes `selinux=0` in the same way. `SELinuxReadable` asks two things of a
disk image: where `/etc/default/grub` says disabled, so do the boot entries, since the builder
looks at the former and boots the latter; and where the entries are of the Boot Loader
Specification, nothing asks for force-enforcing: such an entry need not be written anew when the
mode changes, other modes then follow the configuration file, and `enforcing=1` does not. The
images and requests of `live_os` satisfy all of them.

Only model-checked: `SignalEndsProgram`. Liveness under
fairness and `ENABLED` are out of reach of TLAPS, and so is anything that rests on a
`RECURSIVE` operator; no module of the proofs reaches one. Functions of a sequence or of a
chain are recursive functions for this reason.

## Not modelled

Partition discovery beyond its mounts, the loading of base configurations from
files, the text of sizes, fstab and grub files, the formats (COSI, ISO, squashfs,
VHD, PE), the contents of packages and scripts, passwords and keys, downloads and
signatures, the capture of a command's output, logging, telemetry and time
stamps. The reasons are with each component in `PROJECT.json`.

## Plan

Done:

1. `SafeChroot` and its proofs: the one place where the program can damage the
   host.
2. `ImageFile`, `ImageConnection`: what all stages rest on.
3. `ImagePipeline`: the order of the stages and their clean-up, for all four
   commands.
4. `DiskLayout`: validation against creation.
5. Proofs for `SafeChroot`.
6. `ConfigChain`: settings resolved over a chain and rules that are checked per
   file.
7. `OsCustomization`, `OsPackages`: the order of `doOsCustomizations` with its
   temporary changes and their undo after a failure.
8. `KernelArgs`, `BootConfig`: command lines, UKI modes, verity.
9. `LiveOs`: artifact store, saved configurations, conversions.
10. A proof for the RPM sources.
11. Proofs for `ImageConnection` with its refinement, `ImagePipeline`, `DiskLayout`, and
    the image that OS customizations make.
12. Proofs for `KernelArgs` and `LiveOs`.
13. Proofs for what a chain asks for, file by file and on the command lines.

To do, in this order:

1. The output readers of `ExecBuilder`: two goroutines on one bounded channel.
2. Partition discovery: fstab entries, verity and overlay mounts, matching of
   partitions, against a reference definition.
3. The loading of base configurations: diamonds and cycles.
4. The LiveOS build directory composed with `SafeChroot`, for the deferred
   recursive delete.
5. The text of disk sizes, and the COSI format.

--------------------------- MODULE ImageConnection ---------------------------
(***************************************************************************)
(* One connection to a disk image: the loopback device of safeloopback,    *)
(* the short-lived mounts of safemount with which connectToExistingImage   *)
(* looks into the partitions, the chroot in which the image is used, and   *)
(* the two ways to close it, CleanClose (synchronous, its error is looked  *)
(* at) and Close (best effort, deferred).                                  *)
(*                                                                         *)
(* The code is one goroutine.  What makes it hard is the host around it: a *)
(* process may keep a file system busy, so that an unmount fails or, when  *)
(* lazy, leaves the file system alive and writable behind the scenes; udev *)
(* may have the device open, so that `losetup -d` only marks it; and the   *)
(* number of a device that is gone is given to somebody else.              *)
(*                                                                         *)
(* The chroot is one mount here.  Its Close, two passes over all of its    *)
(* mounts, is the subject of SafeChroot.                                   *)
(***************************************************************************)
EXTENDS Naturals, Sequences, SequencesExt

CONSTANTS
    NumProbes,        \* partitions looked into, at the same target directory
    UnmountAttempts,  \* of safemount's CleanClose (3 in the code)
    DetachAttempts    \* of WaitForLoopbackToDetach (10 in the code)

ASSUME ConnectionAssumption ==
    /\ NumProbes \in Nat
    /\ UnmountAttempts \in Nat \ {0}
    /\ DetachAttempts \in Nat \ {0}

Probes == 1 .. NumProbes

\* The chroot's mount and the loopback device, beside the mounts of the probes.
ChrootMount == 0
Device == NumProbes + 1

VARIABLES
    \* The host.
    loop,          \* "free", "bound" to the image, "autoclear", or "other"'s
    opener,        \* udev or blkid has the device open
    dirty,         \* there are writes to the image that its file lacks
    probeMounts,   \* the mounts at the probes' target, the top one last
    chrootMounted, \* the chroot's mount is in place
    busy,          \* the mounts that processes use
    held,          \* those detached lazily and still used by a process
    targetDir,     \* the probes' target directory exists
    ownedDir,      \* the temporary directory of the mount layout exists
    \* Loopback and ImageConnection objects.
    isAttached,
    loopback,      \* c.loopback is set
    chroot,        \* c.chroot is set
    active,        \* the chroot is in activeChroots
    owned,         \* c.ownedDirectories holds the directory
    \* Mount objects.
    isMounted,
    fileOrDirCreated,
    \* Control.
    pc,
    probe,         \* the probe in hand
    defers,        \* the probes with a deferred Close to come
    attempt,
    failing,       \* an error is on its way to the caller
    result,        \* what the function that made the connection returns
    failed         \* the mounts, or the device, whose last close returned an error

hostVars == <<loop, opener, dirty, probeMounts, chrootMounted, busy, held, targetDir, ownedDir>>
loopVars == <<loop, opener, dirty>>
mountVars == <<probeMounts, chrootMounted, busy, held>>
connVars == <<isAttached, loopback, chroot, active, owned>>
probeVars == <<isMounted, fileOrDirCreated, probe, defers>>
vars == <<loop, opener, dirty, probeMounts, chrootMounted, busy, held, targetDir,
          ownedDir, isAttached, loopback, chroot, active, owned, isMounted,
          fileOrDirCreated, pc, probe, defers, attempt, failing, result, failed>>

Labels == {"start", "ids", "newLoopbackClose", "probe", "probeRead", "probeUnmount",
           "probeRemove", "probeDefers", "layout", "chrootInit", "use", "cleanChroot",
           "cleanOwned", "cleanDetach", "cleanWait", "cleanIO", "closeChroot",
           "closeOwned", "closeLoop", "done"}

TypeOK ==
    /\ loop \in {"free", "bound", "autoclear", "other"}
    /\ {opener, dirty, chrootMounted, targetDir, ownedDir, isAttached, loopback,
        chroot, active, owned, failing} \subseteq BOOLEAN
    /\ probeMounts \in Seq(Probes)
    /\ busy \subseteq {ChrootMount} \cup Probes
    /\ held \subseteq {ChrootMount} \cup Probes
    /\ isMounted \in [Probes -> BOOLEAN]
    /\ fileOrDirCreated \in [Probes -> BOOLEAN]
    /\ pc \in Labels
    /\ probe \in 0 .. NumProbes
    /\ defers \in Seq(Probes)
    /\ attempt \in Nat
    /\ pc = "probeUnmount" => attempt < UnmountAttempts
    /\ pc = "cleanWait" => attempt < DetachAttempts
    /\ result \in {"none", "ok", "error", "unclean"}
    /\ failed \subseteq 0 .. Device

Init ==
    /\ loop = "free" /\ opener = FALSE /\ dirty = FALSE
    /\ probeMounts = <<>> /\ chrootMounted = FALSE /\ busy = {} /\ held = {}
    /\ targetDir = FALSE /\ ownedDir = FALSE
    /\ isAttached = FALSE /\ loopback = FALSE /\ chroot = FALSE /\ active = FALSE
    /\ owned = FALSE
    /\ isMounted = [p \in Probes |-> FALSE]
    /\ fileOrDirCreated = [p \in Probes |-> FALSE]
    /\ pc = "start" /\ probe = 0 /\ defers = <<>> /\ attempt = 0
    /\ failing = FALSE /\ result = "none" /\ failed = {}

-----------------------------------------------------------------------------
(* The host.                                                               *)

\* The mounts that are in place, visible or detached but still in use.
FileSystemsAlive == ToSet(probeMounts) \cup held \cup (IF chrootMounted THEN {ChrootMount} ELSE {})

DeviceInUse == FileSystemsAlive # {} \/ opener

\* A process starts to use a mounted file system.
ProcessEnters(m) ==
    /\ m \in FileSystemsAlive \ (busy \cup held)
    /\ busy' = busy \cup {m}
    /\ UNCHANGED <<loopVars, probeMounts, chrootMounted, held, targetDir, ownedDir,
                   connVars, probeVars, pc, attempt, failing, result, failed>>

\* It ends; a file system that had been detached under it is gone with it.
ProcessLeaves(m) ==
    /\ m \in busy
    /\ busy' = busy \ {m}
    /\ held' = held \ {m}
    /\ UNCHANGED <<loopVars, probeMounts, chrootMounted, targetDir, ownedDir,
                   connVars, probeVars, pc, attempt, failing, result, failed>>

\* A process that kept the detached chroot goes on writing to it.
HeldProcessWrites ==
    /\ ChrootMount \in held
    /\ dirty' = TRUE
    /\ UNCHANGED <<loop, opener, mountVars, targetDir, ownedDir, connVars, probeVars,
                   pc, attempt, failing, result, failed>>

Writeback ==
    /\ dirty
    /\ dirty' = FALSE
    /\ UNCHANGED <<loop, opener, mountVars, targetDir, ownedDir, connVars, probeVars,
                   pc, attempt, failing, result, failed>>

\* udev or blkid opens the device, and closes it again.
DeviceOpened ==
    /\ opener \/ loop \in {"bound", "autoclear"}
    /\ opener' = ~opener
    /\ UNCHANGED <<loop, dirty, mountVars, targetDir, ownedDir, connVars, probeVars,
                   pc, attempt, failing, result, failed>>

\* The last user of a device marked by `losetup -d` has gone: the kernel
\* writes back what is left and frees the device.
LoopCleared ==
    /\ loop = "autoclear" /\ ~DeviceInUse
    /\ loop' = "free" /\ dirty' = FALSE
    /\ UNCHANGED <<opener, mountVars, targetDir, ownedDir, connVars, probeVars,
                   pc, attempt, failing, result, failed>>

\* Another program is given the free device for a file of its own.
OtherProgramBinds ==
    /\ loop = "free" /\ pc # "start"
    /\ loop' = "other"
    /\ UNCHANGED <<opener, dirty, mountVars, targetDir, ownedDir, connVars, probeVars,
                   pc, attempt, failing, result, failed>>

HostStep ==
    \/ \E m \in {ChrootMount} \cup Probes : ProcessEnters(m) \/ ProcessLeaves(m)
    \/ HeldProcessWrites
    \/ Writeback
    \/ DeviceOpened
    \/ LoopCleared
    \/ OtherProgramBinds

-----------------------------------------------------------------------------
(* ConnectLoopback.                                                        *)

\* Return an error: the caller closes the connection.
Fail(label) == failing' = TRUE /\ pc' = label

\* Mutation: isAttached is set only when NewLoopback is about to return.
AttachedAfterSetupLate == FALSE

\* newLoopbackHelper sets isAttached as soon as losetup has succeeded.
AttachedAfterSetup == TRUE

SetupLoopbackDevice ==
    /\ pc = "start"
    /\ \/ /\ loop' = "bound"
          /\ isAttached' = AttachedAfterSetup
          /\ pc' = "ids"
          /\ UNCHANGED failing
       \/ /\ Fail("closeChroot")
          /\ UNCHANGED <<loop, isAttached>>
    /\ UNCHANGED <<opener, dirty, mountVars, targetDir, ownedDir, loopback, chroot,
                   active, owned, probeVars, attempt, result, failed>>

\* GetDiskIds and WaitForDiskDevice.
WaitForDiskDevice ==
    /\ pc = "ids"
    /\ \/ /\ loopback' = TRUE
          /\ pc' = "probe"
          /\ UNCHANGED failing
       \/ /\ Fail("newLoopbackClose")
          /\ UNCHANGED loopback
    /\ UNCHANGED <<hostVars, isAttached, chroot, active, owned, probeVars, attempt,
                   result, failed>>

\* Mutation: isAttached is not reset, so that a second close detaches again.
AttachedAfterDetachStill == TRUE

\* Loopback.close resets isAttached once losetup -d has succeeded.
AttachedAfterDetach == FALSE

\* losetup -d succeeds: the kernel marks the device, whoever it belongs to.
DetachLoopbackDevice ==
    /\ isAttached
    /\ loop' = "autoclear"
    /\ isAttached' = AttachedAfterDetach
    /\ failed' = failed \ {Device}

DetachFails ==
    /\ isAttached
    /\ failed' = failed \cup {Device}
    /\ UNCHANGED <<loop, isAttached>>

NothingToDetach == ~isAttached /\ UNCHANGED <<loop, isAttached, failed>>

\* NewLoopback closes the device it could not make ready; its caller has no
\* Loopback to close.
NewLoopbackCloses ==
    /\ pc = "newLoopbackClose"
    /\ DetachLoopbackDevice \/ DetachFails \/ NothingToDetach
    /\ pc' = "closeChroot"
    /\ UNCHANGED <<opener, dirty, mountVars, targetDir, ownedDir, loopback, chroot,
                   active, owned, probeVars, attempt, failing, result>>

-----------------------------------------------------------------------------
(* The mounts with which the helper looks into partitions (safemount).     *)

\* NewMount succeeds: the directory is made if need be, and mounted on.
NewMount ==
    /\ pc = "probe" /\ probe < NumProbes
    /\ probe' = probe + 1
    /\ targetDir' = TRUE
    /\ fileOrDirCreated' = [fileOrDirCreated EXCEPT ![probe + 1] = TRUE]
    /\ probeMounts' = Append(probeMounts, probe + 1)
    /\ isMounted' = [isMounted EXCEPT ![probe + 1] = TRUE]
    /\ defers' = Append(defers, probe + 1)
    /\ pc' = "probeRead"
    /\ UNCHANGED <<loopVars, chrootMounted, busy, held, ownedDir, connVars, attempt,
                   failing, result, failed>>

\* os.Remove(target) succeeds only on an empty directory that is no mount point.
Removable == targetDir /\ probeMounts = <<>>

\* NewMount fails, in MkdirAll or in mount, and closes what it made.
NewMountFails ==
    /\ pc = "probe" /\ probe < NumProbes
    /\ targetDir' \in {targetDir, TRUE} \cup (IF probeMounts = <<>> THEN {FALSE} ELSE {})
    /\ Fail("probeDefers")
    /\ UNCHANGED <<loopVars, mountVars, ownedDir, connVars, probeVars, attempt,
                   result, failed>>

\* The files are read and the mount is closed, or reading fails, or (the boot
\* partition is the ESP itself) the function returns without a CleanClose.
ProbeRead ==
    /\ pc = "probeRead"
    /\ \/ pc' = "probeUnmount" /\ attempt' = 0 /\ UNCHANGED failing
       \/ pc' = "probeDefers" /\ UNCHANGED <<attempt, failing>>
       \/ Fail("probeDefers") /\ UNCHANGED attempt
    /\ UNCHANGED <<hostVars, connVars, probeVars, result, failed>>

\* Mutation: close does not reset isMounted.
MountedAfterCloseStill == TRUE

\* Mount.close resets isMounted once the unmount has succeeded.
MountedAfterClose == FALSE

\* unix.Unmount of the target on behalf of Mount p takes the top mount there;
\* a lazy one leaves the file system alive while a process uses it.
Unmount(p, lazy) ==
    /\ probeMounts # <<>>
    /\ lazy \/ Last(probeMounts) \notin busy
    /\ probeMounts' = Front(probeMounts)
    /\ held' = held \cup (busy \cap {Last(probeMounts)})
    /\ isMounted' = [isMounted EXCEPT ![p] = MountedAfterClose]

\* Mutation: one attempt too many.
MoreUnmountAttemptsOffByOne == attempt < UnmountAttempts

MoreUnmountAttempts == attempt + 1 < UnmountAttempts

\* CleanClose: an attempt to unmount.
ProbeUnmount ==
    /\ pc = "probeUnmount"
    /\ \/ /\ Unmount(probe, FALSE)
          /\ pc' = "probeRemove"
          /\ UNCHANGED <<attempt, failing>>
       \/ /\ MoreUnmountAttempts
          /\ attempt' = attempt + 1
          /\ UNCHANGED <<probeMounts, held, isMounted, pc, failing>>
       \/ /\ ~MoreUnmountAttempts
          /\ Fail("probeDefers")
          /\ UNCHANGED <<probeMounts, held, isMounted, attempt>>
    /\ UNCHANGED <<loopVars, chrootMounted, busy, targetDir, ownedDir, connVars,
                   fileOrDirCreated, probe, defers, result, failed>>

\* Delete the directory of Mount p.
RemoveTarget(p) ==
    /\ Removable
    /\ targetDir' = FALSE
    /\ fileOrDirCreated' = [fileOrDirCreated EXCEPT ![p] = FALSE]

\* CleanClose: the directory is deleted, or cannot be.
ProbeRemove ==
    /\ pc = "probeRemove"
    /\ \/ RemoveTarget(probe) /\ pc' = "probe" /\ UNCHANGED failing
       \/ Fail("probeDefers") /\ UNCHANGED <<targetDir, fileOrDirCreated>>
    /\ UNCHANGED <<loopVars, mountVars, ownedDir, connVars, isMounted, probe, defers,
                   attempt, result, failed>>

\* The function that made the mounts returns.
ProbeReturns ==
    /\ pc = "probe" /\ defers # <<>>
    /\ pc' = "probeDefers"
    /\ UNCHANGED <<hostVars, connVars, probeVars, attempt, failing, result, failed>>

\* The deferred Close of the latest Mount: a lazy unmount if it is mounted,
\* and then the directory if there is one to delete.
DeferredMountClose ==
    LET p == Last(defers) IN
    /\ pc = "probeDefers" /\ defers # <<>>
    /\ defers' = Front(defers)
    /\ \/ \* Unmounted, or nothing to unmount.
          /\ IF isMounted[p]
             THEN Unmount(p, TRUE)
             ELSE UNCHANGED <<probeMounts, held, isMounted>>
          /\ failed' = failed \ {p}
          /\ \/ /\ fileOrDirCreated[p] /\ targetDir /\ probeMounts' = <<>>
                /\ targetDir' = FALSE
                /\ fileOrDirCreated' = [fileOrDirCreated EXCEPT ![p] = FALSE]
             \/ UNCHANGED <<targetDir, fileOrDirCreated>>
       \/ \* The lazy unmount fails.
          /\ isMounted[p]
          /\ failed' = failed \cup {p}
          /\ UNCHANGED <<probeMounts, held, isMounted, targetDir, fileOrDirCreated>>
    /\ UNCHANGED <<loopVars, chrootMounted, busy, ownedDir, connVars, pc, probe,
                   attempt, failing, result>>

\* All deferred calls have run: on to the next probe, or out with the error.
ProbeDone ==
    /\ pc = "probeDefers" /\ defers = <<>>
    /\ pc' = IF failing THEN "closeChroot" ELSE "probe"
    /\ UNCHANGED <<hostVars, connVars, probeVars, attempt, failing, result, failed>>

-----------------------------------------------------------------------------
(* The chroot.                                                             *)

\* No more probes: reconnectToExistingImage makes none at all.
ProbesFinished ==
    /\ pc = "probe" /\ defers = <<>>
    /\ pc' = "layout"
    /\ UNCHANGED <<hostVars, connVars, probeVars, attempt, failing, result, failed>>

\* partitionLayoutToMountPoints, which may make a temporary directory that the
\* connection then owns, and removes it again if it fails.
PartitionLayoutToMountPoints ==
    /\ pc = "layout"
    /\ \/ /\ ownedDir' \in BOOLEAN
          /\ owned' = ownedDir'
          /\ pc' = "chrootInit"
          /\ UNCHANGED failing
       \/ /\ Fail("closeChroot")
          /\ UNCHANGED <<ownedDir, owned>>
    /\ UNCHANGED <<loopVars, mountVars, targetDir, isAttached, loopback, chroot,
                   active, probeVars, attempt, result, failed>>

\* ConnectChroot.  A failed Initialize undoes its mounts, or cannot.
ConnectChroot ==
    /\ pc = "chrootInit"
    /\ \/ /\ chrootMounted' = TRUE /\ chroot' = TRUE /\ active' = TRUE
          /\ pc' = "use"
          /\ UNCHANGED <<failing, failed>>
       \/ /\ chrootMounted' \in BOOLEAN
          /\ failed' = IF chrootMounted' THEN failed \cup {ChrootMount} ELSE failed
          /\ Fail("closeChroot")
          /\ UNCHANGED <<chroot, active>>
    /\ UNCHANGED <<loopVars, probeMounts, busy, held, targetDir, ownedDir, isAttached,
                   loopback, owned, probeVars, attempt, result>>

\* The caller works on the image.
Write ==
    /\ pc = "use"
    /\ dirty' = TRUE
    /\ UNCHANGED <<loop, opener, mountVars, targetDir, ownedDir, connVars, probeVars,
                   pc, attempt, failing, result, failed>>

\* The caller is done: it calls CleanClose, or (validateTargetOs and
\* createLiveOSFromRawHelper) leaves everything to the deferred Close, or fails.
UseDone ==
    /\ pc = "use"
    /\ \/ pc' = "cleanChroot" /\ UNCHANGED <<failing, result>>
       \/ pc' = "closeChroot" /\ result' = "unclean" /\ UNCHANGED failing
       \/ Fail("closeChroot") /\ UNCHANGED result
    /\ UNCHANGED <<hostVars, connVars, probeVars, attempt, failed>>

\* Chroot.Close returns nil: it was closed before, or both kinds of unmount
\* have left no mount, the lazy one possibly a busy file system.
ChrootCloses ==
    /\ chrootMounted' = (chrootMounted /\ ~active)
    /\ held' = IF active THEN held \cup (busy \cap {ChrootMount}) ELSE held
    /\ failed' = IF active THEN failed \ {ChrootMount} ELSE failed
    /\ active' = FALSE

\* Both passes fail.
ChrootCloseFails ==
    /\ active
    /\ failed' = failed \cup {ChrootMount}
    /\ UNCHANGED <<chrootMounted, held, active>>

-----------------------------------------------------------------------------
(* CleanClose.                                                             *)

CleanCloseChroot ==
    /\ pc = "cleanChroot"
    /\ \/ ChrootCloses /\ pc' = "cleanOwned" /\ UNCHANGED failing
       \/ ChrootCloseFails /\ Fail("closeChroot")
    /\ UNCHANGED <<loopVars, probeMounts, busy, targetDir, ownedDir, isAttached,
                   loopback, chroot, owned, probeVars, attempt, result>>

CleanCloseOwned ==
    /\ pc = "cleanOwned"
    /\ \/ /\ owned' = FALSE
          /\ ownedDir' = (ownedDir /\ ~owned)
          /\ pc' = "cleanDetach"
          /\ UNCHANGED failing
       \/ /\ owned
          /\ Fail("closeChroot")
          /\ UNCHANGED <<owned, ownedDir>>
    /\ UNCHANGED <<loopVars, mountVars, targetDir, isAttached, loopback, chroot,
                   active, probeVars, attempt, result, failed>>

CleanCloseDetach ==
    /\ pc = "cleanDetach"
    /\ \/ /\ DetachLoopbackDevice \/ NothingToDetach
          /\ pc' = "cleanWait" /\ attempt' = 0
          /\ UNCHANGED failing
       \/ /\ DetachFails
          /\ Fail("closeChroot")
          /\ UNCHANGED attempt
    /\ UNCHANGED <<opener, dirty, mountVars, targetDir, ownedDir, loopback, chroot,
                   active, owned, probeVars, result>>

\* Mutation: the list is not searched.
StillListedNever == FALSE

\* losetup --list shows the device with the image as its backing file.
StillListed == loop \in {"bound", "autoclear"}

\* Mutation: running out of attempts is not an error.
DetachTimeoutIgnored ==
    /\ pc' = "cleanIO"
    /\ UNCHANGED failing

\* What WaitForLoopbackToDetach does after its last attempt.
DetachTimeout == Fail("closeChroot")

WaitForLoopbackToDetach ==
    /\ pc = "cleanWait"
    /\ \/ /\ ~StillListed
          /\ pc' = "cleanIO"
          /\ UNCHANGED <<attempt, failing>>
       \/ /\ StillListed /\ attempt + 1 < DetachAttempts
          /\ attempt' = attempt + 1
          /\ UNCHANGED <<pc, failing>>
       \/ /\ StillListed /\ attempt + 1 >= DetachAttempts
          /\ DetachTimeout
          /\ UNCHANGED attempt
       \/ \* losetup fails.
          /\ Fail("closeChroot")
          /\ UNCHANGED attempt
    /\ UNCHANGED <<hostVars, connVars, probeVars, result, failed>>

\* BlockOnDiskIOByIds: sync, then poll until the device has no outstanding
\* operations; the device may by then be somebody else's.
BlockOnDiskIOByIds ==
    /\ pc = "cleanIO"
    /\ \/ /\ result' = "ok"
          /\ dirty' = FALSE
          /\ pc' = "closeChroot"
          /\ UNCHANGED failing
       \/ /\ Fail("closeChroot")
          /\ UNCHANGED <<result, dirty>>
    /\ UNCHANGED <<loop, opener, mountVars, targetDir, ownedDir, connVars, probeVars,
                   attempt, failed>>

-----------------------------------------------------------------------------
(* Close, deferred by the caller or run when connecting has failed.        *)

CloseChroot ==
    /\ pc = "closeChroot"
    /\ \/ chroot /\ (ChrootCloses \/ ChrootCloseFails)
       \/ ~chroot /\ UNCHANGED <<chrootMounted, held, active, failed>>
    /\ result' = IF failing THEN "error" ELSE result
    /\ pc' = "closeOwned"
    /\ UNCHANGED <<loopVars, probeMounts, busy, targetDir, ownedDir, isAttached,
                   loopback, chroot, owned, probeVars, attempt, failing>>

\* os.RemoveAll, whose error is ignored.
CloseOwned ==
    /\ pc = "closeOwned"
    /\ ownedDir' \in {ownedDir, ownedDir /\ ~owned}
    /\ pc' = "closeLoop"
    /\ UNCHANGED <<loopVars, mountVars, targetDir, connVars, probeVars, attempt,
                   failing, result, failed>>

CloseLoop ==
    /\ pc = "closeLoop"
    /\ \/ loopback /\ (DetachLoopbackDevice \/ DetachFails \/ NothingToDetach)
       \/ ~loopback /\ UNCHANGED <<loop, isAttached, failed>>
    /\ pc' = "done"
    /\ UNCHANGED <<opener, dirty, mountVars, targetDir, ownedDir, loopback, chroot,
                   active, owned, probeVars, attempt, failing, result>>

Done == pc = "done" /\ UNCHANGED vars

-----------------------------------------------------------------------------

ConnectionStep ==
    \/ SetupLoopbackDevice \/ WaitForDiskDevice \/ NewLoopbackCloses
    \/ NewMount \/ NewMountFails \/ ProbeRead \/ ProbeUnmount \/ ProbeRemove
    \/ ProbeReturns \/ DeferredMountClose \/ ProbeDone \/ ProbesFinished
    \/ PartitionLayoutToMountPoints \/ ConnectChroot \/ Write \/ UseDone
    \/ CleanCloseChroot \/ CleanCloseOwned \/ CleanCloseDetach
    \/ WaitForLoopbackToDetach \/ BlockOnDiskIOByIds
    \/ CloseChroot \/ CloseOwned \/ CloseLoop

Next == ConnectionStep \/ HostStep \/ Done

Spec == Init /\ [][Next]_vars

-----------------------------------------------------------------------------
(* Properties.                                                             *)

\* When CleanClose has returned nil the image file is complete and nobody can
\* write to it any more: no file system of it is alive, not even one that was
\* detached lazily under a process, the device is gone, and nothing is unwritten.
CleanCloseComplete ==
    result = "ok" => /\ FileSystemsAlive = {}
                     /\ loop \in {"free", "other"}
                     /\ ~dirty

\* Whatever failed on the way, once the last deferred call has returned a mount
\* or the device is left behind only if the last attempt to undo it failed.
ClosedOrReported ==
    pc = "done" => /\ ToSet(probeMounts) \subseteq failed
                   /\ chrootMounted => ChrootMount \in failed
                   /\ loop = "bound" => Device \in failed

\* The Mount object that is being closed.
ClosingMount == IF pc = "probeUnmount" THEN probe ELSE Last(defers)

\* Closing a Mount takes away its own mount, never one that was made at the
\* same target after it ("CleanClose and Close are safe to call multiple times").
OwnMountOnly ==
    [][Len(probeMounts') < Len(probeMounts) => Last(probeMounts) = ClosingMount]_vars

\* A device that has been given to another program is never detached by a
\* second close of ours.
ForeignDeviceKept == [][loop = "other" => loop' = "other"]_vars

\* The connection keeps what ImageFile promises.
File == INSTANCE ImageFile WITH
    state   <- CASE loop = "bound" -> "attached"
                 [] loop = "autoclear" -> "releasing"
                 [] OTHER -> "detached",
    outcome <- result

ImplementsImageFile == File!FileSpec
=============================================================================

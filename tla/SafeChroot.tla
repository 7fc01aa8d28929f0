------------------------------ MODULE SafeChroot ------------------------------
(***************************************************************************)
(* The chroots of internal/safechroot, the child processes of              *)
(* internal/shell, and the two goroutines that share them: the main        *)
(* goroutine, which opens chroots, runs commands in them and closes them,  *)
(* and the signal goroutine, which tears everything down on SIGINT or      *)
(* SIGTERM and exits the program.                                          *)
(*                                                                         *)
(* A chroot is a root directory with NumMounts mounts, made in the order   *)
(* 1 .. NumMounts and undone in reverse.  A chroot of ExistingDirs (the    *)
(* tools directory, an extracted squashfs) is opened on a directory that   *)
(* belongs to someone else and may already hold mounts (HostMounts); any   *)
(* other creates its directory and deletes it recursively when it closes.  *)
(***************************************************************************)
EXTENDS Naturals, Sequences, FiniteSets

CONSTANTS
    Chroots,        \* the chroots the program may open
    ExistingDirs,   \* those opened with isExistingDir
    NumMounts,      \* len(c.mountPoints)
    Nested,         \* <<j, i>>: the target of mount j lies under that of i
    HostMounts,     \* mounts found in the directory before the program runs
    TotalAttempts,  \* attempts per unmount (3 in the code)
    NoChroot        \* the root of a process that runs on the host

Mounts == 1 .. NumMounts

ASSUME ConstantsAssumption ==
    /\ ExistingDirs \subseteq Chroots
    /\ NumMounts \in Nat
    /\ TotalAttempts \in Nat \ {0}
    /\ Nested \subseteq Mounts \X Mounts
    /\ HostMounts \in [Chroots -> SUBSET Mounts]
    /\ \A c \in Chroots \ ExistingDirs : HostMounts[c] = {}
    /\ \A c \in Chroots : \A n \in Nested : n[1] \notin HostMounts[c]
    /\ NoChroot \notin Chroots

VARIABLES
    \* Go state shared by the two goroutines.
    activeChrootsMutex,    \* who holds it: "free", "main" or "handler"
    activeChroots,         \* the initialized chroots, in order of Initialize
    activeCommandsMutex,   \* held across steps by "handler" only
    allowProcessCreation,
    activeCommands,        \* the tracked commands: {} or {"cmd"}
    isMounted,             \* the isMounted flags of each chroot's mount points
    \* State of the host.
    rootDir,               \* does the root directory exist?
    mounted,               \* the program's mounts that are in place
    hostMounts,            \* the host's own mounts that are in place
    process,               \* the command main is running
    daemon,                \* a process a command left behind in the chroot
    exited,                \* "no", or the goroutine that exited the program
    signalled,             \* has SIGINT or SIGTERM arrived?
    \* The goroutines.
    pc,
    frame,                 \* the chroot, mount and attempt each works on
    op,                    \* what main is doing
    failing,               \* main is returning an error to its callers
    defers,                \* the chroots main has open, with a deferred Close
    cleanupIndex,          \* the loop variable of cleanupAllChroots
    \* What unmountAndRemove last returned for each chroot.
    stuck                  \* those for which it returned an error

shellVars   == <<activeCommandsMutex, allowProcessCreation, activeCommands, process>>
hostVars    == <<rootDir, mounted, hostMounts>>
mainVars    == <<op, failing, defers>>
chrootVars  == <<activeChrootsMutex, activeChroots, isMounted, stuck>>
vars == <<activeChrootsMutex, activeChroots, activeCommandsMutex,
          allowProcessCreation, activeCommands, isMounted, rootDir, mounted,
          hostMounts, process, daemon, exited, signalled, pc, frame, op,
          failing, defers, cleanupIndex, stuck>>

Actors == {"main", "handler"}

MainLabels == {"run", "initLock", "initMount", "cmdStart", "cmdWait",
               "cmdUntrack", "closeLock", "closeReturn", "unmount"}

HandlerLabels == {"listen", "lock", "disallow", "stop", "stopWait", "next",
                  "unmount", "exit"}

Frames == [chroot  : Chroots \cup {NoChroot},
           mount   : 0 .. (NumMounts + 1),
           attempt : 0 .. (TotalAttempts - 1),
           lazy    : BOOLEAN]

NoProcess == [root |-> NoChroot, state |-> "none"]

TypeOK ==
    /\ activeChrootsMutex \in {"free", "main", "handler"}
    /\ activeChroots \in Seq(Chroots)
    /\ activeCommandsMutex \in {"free", "handler"}
    /\ allowProcessCreation \in BOOLEAN
    /\ activeCommands \in SUBSET {"cmd"}
    /\ isMounted \in [Chroots -> SUBSET Mounts]
    /\ rootDir \in [Chroots -> BOOLEAN]
    /\ mounted \in [Chroots -> SUBSET Mounts]
    /\ hostMounts \in [Chroots -> SUBSET Mounts]
    /\ process \in [root  : Chroots \cup {NoChroot},
                    state : {"none", "running", "killed", "succeeded", "failed"}]
    /\ daemon \in [Chroots -> {"none", "alive", "interrupted"}]
    /\ exited \in {"no", "main", "handler"}
    /\ signalled \in BOOLEAN
    /\ pc \in [Actors -> MainLabels \cup HandlerLabels]
    /\ pc["main"] \in MainLabels /\ pc["handler"] \in HandlerLabels
    /\ frame \in [Actors -> Frames]
    /\ op \in {"none", "init", "job", "clean", "deferred"}
    /\ failing \in BOOLEAN
    /\ defers \in Seq(Chroots)
    /\ cleanupIndex \in Nat
    /\ stuck \in SUBSET Chroots

Init ==
    /\ activeChrootsMutex = "free"
    /\ activeChroots = <<>>
    /\ activeCommandsMutex = "free"
    /\ allowProcessCreation = TRUE
    /\ activeCommands = {}
    /\ isMounted = [c \in Chroots |-> {}]
    /\ rootDir \in {d \in [Chroots -> BOOLEAN] :
                        \A c \in Chroots : d[c] => c \in ExistingDirs}
    /\ mounted = [c \in Chroots |-> {}]
    /\ hostMounts = [c \in Chroots |-> IF rootDir[c] THEN HostMounts[c] ELSE {}]
    /\ process = NoProcess
    /\ daemon = [c \in Chroots |-> "none"]
    /\ exited = "no"
    /\ signalled = FALSE
    /\ pc = [a \in Actors |-> IF a = "main" THEN "run" ELSE "listen"]
    /\ frame = [a \in Actors |-> [chroot |-> NoChroot, mount |-> 0,
                                  attempt |-> 0, lazy |-> FALSE]]
    /\ op = "none"
    /\ failing = FALSE
    /\ defers = <<>>
    /\ cleanupIndex = 0
    /\ stuck = {}

-----------------------------------------------------------------------------
(* Helpers.                                                                *)

Goto(a, label) == pc' = [pc EXCEPT ![a] = label]

IsActive(c) == \E k \in 1 .. Len(activeChroots) : activeChroots[k] = c

IsOpen(c) == \E k \in 1 .. Len(defers) : defers[k] = c

\* The chroot whose deferred Close runs next: Go runs defers in LIFO order.
LastDefer == defers[Len(defers)]

\* Close finds itself in activeChroots and drops that entry.
Without(c) ==
    LET index == CHOOSE k \in 1 .. Len(activeChroots) : activeChroots[k] = c IN
    [k \in 1 .. Len(activeChroots) - 1 |->
        IF k < index THEN activeChroots[k] ELSE activeChroots[k + 1]]

\* The host keeps a mount busy while a process runs inside the chroot.
Busy(c) == \/ daemon[c] # "none"
           \/ process.root = c /\ process.state \in {"running", "killed"}

\* Actor a goes on with its chroot at mount i, after n failed attempts there.
MovedTo(a, i, n) ==
    [chroot |-> frame[a].chroot, mount |-> i, attempt |-> n, lazy |-> frame[a].lazy]

\* The arguments with which unmountAndRemove(lazy) of c starts.
UnmountFrame(c, lazy) ==
    [chroot |-> c, mount |-> NumMounts, attempt |-> 0, lazy |-> lazy]

-----------------------------------------------------------------------------
(* Initialize.                                                             *)

\* main calls Initialize on a new Chroot.  It never opens an existing directory
\* that an earlier Chroot still holds (the tools directory is opened once).
Initialize(c) ==
    /\ pc["main"] = "run" /\ ~failing /\ ~IsOpen(c)
    /\ c \in ExistingDirs => ~IsActive(c)
    /\ op' = "init"
    /\ frame' = [frame EXCEPT !["main"] = UnmountFrame(c, FALSE)]
    /\ Goto("main", "initLock")
    /\ UNCHANGED <<chrootVars, shellVars, hostVars, daemon, exited, signalled,
                   failing, defers, cleanupIndex>>

\* The root directory has the state that Initialize requires.
RootDirAcceptable(c) == rootDir[c] <=> c \in ExistingDirs

\* Take the lock and check or create the root directory.
InitializeRoot ==
    LET c == frame["main"].chroot IN
    /\ pc["main"] = "initLock" /\ activeChrootsMutex = "free"
    /\ RootDirAcceptable(c)
    /\ activeChrootsMutex' = "main"
    /\ rootDir' = [rootDir EXCEPT ![c] = TRUE]
    /\ isMounted' = [isMounted EXCEPT ![c] = {}]
    /\ frame' = [frame EXCEPT !["main"] = MovedTo("main", 1, 0)]
    /\ Goto("main", "initMount")
    /\ UNCHANGED <<activeChroots, stuck, shellVars, mounted, hostMounts, daemon,
                   exited, signalled, mainVars, cleanupIndex>>

\* Mutation: an early return that leaves activeChrootsMutex locked.
InitializeRefusedKeepsLock ==
    /\ pc["main"] = "initLock" /\ activeChrootsMutex = "free"
    /\ ~RootDirAcceptable(frame["main"].chroot)
    /\ activeChrootsMutex' = "main"
    /\ failing' = TRUE
    /\ op' = "none"
    /\ Goto("main", "run")
    /\ UNCHANGED <<activeChroots, isMounted, stuck, shellVars, hostVars, daemon,
                   exited, signalled, frame, defers, cleanupIndex>>

\* A missing or already existing directory, or a failed MkdirAll: return
\* before the deferred cleanup is registered.
InitializeRefused ==
    LET c == frame["main"].chroot IN
    /\ pc["main"] = "initLock" /\ activeChrootsMutex = "free"
    /\ ~RootDirAcceptable(c) \/ c \notin ExistingDirs
    /\ failing' = TRUE
    /\ op' = "none"
    /\ Goto("main", "run")
    /\ UNCHANGED <<chrootVars, shellVars, hostVars, daemon, exited, signalled,
                   frame, defers, cleanupIndex>>

\* createMountPoints: one iteration that succeeds.
CreateMountPoint ==
    LET c == frame["main"].chroot
        i == frame["main"].mount
    IN
    /\ pc["main"] = "initMount" /\ i <= NumMounts
    /\ mounted' = [mounted EXCEPT ![c] = @ \cup {i}]
    /\ isMounted' = [isMounted EXCEPT ![c] = @ \cup {i}]
    /\ frame' = [frame EXCEPT !["main"] = MovedTo("main", i + 1, 0)]
    /\ UNCHANGED <<activeChrootsMutex, activeChroots, stuck, shellVars, rootDir,
                   hostMounts, daemon, exited, signalled, pc, mainVars, cleanupIndex>>

\* createMountPoints: a MkdirAll or mount fails, and Initialize's deferred
\* cleanup starts a lazy unmountAndRemove.
CreateMountPointFails ==
    LET c == frame["main"].chroot IN
    /\ pc["main"] = "initMount" /\ frame["main"].mount <= NumMounts
    /\ frame' = [frame EXCEPT !["main"] = UnmountFrame(c, TRUE)]
    /\ Goto("main", "unmount")
    /\ UNCHANGED <<chrootVars, shellVars, hostVars, daemon, exited, signalled,
                   mainVars, cleanupIndex>>

\* All mounts are in place: register the chroot and return to main, which
\* registers its deferred Close.
InitializeDone ==
    LET c == frame["main"].chroot IN
    /\ pc["main"] = "initMount" /\ frame["main"].mount > NumMounts
    /\ activeChroots' = Append(activeChroots, c)
    /\ activeChrootsMutex' = "free"
    /\ defers' = Append(defers, c)
    /\ op' = "none"
    /\ Goto("main", "run")
    /\ UNCHANGED <<isMounted, stuck, shellVars, hostVars, daemon, exited,
                   signalled, frame, failing, cleanupIndex>>

-----------------------------------------------------------------------------
(* Commands of main (shell.ExecBuilder.executeHelper).                     *)

\* main runs a command on the host or in a chroot that it has open.
RunCommand(root) ==
    /\ pc["main"] = "run" /\ ~failing
    /\ root = NoChroot \/ (root \in Chroots /\ IsOpen(root))
    /\ op' = "job"
    /\ process' = [root |-> root, state |-> "none"]
    /\ Goto("main", "cmdStart")
    /\ UNCHANGED <<chrootVars, activeCommandsMutex, allowProcessCreation,
                   activeCommands, hostVars, daemon, exited, signalled, frame,
                   failing, defers, cleanupIndex>>

\* What main does when the command it ran has failed: a job's error is
\* returned, a failure to list processes is logged and Close goes on.
AfterFailedCommand ==
    IF op = "job"
    THEN /\ failing' = TRUE
         /\ op' = "none"
         /\ Goto("main", "run")
         /\ UNCHANGED frame
    ELSE /\ frame' = [frame EXCEPT !["main"] = UnmountFrame(frame["main"].chroot, FALSE)]
         /\ Goto("main", "unmount")
         /\ UNCHANGED <<failing, op>>

\* Mutation: startCmd does not look at the flag.
MayStartAlways == TRUE

\* The check startCmd makes before it starts a process.
MayStart == allowProcessCreation

\* startCmd: start and track the process under the mutex.
startCmd ==
    /\ pc["main"] = "cmdStart" /\ activeCommandsMutex = "free"
    /\ MayStart
    /\ process' = [process EXCEPT !.state = "running"]
    /\ activeCommands' = {"cmd"}
    /\ Goto("main", "cmdWait")
    /\ UNCHANGED <<chrootVars, activeCommandsMutex, allowProcessCreation,
                   hostVars, daemon, exited, signalled, frame, mainVars, cleanupIndex>>

\* startCmd returns an error: process creation is not allowed, or the start
\* itself fails.
startCmdFails ==
    /\ pc["main"] = "cmdStart" /\ activeCommandsMutex = "free"
    /\ process' = NoProcess
    /\ AfterFailedCommand
    /\ UNCHANGED <<chrootVars, activeCommandsMutex, allowProcessCreation,
                   activeCommands, hostVars, daemon, exited, signalled, defers,
                   cleanupIndex>>

\* The process ends, possibly leaving a daemon such as gpg-agent, with a
\* process group of its own, behind in the chroot.
ProcessExits ==
    /\ process.state \in {"running", "killed"}
    /\ \E s \in {"succeeded", "failed"} :
          /\ process.state = "killed" => s = "failed"
          /\ process' = [process EXCEPT !.state = s]
    /\ \/ UNCHANGED daemon
       \/ /\ process.state = "running" /\ process.root # NoChroot
          /\ daemon' = [daemon EXCEPT ![process.root] = "alive"]
    /\ UNCHANGED <<chrootVars, activeCommandsMutex, allowProcessCreation,
                   activeCommands, hostVars, exited, signalled, pc, frame,
                   mainVars, cleanupIndex>>

\* The readers have seen the end of both pipes and cmd.Wait returns.
CommandWaited ==
    /\ pc["main"] = "cmdWait" /\ process.state \in {"succeeded", "failed"}
    /\ Goto("main", "cmdUntrack")
    /\ UNCHANGED <<chrootVars, shellVars, hostVars, daemon, exited, signalled,
                   frame, mainVars, cleanupIndex>>

\* The daemons of c after stopRunningProcesses: it interrupts those that lsof
\* has found in the chroot, or fails to.
stopRunningProcesses(c) ==
    {daemon, [daemon EXCEPT ![c] = IF @ = "none" THEN @ ELSE "interrupted"]}

\* The deferred untrackProcess, and the return to main or to Close.
untrackProcess ==
    LET c == frame["main"].chroot IN
    /\ pc["main"] = "cmdUntrack" /\ activeCommandsMutex = "free"
    /\ activeCommands' = {}
    /\ process' = NoProcess
    /\ \/ /\ process.state = "failed"
          /\ AfterFailedCommand
          /\ UNCHANGED daemon
       \/ /\ process.state = "succeeded" /\ op = "job"
          /\ op' = "none"
          /\ Goto("main", "run")
          /\ UNCHANGED <<frame, failing, daemon>>
       \/ /\ process.state = "succeeded" /\ op \in {"clean", "deferred"}
          /\ daemon' \in stopRunningProcesses(c)
          /\ frame' = [frame EXCEPT !["main"] = UnmountFrame(c, FALSE)]
          /\ Goto("main", "unmount")
          /\ UNCHANGED <<failing, op>>
    /\ UNCHANGED <<chrootVars, activeCommandsMutex, allowProcessCreation,
                   hostVars, exited, signalled, defers, cleanupIndex>>

\* A daemon that was interrupted ends some time later.
DaemonExits(c) ==
    /\ daemon[c] = "interrupted"
    /\ daemon' = [daemon EXCEPT ![c] = "none"]
    /\ UNCHANGED <<chrootVars, shellVars, hostVars, exited, signalled, pc, frame,
                   mainVars, cleanupIndex>>

-----------------------------------------------------------------------------
(* Close.                                                                  *)

\* main calls Close and looks at its result (CleanClose of its owner), or the
\* deferred Close runs, whose result is ignored.
Close(kind) ==
    /\ defers # <<>>
    /\ \/ pc["main"] = "run" /\ (failing => kind = "deferred")
       \/ pc["main"] = "closeReturn" /\ kind = "deferred"
    /\ op' = kind
    /\ frame' = [frame EXCEPT !["main"] = UnmountFrame(LastDefer, FALSE)]
    /\ Goto("main", "closeLock")
    /\ UNCHANGED <<chrootVars, shellVars, hostVars, daemon, exited, signalled,
                   failing, defers, cleanupIndex>>

\* How Close hands its result to the caller.
ReturnFromClose(ok) ==
    /\ op' = "none"
    /\ failing' = (failing \/ (op = "clean" /\ ~ok))
    /\ defers' = IF op = "deferred" THEN SubSeq(defers, 1, Len(defers) - 1) ELSE defers
    /\ Goto("main", IF op = "clean" /\ ok THEN "closeReturn" ELSE "run")

\* The chroot is not in activeChroots: already closed.
CloseAlreadyClosed ==
    /\ pc["main"] = "closeLock" /\ activeChrootsMutex = "free"
    /\ ~IsActive(frame["main"].chroot)
    /\ ReturnFromClose(TRUE)
    /\ UNCHANGED <<chrootVars, shellVars, hostVars, daemon, exited, signalled,
                   frame, cleanupIndex>>

\* Mutation: Close does not take the lock that the teardown holds.
CloseMayEnterUnlocked == TRUE

\* activeChrootsMutex.Lock() in Close returns.
CloseMayEnter == activeChrootsMutex = "free"

\* Take the lock and list the processes inside the chroot with lsof.
CloseActive ==
    /\ pc["main"] = "closeLock" /\ CloseMayEnter
    /\ IsActive(frame["main"].chroot)
    /\ activeChrootsMutex' = "main"
    /\ process' = NoProcess
    /\ Goto("main", "cmdStart")
    /\ UNCHANGED <<activeChroots, isMounted, stuck, activeCommandsMutex,
                   allowProcessCreation, activeCommands, hostVars, daemon,
                   exited, signalled, frame, mainVars, cleanupIndex>>

-----------------------------------------------------------------------------
(* unmountAndRemove, run by main (in Initialize or Close) or the handler.  *)

\* Mutation: Close forgets the chroot even when it could not be unmounted.
ActiveAfterCloseAlways(c, ok) == Without(c)

\* Close drops the chroot from activeChroots only once it is cleaned up.
ActiveAfterClose(c, ok) == IF ok THEN Without(c) ELSE activeChroots

\* What the caller does with the result of unmountAndRemove.
UnmountReturns(a, ok) ==
    LET f == frame[a] IN
    IF a = "handler"
    THEN \* cleanupAllChroots: best effort, on to the next chroot.
         /\ stuck' = IF ok THEN stuck \ {f.chroot} ELSE stuck \cup {f.chroot}
         /\ Goto(a, "next")
         /\ UNCHANGED <<activeChrootsMutex, activeChroots, frame, mainVars>>
    ELSE IF op = "init"
    THEN \* Initialize returns its error; a failed cleanup is only logged.
         /\ stuck' = IF ok THEN stuck \ {f.chroot} ELSE stuck \cup {f.chroot}
         /\ activeChrootsMutex' = "free"
         /\ failing' = TRUE
         /\ op' = "none"
         /\ Goto(a, "run")
         /\ UNCHANGED <<activeChroots, frame, defers>>
    ELSE IF ~ok /\ ~f.lazy
    THEN \* Close retries with a lazy unmount.
         /\ frame' = [frame EXCEPT ![a] = UnmountFrame(f.chroot, TRUE)]
         /\ UNCHANGED <<activeChrootsMutex, activeChroots, stuck, pc, mainVars>>
    ELSE /\ stuck' = IF ok THEN stuck \ {f.chroot} ELSE stuck \cup {f.chroot}
         /\ activeChroots' = ActiveAfterClose(f.chroot, ok)
         /\ activeChrootsMutex' = "free"
         /\ ReturnFromClose(ok)
         /\ UNCHANGED frame

\* The path is missing or not a mount point, or its isMounted flag is not set.
UnmountSkip(a) ==
    LET c == frame[a].chroot
        i == frame[a].mount
    IN
    /\ pc[a] = "unmount" /\ i > 0
    /\ \/ ~rootDir[c]
       \/ i \notin mounted[c] \cup hostMounts[c]
       \/ i \notin isMounted[c]
    /\ frame' = [frame EXCEPT ![a] = MovedTo(a, i - 1, 0)]
    /\ UNCHANGED <<chrootVars, shellVars, hostVars, daemon, exited, signalled,
                   pc, mainVars, cleanupIndex>>

\* unix.Unmount can be tried on this mount point.
CanTryUnmount(a) ==
    LET c == frame[a].chroot
        i == frame[a].mount
    IN
    /\ pc[a] = "unmount" /\ i > 0
    /\ rootDir[c]
    /\ i \in mounted[c] \cup hostMounts[c]
    /\ i \in isMounted[c]

Below(i) == {j \in Mounts : <<j, i>> \in Nested}

\* An unmount succeeds.  It takes the top mount at the path; detaching it
\* lazily takes the mounts below the path along.
UnmountSucceeds(a) ==
    LET c == frame[a].chroot
        i == frame[a].mount
    IN
    /\ CanTryUnmount(a)
    /\ frame[a].lazy \/ (~Busy(c) /\ Below(i) \cap mounted[c] = {})
    /\ mounted' = [mounted EXCEPT ![c] = @ \ ({i} \cup Below(i))]
    /\ hostMounts' = IF i \in mounted[c]
                     THEN hostMounts
                     ELSE [hostMounts EXCEPT ![c] = @ \ {i}]
    /\ frame' = [frame EXCEPT ![a] = MovedTo(a, i - 1, 0)]
    /\ UNCHANGED <<chrootVars, shellVars, rootDir, daemon, exited, signalled,
                   pc, mainVars, cleanupIndex>>

\* Mutation: one attempt too many.
MoreAttemptsOffByOne(failures) == failures < TotalAttempts

\* retry.RunWithExpBackoff goes round again after so many failures.
MoreAttempts(failures) == failures + 1 < TotalAttempts

\* An unmount fails and is tried again after the backoff.
UnmountRetries(a) ==
    /\ CanTryUnmount(a)
    /\ MoreAttempts(frame[a].attempt)
    /\ frame' = [frame EXCEPT ![a] = MovedTo(a, frame[a].mount, frame[a].attempt + 1)]
    /\ UNCHANGED <<chrootVars, shellVars, hostVars, daemon, exited, signalled,
                   pc, mainVars, cleanupIndex>>

\* Mutation: a failed unmount is logged and the loop goes on.
UnmountGivesUpContinues(a) ==
    /\ CanTryUnmount(a)
    /\ ~MoreAttempts(frame[a].attempt)
    /\ frame' = [frame EXCEPT ![a] = MovedTo(a, frame[a].mount - 1, 0)]
    /\ UNCHANGED <<chrootVars, shellVars, hostVars, daemon, exited, signalled,
                   pc, mainVars, cleanupIndex>>

\* The last attempt fails: unmountAndRemove returns, leaving the rest mounted.
UnmountGivesUp(a) ==
    /\ CanTryUnmount(a)
    /\ ~MoreAttempts(frame[a].attempt)
    /\ UnmountReturns(a, FALSE)
    /\ UNCHANGED <<isMounted, shellVars, hostVars, daemon, exited, signalled, cleanupIndex>>

\* The path or the mount table cannot be read: unmountAndRemove returns.
UnmountCheckFails(a) ==
    /\ pc[a] = "unmount" /\ frame[a].mount > 0
    /\ UnmountReturns(a, FALSE)
    /\ UNCHANGED <<isMounted, shellVars, hostVars, daemon, exited, signalled, cleanupIndex>>

\* Every mount point is done: delete the directory unless it is not ours.
RemoveRoot(a) ==
    LET c == frame[a].chroot IN
    /\ pc[a] = "unmount" /\ frame[a].mount = 0
    /\ rootDir' = [rootDir EXCEPT ![c] = rootDir[c] /\ c \in ExistingDirs]
    /\ UnmountReturns(a, TRUE)
    /\ UNCHANGED <<isMounted, shellVars, mounted, hostMounts, daemon, exited,
                   signalled, cleanupIndex>>

\* os.RemoveAll fails.
RemoveRootFails(a) ==
    /\ pc[a] = "unmount" /\ frame[a].mount = 0
    /\ frame[a].chroot \notin ExistingDirs
    /\ UnmountReturns(a, FALSE)
    /\ UNCHANGED <<isMounted, shellVars, hostVars, daemon, exited, signalled, cleanupIndex>>

-----------------------------------------------------------------------------
(* The signal goroutine.                                                   *)

SignalArrives ==
    /\ ~signalled
    /\ signalled' = TRUE
    /\ UNCHANGED <<chrootVars, shellVars, hostVars, daemon, exited, pc, frame,
                   mainVars, cleanupIndex>>

\* <-signals returns.
cleanupAllChrootsOnSignal ==
    /\ pc["handler"] = "listen" /\ signalled
    /\ Goto("handler", "lock")
    /\ UNCHANGED <<chrootVars, shellVars, hostVars, daemon, exited, signalled,
                   frame, mainVars, cleanupIndex>>

\* cleanupAllChroots takes activeChrootsMutex and never releases it.
cleanupAllChroots ==
    /\ pc["handler"] = "lock" /\ activeChrootsMutex = "free"
    /\ activeChrootsMutex' = "handler"
    /\ Goto("handler", "disallow")
    /\ UNCHANGED <<activeChroots, isMounted, stuck, shellVars, hostVars, daemon,
                   exited, signalled, frame, mainVars, cleanupIndex>>

\* The first critical section of PermanentlyStopAllChildProcesses.
PermanentlyStopAllChildProcesses ==
    /\ pc["handler"] = "disallow" /\ activeCommandsMutex = "free"
    /\ allowProcessCreation' = FALSE
    /\ Goto("handler", "stop")
    /\ UNCHANGED <<chrootVars, activeCommandsMutex, activeCommands, process,
                   hostVars, daemon, exited, signalled, frame, mainVars, cleanupIndex>>

\* Mutation: the loop starts below the newest chroot.
CleanupStartOffByOne == IF activeChroots = <<>> THEN 0 ELSE Len(activeChroots) - 1

\* Where the LIFO loop over activeChroots starts.
CleanupStart == Len(activeChroots)

\* StopAllChildProcesses takes the mutex and kills the tracked process group.
\* The kill of a process that is gone fails, and is not waited for.
StopAllChildProcesses ==
    /\ pc["handler"] = "stop" /\ activeCommandsMutex = "free"
    /\ IF activeCommands # {} /\ process.state = "running"
       THEN /\ process' = [process EXCEPT !.state = "killed"]
            /\ activeCommandsMutex' = "handler"
            /\ Goto("handler", "stopWait")
            /\ UNCHANGED cleanupIndex
       ELSE /\ cleanupIndex' = CleanupStart
            /\ Goto("handler", "next")
            /\ UNCHANGED <<process, activeCommandsMutex>>
    /\ UNCHANGED <<chrootVars, allowProcessCreation, activeCommands, hostVars,
                   daemon, exited, signalled, frame, mainVars>>

\* cmd.Wait of the killed process returns and the mutex is released.
StopAllChildProcessesWaited ==
    /\ pc["handler"] = "stopWait" /\ process.state \in {"succeeded", "failed"}
    /\ activeCommandsMutex' = "free"
    /\ cleanupIndex' = CleanupStart
    /\ Goto("handler", "next")
    /\ UNCHANGED <<chrootVars, allowProcessCreation, activeCommands, process,
                   hostVars, daemon, exited, signalled, frame, mainVars>>

\* One iteration of the LIFO loop over activeChroots.
CleanupNext ==
    /\ pc["handler"] = "next"
    /\ IF cleanupIndex > 0
       THEN /\ frame' = [frame EXCEPT !["handler"] =
                            UnmountFrame(activeChroots[cleanupIndex], TRUE)]
            /\ cleanupIndex' = cleanupIndex - 1
            /\ Goto("handler", "unmount")
       ELSE /\ Goto("handler", "exit")
            /\ UNCHANGED <<frame, cleanupIndex>>
    /\ UNCHANGED <<chrootVars, shellVars, hostVars, daemon, exited, signalled, mainVars>>

\* os.Exit(1).
HandlerExits ==
    /\ pc["handler"] = "exit"
    /\ exited' = "handler"
    /\ UNCHANGED <<chrootVars, shellVars, hostVars, daemon, signalled, pc, frame,
                   mainVars, cleanupIndex>>

\* main returns, or ends in log.Fatalf, once its deferred calls have run.
MainExits ==
    /\ pc["main"] = "run" /\ defers = <<>>
    /\ exited' = "main"
    /\ UNCHANGED <<chrootVars, shellVars, hostVars, daemon, signalled, pc, frame,
                   mainVars, cleanupIndex>>

-----------------------------------------------------------------------------

\* One iteration of unmountAndRemove by actor a.
UnmountStep(a) ==
    \/ UnmountSkip(a)
    \/ UnmountSucceeds(a)
    \/ UnmountRetries(a)
    \/ UnmountGivesUp(a)
    \/ UnmountCheckFails(a)
    \/ RemoveRoot(a)
    \/ RemoveRootFails(a)

MainStep ==
    \/ \E c \in Chroots : Initialize(c)
    \/ InitializeRoot
    \/ InitializeRefused
    \/ CreateMountPoint
    \/ CreateMountPointFails
    \/ InitializeDone
    \/ \E root \in Chroots \cup {NoChroot} : RunCommand(root)
    \/ startCmd
    \/ startCmdFails
    \/ CommandWaited
    \/ untrackProcess
    \/ \E kind \in {"clean", "deferred"} : Close(kind)
    \/ CloseAlreadyClosed
    \/ CloseActive
    \/ UnmountStep("main")
    \/ MainExits

HandlerStep ==
    \/ cleanupAllChrootsOnSignal
    \/ cleanupAllChroots
    \/ PermanentlyStopAllChildProcesses
    \/ StopAllChildProcesses
    \/ StopAllChildProcessesWaited
    \/ CleanupNext
    \/ UnmountStep("handler")
    \/ HandlerExits

HostStep ==
    \/ SignalArrives
    \/ ProcessExits
    \/ \E c \in Chroots : DaemonExits(c)

Running == exited = "no" /\ (MainStep \/ HandlerStep \/ HostStep)

\* The program is gone.
Gone == exited # "no" /\ UNCHANGED vars

Next == Running \/ Gone

\* The Go scheduler runs both goroutines, a process ends, and sync.Mutex hands
\* itself to a waiter that has starved (strong fairness for the handler).
Fairness ==
    /\ WF_vars(exited = "no" /\ MainStep)
    /\ SF_vars(exited = "no" /\ HandlerStep)
    /\ WF_vars(exited = "no" /\ ProcessExits)

Spec == Init /\ [][Next]_vars

FairSpec == Spec /\ Fairness

-----------------------------------------------------------------------------
(* Properties.                                                             *)

\* The handler has taken activeChrootsMutex and is past the point where it
\* waits for main.
InTeardown == pc["handler"] \in {"disallow", "stop", "stopWait", "next", "unmount", "exit"}

\* main is inside a critical section of Initialize or Close.
InMainCritical ==
    \/ pc["main"] \in {"initMount", "unmount"}
    \/ pc["main"] \in {"cmdStart", "cmdWait", "cmdUntrack"} /\ op \in {"clean", "deferred"}

\* The chroot that main is initializing or closing.
InTransition(c) == InMainCritical /\ frame["main"].chroot = c

\* Initialize, Close and the teardown never work on mounts at the same time:
\* from the moment cleanupAllChroots has its lock, main is outside them.
ExclusiveUnmount == ~(InTeardown /\ InMainCritical)

\* os.RemoveAll never runs on a root directory with one of the chroot's mounts
\* (such as the host's /dev) still in it: a chroot that has mounts has its
\* directory.
RemoveOnlyUnmounted == \A c \in Chroots : mounted[c] # {} => rootDir[c]

\* A chroot with mounts can be found: it is in activeChroots (so that a later
\* Close or the teardown unmounts it), or Initialize or Close is at work on it,
\* or Initialize failed and could not undo its own mounts.
MountsAccountedFor ==
    \A c \in Chroots : mounted[c] # {} =>
        \/ IsActive(c)
        \/ InTransition(c)
        \/ c \in stuck /\ ~IsOpen(c)

\* When the teardown unmounts chroots, no process the program started is
\* running, in a chroot or elsewhere.
NoProcessInTeardown ==
    pc["handler"] \in {"next", "unmount", "exit"} =>
        process.state \notin {"running", "killed"}

\* However the program exits, by a signal at any point or by main returning, a
\* chroot is left mounted only if its last unmountAndRemove returned an error.
ExitLeavesNoMounts ==
    exited # "no" => \A c \in Chroots : mounted[c] = {} \/ c \in stuck

\* unmountAndRemove leaves alone the mounts that the chroot did not make: those
\* found in an existing directory stay there.
HostMountsKept ==
    \A c \in ExistingDirs : rootDir[c] => hostMounts[c] = HostMounts[c]

-----------------------------------------------------------------------------
(* The inductive invariant behind the properties (SafeChroot_proofs).      *)

MainInUnmount == pc["main"] = "unmount"
Initializing == pc["main"] \in {"initLock", "initMount"} \/ (MainInUnmount /\ op = "init")
Sweeping == pc["handler"] \in {"next", "unmount", "exit"}

\* Each mutex is held exactly where the code is between its Lock and Unlock.
LocksHeld ==
    /\ activeChrootsMutex = "main" <=> InMainCritical
    /\ activeChrootsMutex = "handler" <=> InTeardown
    /\ activeCommandsMutex = "handler" <=> pc["handler"] = "stopWait"

\* What main is doing fits its program counter.
MainConsistent ==
    /\ pc["main"] \in {"initLock", "initMount"} => op = "init"
    /\ pc["main"] = "initMount" => frame["main"].mount > 0
    /\ pc["main"] = "closeLock" => op \in {"clean", "deferred"}
    /\ pc["main"] \in {"cmdStart", "cmdWait", "cmdUntrack"} => op \in {"job", "clean", "deferred"}
    /\ MainInUnmount => op \in {"init", "clean", "deferred"}
    /\ pc["main"] = "closeLock" \/ Initializing \/ InMainCritical
            => frame["main"].chroot \in Chroots
    /\ pc["main"] = "closeLock" \/ op \in {"clean", "deferred"} => defers # <<>>

\* The teardown's loop variable and cursor are in range.
HandlerConsistent ==
    /\ Sweeping => cleanupIndex <= Len(activeChroots)
    /\ pc["handler"] = "unmount" => frame["handler"].chroot \in Chroots

\* A process of ours exists only while main waits for it, and is killed only
\* by a handler that waits for it too.
ProcessTracked ==
    /\ process.state # "none" => pc["main"] \in {"cmdWait", "cmdUntrack"}
    /\ process.state \in {"running", "killed"} =>
            pc["main"] = "cmdWait" /\ activeCommands # {}
    /\ process.state = "killed" => pc["handler"] = "stopWait"
    /\ pc["handler"] \in {"stop", "stopWait", "next", "unmount", "exit"} =>
            ~allowProcessCreation

\* unmountAndRemove has undone every mount above the one it is at.
UnmountProgress ==
    \A a \in Actors : pc[a] = "unmount" =>
        \A j \in mounted[frame[a].chroot] : j <= frame[a].mount

\* A mount the program made has its flag set.
FlagsCoverMounts == \A c \in Chroots : mounted[c] \subseteq isMounted[c]

\* A chroot that Initialize is working on is not open, one on an existing
\* directory is not active, and once the mounts begin the directory is there.
InitializeFresh ==
    /\ Initializing => ~IsOpen(frame["main"].chroot)
    /\ pc["main"] = "initLock" =>
            /\ ~failing
            /\ frame["main"].chroot \in ExistingDirs => ~IsActive(frame["main"].chroot)
    /\ pc["main"] = "initMount" => rootDir[frame["main"].chroot]
    /\ Initializing /\ pc["main"] # "initLock" => ~IsActive(frame["main"].chroot)

\* Close works on the chroot whose deferred call is next, and, past its first
\* check, on an active one.
CloseOnActive ==
    op \in {"clean", "deferred"} =>
        /\ frame["main"].chroot = LastDefer
        /\ InMainCritical => IsActive(frame["main"].chroot)

\* main gives up once Initialize has left mounts behind.
AbandonedMeansFailing == \A c \in stuck : IsActive(c) \/ failing

\* An active chroot has a deferred Close to come, or could not be unmounted, or
\* has been swept by the teardown.
ActiveOpenOrStuck ==
    \A c \in Chroots : IsActive(c) =>
        \/ IsOpen(c)
        \/ c \in stuck
        \/ mounted[c] = {} /\ InTeardown

\* No chroot is active twice.
ActiveDistinct ==
    \A j, k \in 1 .. Len(activeChroots) : activeChroots[j] = activeChroots[k] => j = k

\* An active chroot that owns its directory has it, until the teardown.
ActiveHasRoot ==
    \A c \in Chroots \ ExistingDirs : IsActive(c) => rootDir[c] \/ InTeardown

\* The teardown has dealt with the chroots above its loop variable.
Swept(k) == mounted[activeChroots[k]] = {} \/ activeChroots[k] \in stuck

SweepProgress ==
    /\ pc["handler"] \in {"next", "exit"} =>
            \A k \in 1 .. Len(activeChroots) : k > cleanupIndex => Swept(k)
    /\ pc["handler"] = "unmount" =>
            /\ cleanupIndex < Len(activeChroots)
            /\ frame["handler"].chroot = activeChroots[cleanupIndex + 1]
            /\ \A k \in 1 .. Len(activeChroots) : k > cleanupIndex + 1 => Swept(k)
    /\ pc["handler"] = "exit" => cleanupIndex = 0

SafeInv ==
    /\ LocksHeld
    /\ MainConsistent
    /\ HandlerConsistent
    /\ ProcessTracked
    /\ NoProcessInTeardown
    /\ UnmountProgress
    /\ FlagsCoverMounts
    /\ RemoveOnlyUnmounted
    /\ InitializeFresh
    /\ CloseOnActive
    /\ AbandonedMeansFailing
    /\ MountsAccountedFor
    /\ ActiveOpenOrStuck
    /\ ActiveDistinct
    /\ ActiveHasRoot
    /\ SweepProgress
    /\ ExitLeavesNoMounts

\* After SIGINT or SIGTERM the program exits: neither goroutine waits for the
\* other for ever.
SignalEndsProgram == signalled ~> exited # "no"
=============================================================================

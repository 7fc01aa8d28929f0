-------------------------- MODULE SafeChroot_proofs --------------------------
(* Theorems about SafeChroot, for any set of chroots and any mounts.        *)
EXTENDS SafeChroot, SequenceTheorems, TLAPS

\* Dropping an entry of activeChroots leaves a sequence of chroots.
LEMMA WithoutType ==
    ASSUME activeChroots \in Seq(Chroots), NEW c
    PROVE  Without(c) \in Seq(Chroots)
<1> DEFINE n == Len(activeChroots)
<1> DEFINE m == IF n = 0 THEN 0 ELSE n - 1
<1>1. n \in Nat /\ m \in Nat /\ 1 .. n - 1 = 1 .. m
  OBVIOUS
<1>2. Without(c) \in [1 .. m -> Chroots]
  BY <1>1 DEF Without
<1> QED
  BY <1>1, <1>2, SeqDef

\* SubSeq drops the last deferred call.
LEMMA PopType ==
    ASSUME NEW S, NEW s \in Seq(S)
    PROVE  /\ SubSeq(s, 1, Len(s) - 1) \in Seq(S)
           /\ s # <<>> => Len(SubSeq(s, 1, Len(s) - 1)) = Len(s) - 1
           /\ \A k \in 1 .. Len(s) - 1 : SubSeq(s, 1, Len(s) - 1)[k] = s[k]
<1> DEFINE n == Len(s) - 1
<1>1. n \in Int /\ n >= -1 /\ (s # <<>> => n >= 0)
  BY EmptySeq
<1>2. \A k \in 1 .. n : s[k] \in S
  BY <1>1, ElementOfSeq
<1> HIDE DEF n
<1>3. /\ SubSeq(s, 1, n) \in Seq(S)
      /\ Len(SubSeq(s, 1, n)) = IF 1 <= n THEN n - 1 + 1 ELSE 0
      /\ \A i \in 1 .. n - 1 + 1 : SubSeq(s, 1, n)[i] = s[1 + i - 1]
  BY <1>1, <1>2, SubSeqProperties
<1>4. n - 1 + 1 = n /\ (s # <<>> => (IF 1 <= n THEN n - 1 + 1 ELSE 0) = n)
  BY <1>1
<1>5. \A i \in 1 .. n : 1 + i - 1 = i
  BY <1>1
<1> QED
  BY <1>3, <1>4, <1>5 DEF n

\* The initial state of the program has its types.
LEMMA TypeInit == Init => TypeOK
<1> SUFFICES ASSUME Init PROVE TypeOK
  OBVIOUS
<1> USE ConstantsAssumption DEF Init, Mounts
<1>1. /\ hostMounts \in [Chroots -> SUBSET Mounts]
      /\ isMounted \in [Chroots -> SUBSET Mounts]
      /\ mounted \in [Chroots -> SUBSET Mounts]
      /\ rootDir \in [Chroots -> BOOLEAN]
  OBVIOUS
<1>2. frame \in [Actors -> Frames]
  BY DEF Frames, Actors
<1>3. pc \in [Actors -> MainLabels \cup HandlerLabels] /\ pc["main"] \in MainLabels
        /\ pc["handler"] \in HandlerLabels
  BY DEF Actors, MainLabels, HandlerLabels
<1>4. process \in [root  : Chroots \cup {NoChroot},
                   state : {"none", "running", "killed", "succeeded", "failed"}]
  BY DEF NoProcess
<1>5. /\ activeChroots \in Seq(Chroots)
      /\ defers \in Seq(Chroots)
      /\ daemon \in [Chroots -> {"none", "alive", "interrupted"}]
      /\ stuck \in SUBSET Chroots
      /\ cleanupIndex \in Nat
  OBVIOUS
<1> QED
  BY <1>1, <1>2, <1>3, <1>4, <1>5 DEF TypeOK

\* The updates of frame keep it a frame.
LEMMA FrameTypes ==
    ASSUME TypeOK, NEW a \in Actors
    PROVE  /\ \A c \in Chroots, lazy \in BOOLEAN : UnmountFrame(c, lazy) \in Frames
           /\ \A i \in 0 .. NumMounts + 1, n \in 0 .. TotalAttempts - 1 :
                 MovedTo(a, i, n) \in Frames
           /\ \A f \in Frames : [frame EXCEPT ![a] = f] \in [Actors -> Frames]
<1>0. frame \in [Actors -> Frames] /\ NumMounts \in Nat /\ TotalAttempts \in Nat \ {0}
  BY ConstantsAssumption DEF TypeOK
<1>1. \A c \in Chroots, lazy \in BOOLEAN : UnmountFrame(c, lazy) \in Frames
  BY <1>0 DEF UnmountFrame, Frames
<1>2. \A i \in 0 .. NumMounts + 1, n \in 0 .. TotalAttempts - 1 : MovedTo(a, i, n) \in Frames
  BY <1>0 DEF MovedTo, Frames
<1> QED
  BY <1>0, <1>1, <1>2

-----------------------------------------------------------------------------
(* The control part of the invariant: types, locks, program counters.      *)

ControlInv == TypeOK /\ LocksHeld /\ MainConsistent /\ HandlerConsistent

\* No lock is held and nothing is in progress when the program starts.
LEMMA ControlInit == Init => ControlInv
<1> SUFFICES ASSUME Init PROVE ControlInv
  OBVIOUS
<1>1. TypeOK
  BY TypeInit
<1>2. LocksHeld /\ MainConsistent /\ HandlerConsistent
  BY DEF Init, LocksHeld, MainConsistent, HandlerConsistent, InMainCritical, InTeardown,
         Initializing, MainInUnmount, Sweeping, Actors
<1> QED
  BY <1>1, <1>2 DEF ControlInv

\* Initialize keeps the control part.
LEMMA ControlInitialize ==
    ASSUME ControlInv,
           \/ \E c \in Chroots : Initialize(c)
           \/ InitializeRoot \/ InitializeRefused
           \/ CreateMountPoint \/ CreateMountPointFails \/ InitializeDone
    PROVE  ControlInv'
<1> USE ConstantsAssumption
<1> USE DEF ControlInv, LocksHeld, MainConsistent, HandlerConsistent, InMainCritical,
            InTeardown, Initializing, MainInUnmount, Sweeping, Goto, chrootVars,
            shellVars, hostVars, mainVars, Actors
<1>0. /\ "main" \in Actors /\ "handler" \in Actors
      /\ NumMounts \in Nat /\ TotalAttempts \in Nat \ {0}
      /\ frame \in [Actors -> Frames]
      /\ activeChroots \in Seq(Chroots)
  BY DEF TypeOK
<1>1. ASSUME NEW c \in Chroots, Initialize(c) PROVE ControlInv'
  <2>1. frame' \in [Actors -> Frames]
    BY <1>1, <1>0, FrameTypes DEF Initialize
  <2>p. /\ pc' \in [Actors -> MainLabels \cup HandlerLabels]
        /\ pc'["main"] \in MainLabels /\ pc'["handler"] \in HandlerLabels
    BY <1>1, <1>0 DEF Initialize, TypeOK, MainLabels, HandlerLabels
  <2>2. TypeOK'
    BY <1>1, <1>0, <2>p, <2>1 DEF Initialize, TypeOK
  <2>3. LocksHeld' /\ MainConsistent' /\ HandlerConsistent'
    BY <1>1, <1>0, <2>1 DEF Initialize, TypeOK, MainLabels, HandlerLabels, UnmountFrame
  <2> QED  BY <2>2, <2>3
<1>2. ASSUME InitializeRoot PROVE ControlInv'
  <2>1. frame' \in [Actors -> Frames]
    BY <1>2, <1>0, FrameTypes DEF InitializeRoot
  <2>p. /\ pc' \in [Actors -> MainLabels \cup HandlerLabels]
        /\ pc'["main"] \in MainLabels /\ pc'["handler"] \in HandlerLabels
    BY <1>2, <1>0 DEF InitializeRoot, TypeOK, MainLabels, HandlerLabels
  <2>2. TypeOK'
    BY <1>2, <1>0, <2>p, <2>1 DEF InitializeRoot, TypeOK
  <2>3. LocksHeld' /\ MainConsistent' /\ HandlerConsistent'
    BY <1>2, <1>0, <2>1 DEF InitializeRoot, TypeOK, MainLabels, HandlerLabels, MovedTo
  <2> QED  BY <2>2, <2>3
<1>3. ASSUME InitializeRefused PROVE ControlInv'
  <2>p. /\ pc' \in [Actors -> MainLabels \cup HandlerLabels]
        /\ pc'["main"] \in MainLabels /\ pc'["handler"] \in HandlerLabels
    BY <1>3, <1>0 DEF InitializeRefused, TypeOK, MainLabels, HandlerLabels
  <2>2. TypeOK'
    BY <1>3, <1>0, <2>p DEF InitializeRefused, TypeOK
  <2>3. LocksHeld' /\ MainConsistent' /\ HandlerConsistent'
    BY <1>3, <1>0 DEF InitializeRefused, TypeOK, MainLabels, HandlerLabels
  <2> QED  BY <2>2, <2>3
<1>4. ASSUME CreateMountPoint PROVE ControlInv'
  <2>a. /\ frame["main"].mount \in 0 .. NumMounts + 1
        /\ frame["main"].mount \in Mounts
        /\ frame["main"].mount + 1 \in 0 .. NumMounts + 1
    BY <1>4, <1>0 DEF CreateMountPoint, TypeOK, Frames, Mounts
  <2>1. frame' \in [Actors -> Frames]
    BY <1>4, <1>0, FrameTypes, <2>a DEF CreateMountPoint
  <2>p. /\ pc' \in [Actors -> MainLabels \cup HandlerLabels]
        /\ pc'["main"] \in MainLabels /\ pc'["handler"] \in HandlerLabels
    BY <1>4, <1>0, <2>a DEF CreateMountPoint, TypeOK, MainLabels, HandlerLabels
  <2>2. TypeOK'
    BY <1>4, <1>0, <2>p, <2>1, <2>a DEF CreateMountPoint, TypeOK, Mounts
  <2>3. LocksHeld' /\ MainConsistent' /\ HandlerConsistent'
    BY <1>4, <1>0, <2>1, <2>a DEF CreateMountPoint, TypeOK, MainLabels, HandlerLabels, MovedTo
  <2> QED  BY <2>2, <2>3
<1>5. ASSUME CreateMountPointFails PROVE ControlInv'
  <2>1. frame' \in [Actors -> Frames]
    BY <1>5, <1>0, FrameTypes DEF CreateMountPointFails
  <2>p. /\ pc' \in [Actors -> MainLabels \cup HandlerLabels]
        /\ pc'["main"] \in MainLabels /\ pc'["handler"] \in HandlerLabels
    BY <1>5, <1>0 DEF CreateMountPointFails, TypeOK, MainLabels, HandlerLabels
  <2>2. TypeOK'
    BY <1>5, <1>0, <2>p, <2>1 DEF CreateMountPointFails, TypeOK
  <2>3. LocksHeld' /\ MainConsistent' /\ HandlerConsistent'
    BY <1>5, <1>0, <2>1 DEF CreateMountPointFails, TypeOK, MainLabels, HandlerLabels, UnmountFrame
  <2> QED  BY <2>2, <2>3
<1>6. ASSUME InitializeDone PROVE ControlInv'
  <2>p. /\ pc' \in [Actors -> MainLabels \cup HandlerLabels]
        /\ pc'["main"] \in MainLabels /\ pc'["handler"] \in HandlerLabels
    BY <1>6, <1>0, AppendProperties DEF InitializeDone, TypeOK, MainLabels, HandlerLabels
  <2>2. TypeOK'
    BY <1>6, <1>0, <2>p, AppendProperties DEF InitializeDone, TypeOK
  <2>3. LocksHeld' /\ MainConsistent' /\ HandlerConsistent'
    BY <1>6, <1>0, AppendProperties DEF InitializeDone, TypeOK, MainLabels, HandlerLabels
  <2> QED  BY <2>2, <2>3
<1> QED
  BY <1>1, <1>2, <1>3, <1>4, <1>5, <1>6

\* Commands keep the control part.
LEMMA ControlCommands ==
    ASSUME ControlInv,
           \/ \E root \in Chroots \cup {NoChroot} : RunCommand(root)
           \/ startCmd \/ startCmdFails \/ ProcessExits
           \/ CommandWaited \/ untrackProcess
           \/ \E c \in Chroots : DaemonExits(c)
    PROVE  ControlInv'
<1> USE ConstantsAssumption
<1> USE DEF ControlInv, LocksHeld, MainConsistent, HandlerConsistent, InMainCritical,
            InTeardown, Initializing, MainInUnmount, Sweeping, Goto, chrootVars,
            shellVars, hostVars, mainVars, Actors
<1>0. /\ "main" \in Actors /\ "handler" \in Actors
      /\ NumMounts \in Nat /\ TotalAttempts \in Nat \ {0}
      /\ frame \in [Actors -> Frames]
      /\ activeChroots \in Seq(Chroots)
  BY DEF TypeOK
<1>1. ASSUME NEW root \in Chroots \cup {NoChroot}, RunCommand(root) PROVE ControlInv'
  <2>p. /\ pc' \in [Actors -> MainLabels \cup HandlerLabels]
        /\ pc'["main"] \in MainLabels /\ pc'["handler"] \in HandlerLabels
    BY <1>1, <1>0 DEF RunCommand, TypeOK, MainLabels, HandlerLabels
  <2>2. TypeOK'
    BY <1>1, <1>0, <2>p DEF RunCommand, TypeOK
  <2>3. LocksHeld' /\ MainConsistent' /\ HandlerConsistent'
    BY <1>1, <1>0 DEF RunCommand, TypeOK, MainLabels, HandlerLabels
  <2> QED  BY <2>2, <2>3
<1>2. ASSUME startCmd PROVE ControlInv'
  <2>p. /\ pc' \in [Actors -> MainLabels \cup HandlerLabels]
        /\ pc'["main"] \in MainLabels /\ pc'["handler"] \in HandlerLabels
    BY <1>2, <1>0 DEF startCmd, MayStart, TypeOK, MainLabels, HandlerLabels
  <2>2. TypeOK'
    BY <1>2, <1>0, <2>p DEF startCmd, MayStart, TypeOK
  <2>3. LocksHeld' /\ MainConsistent' /\ HandlerConsistent'
    BY <1>2, <1>0 DEF startCmd, MayStart, TypeOK, MainLabels, HandlerLabels
  <2> QED  BY <2>2, <2>3
<1>3. ASSUME startCmdFails PROVE ControlInv'
  <2>a. op # "job" => frame["main"].chroot \in Chroots
    BY <1>3 DEF startCmdFails, AfterFailedCommand
  <2>1. frame' \in [Actors -> Frames]
    BY <1>3, <1>0, FrameTypes, <2>a DEF startCmdFails, AfterFailedCommand
  <2>b. pc' = [pc EXCEPT !["main"] = "run"] \/ pc' = [pc EXCEPT !["main"] = "unmount"]
    BY <1>3 DEF startCmdFails, AfterFailedCommand
  <2>p. /\ pc' \in [Actors -> MainLabels \cup HandlerLabels]
        /\ pc'["main"] \in MainLabels /\ pc'["handler"] \in HandlerLabels
    BY <2>b DEF TypeOK, MainLabels, HandlerLabels
  <2>2. TypeOK'
    BY <1>3, <1>0, <2>p, <2>1 DEF startCmdFails, AfterFailedCommand, TypeOK, NoProcess
  <2>3. LocksHeld' /\ MainConsistent' /\ HandlerConsistent'
    BY <1>3, <1>0, <2>1, <2>a DEF startCmdFails, AfterFailedCommand, TypeOK, MainLabels, HandlerLabels, UnmountFrame
  <2> QED  BY <2>2, <2>3
<1>4. ASSUME ProcessExits PROVE ControlInv'
  <2>p. /\ pc' \in [Actors -> MainLabels \cup HandlerLabels]
        /\ pc'["main"] \in MainLabels /\ pc'["handler"] \in HandlerLabels
    BY <1>4, <1>0 DEF ProcessExits, TypeOK, MainLabels, HandlerLabels
  <2>2. TypeOK'
    BY <1>4, <1>0, <2>p DEF ProcessExits, TypeOK
  <2>3. LocksHeld' /\ MainConsistent' /\ HandlerConsistent'
    BY <1>4, <1>0 DEF ProcessExits, TypeOK, MainLabels, HandlerLabels
  <2> QED  BY <2>2, <2>3
<1>5. ASSUME CommandWaited PROVE ControlInv'
  <2>p. /\ pc' \in [Actors -> MainLabels \cup HandlerLabels]
        /\ pc'["main"] \in MainLabels /\ pc'["handler"] \in HandlerLabels
    BY <1>5, <1>0 DEF CommandWaited, TypeOK, MainLabels, HandlerLabels
  <2>2. TypeOK'
    BY <1>5, <1>0, <2>p DEF CommandWaited, TypeOK
  <2>3. LocksHeld' /\ MainConsistent' /\ HandlerConsistent'
    BY <1>5, <1>0 DEF CommandWaited, TypeOK, MainLabels, HandlerLabels
  <2> QED  BY <2>2, <2>3
<1>6. ASSUME untrackProcess PROVE ControlInv'
  <2>a. op # "job" => frame["main"].chroot \in Chroots
    BY <1>6 DEF untrackProcess, stopRunningProcesses, AfterFailedCommand
  <2>1. frame' \in [Actors -> Frames]
    BY <1>6, <1>0, FrameTypes, <2>a DEF untrackProcess, stopRunningProcesses, AfterFailedCommand
  <2>b. pc' = [pc EXCEPT !["main"] = "run"] \/ pc' = [pc EXCEPT !["main"] = "unmount"]
    BY <1>6 DEF untrackProcess, stopRunningProcesses, AfterFailedCommand
  <2>p. /\ pc' \in [Actors -> MainLabels \cup HandlerLabels]
        /\ pc'["main"] \in MainLabels /\ pc'["handler"] \in HandlerLabels
    BY <2>b DEF TypeOK, MainLabels, HandlerLabels
  <2>2. TypeOK'
    BY <1>6, <1>0, <2>p, <2>1 DEF untrackProcess, stopRunningProcesses, AfterFailedCommand, TypeOK, NoProcess
  <2>3. LocksHeld' /\ MainConsistent' /\ HandlerConsistent'
    BY <1>6, <1>0, <2>1, <2>a DEF untrackProcess, stopRunningProcesses, AfterFailedCommand, TypeOK, MainLabels, HandlerLabels, UnmountFrame
  <2> QED  BY <2>2, <2>3
<1>7. ASSUME NEW c \in Chroots, DaemonExits(c) PROVE ControlInv'
  <2>p. /\ pc' \in [Actors -> MainLabels \cup HandlerLabels]
        /\ pc'["main"] \in MainLabels /\ pc'["handler"] \in HandlerLabels
    BY <1>7, <1>0 DEF DaemonExits, TypeOK, MainLabels, HandlerLabels
  <2>2. TypeOK'
    BY <1>7, <1>0, <2>p DEF DaemonExits, TypeOK
  <2>3. LocksHeld' /\ MainConsistent' /\ HandlerConsistent'
    BY <1>7, <1>0 DEF DaemonExits, TypeOK, MainLabels, HandlerLabels
  <2> QED  BY <2>2, <2>3
<1> QED
  BY <1>1, <1>2, <1>3, <1>4, <1>5, <1>6, <1>7

\* Returning from Close keeps the types.
LEMMA ReturnTypes ==
    ASSUME ControlInv, NEW ok \in BOOLEAN, ReturnFromClose(ok)
    PROVE  /\ op' = "none" /\ failing' \in BOOLEAN /\ defers' \in Seq(Chroots)
           /\ pc' = [pc EXCEPT !["main"] = pc'["main"]]
           /\ pc'["main"] \in {"closeReturn", "run"}
  BY PopType DEF ReturnFromClose, ControlInv, TypeOK, Goto, Actors

\* Close keeps the control part.
LEMMA ControlClose ==
    ASSUME ControlInv,
           \/ \E kind \in {"clean", "deferred"} : Close(kind)
           \/ CloseAlreadyClosed \/ CloseActive
    PROVE  ControlInv'
<1> USE ConstantsAssumption
<1> USE DEF ControlInv, LocksHeld, MainConsistent, HandlerConsistent, InMainCritical,
            InTeardown, Initializing, MainInUnmount, Sweeping, Goto, chrootVars,
            shellVars, hostVars, mainVars, Actors
<1>0. /\ "main" \in Actors /\ "handler" \in Actors
      /\ NumMounts \in Nat /\ TotalAttempts \in Nat \ {0}
      /\ frame \in [Actors -> Frames]
      /\ activeChroots \in Seq(Chroots)
  BY DEF TypeOK
<1>1. ASSUME NEW kind \in {"clean", "deferred"}, Close(kind) PROVE ControlInv'
  <2>a. LastDefer \in Chroots
    BY <1>1, EmptySeq, ElementOfSeq DEF Close, LastDefer, TypeOK
  <2>c. op' \in {"none", "init", "job", "clean", "deferred"}
    BY <1>1 DEF Close
  <2>1. frame' \in [Actors -> Frames]
    BY <1>1, <1>0, FrameTypes, <2>a DEF Close
  <2>b. pc' = [pc EXCEPT !["main"] = "closeLock"]
    BY <1>1 DEF Close
  <2>p. /\ pc' \in [Actors -> MainLabels \cup HandlerLabels]
        /\ pc'["main"] \in MainLabels /\ pc'["handler"] \in HandlerLabels
    BY <2>b DEF TypeOK, MainLabels, HandlerLabels
  <2>u. UNCHANGED <<chrootVars, shellVars, hostVars, daemon, exited, signalled,
                   failing, defers, cleanupIndex>>
    BY <1>1 DEF Close
  <2>2. TypeOK'
    BY <2>u, <2>p, <2>1, <2>c DEF TypeOK
  <2>3. LocksHeld' /\ MainConsistent' /\ HandlerConsistent'
    BY <1>1, <1>0, <2>1, <2>a DEF Close, TypeOK, MainLabels, HandlerLabels, UnmountFrame
  <2> QED  BY <2>2, <2>3
<1>2. ASSUME CloseAlreadyClosed PROVE ControlInv'
  <2>a. /\ op' = "none" /\ failing' \in BOOLEAN /\ defers' \in Seq(Chroots)
        /\ pc' = [pc EXCEPT !["main"] = pc'["main"]]
        /\ pc'["main"] \in {"closeReturn", "run"}
    BY <1>2, ReturnTypes DEF CloseAlreadyClosed
  <2>p. /\ pc' \in [Actors -> MainLabels \cup HandlerLabels]
        /\ pc'["main"] \in MainLabels /\ pc'["handler"] \in HandlerLabels
    BY <1>2, <1>0, <2>a DEF CloseAlreadyClosed, TypeOK, MainLabels, HandlerLabels
  <2>2. TypeOK'
    BY <1>2, <1>0, <2>p, <2>a DEF CloseAlreadyClosed, TypeOK
  <2>3. LocksHeld' /\ MainConsistent' /\ HandlerConsistent'
    BY <1>2, <1>0, <2>a DEF CloseAlreadyClosed, TypeOK, MainLabels, HandlerLabels
  <2> QED  BY <2>2, <2>3
<1>3. ASSUME CloseActive PROVE ControlInv'
  <2>p. /\ pc' \in [Actors -> MainLabels \cup HandlerLabels]
        /\ pc'["main"] \in MainLabels /\ pc'["handler"] \in HandlerLabels
    BY <1>3, <1>0 DEF CloseActive, CloseMayEnter, TypeOK, MainLabels, HandlerLabels
  <2>2. TypeOK'
    BY <1>3, <1>0, <2>p DEF CloseActive, CloseMayEnter, TypeOK, NoProcess
  <2>3. LocksHeld' /\ MainConsistent' /\ HandlerConsistent'
    BY <1>3, <1>0 DEF CloseActive, CloseMayEnter, TypeOK, MainLabels, HandlerLabels, NoProcess
  <2> QED  BY <2>2, <2>3
<1> QED
  BY <1>1, <1>2, <1>3

\* What UnmountReturns changes keeps its type, and the locks follow.
LEMMA ControlReturns ==
    ASSUME ControlInv, NEW a \in Actors, NEW ok \in BOOLEAN, pc[a] = "unmount",
           UnmountReturns(a, ok),
           UNCHANGED <<isMounted, shellVars, mounted, hostMounts, daemon, exited,
                       signalled, cleanupIndex>>,
           rootDir' \in [Chroots -> BOOLEAN]
    PROVE  ControlInv'
<1> USE ConstantsAssumption
<1> USE DEF ControlInv, LocksHeld, MainConsistent, HandlerConsistent, InMainCritical,
            InTeardown, Initializing, MainInUnmount, Sweeping, Goto, chrootVars,
            shellVars, hostVars, mainVars, Actors
<1>0. /\ "main" \in Actors /\ "handler" \in Actors
      /\ NumMounts \in Nat /\ TotalAttempts \in Nat \ {0}
      /\ frame \in [Actors -> Frames]
      /\ activeChroots \in Seq(Chroots)
  BY DEF TypeOK
<1>1. frame[a].chroot \in Chroots
  OBVIOUS
<1>2. CASE a = "handler"
  <2>1. TypeOK'
    BY <1>1, <1>2 DEF UnmountReturns, TypeOK, HandlerLabels, MainLabels
  <2>2. LocksHeld' /\ MainConsistent' /\ HandlerConsistent'
    BY <1>2 DEF UnmountReturns, TypeOK, HandlerLabels, MainLabels
  <2> QED  BY <2>1, <2>2
<1>3. CASE a = "main" /\ op = "init"
  <2>1. TypeOK'
    BY <1>1, <1>3 DEF UnmountReturns, TypeOK, HandlerLabels, MainLabels
  <2>2. LocksHeld' /\ MainConsistent' /\ HandlerConsistent'
    BY <1>3 DEF UnmountReturns, TypeOK, HandlerLabels, MainLabels
  <2> QED  BY <2>1, <2>2
<1>4. CASE a = "main" /\ op # "init" /\ ~ok /\ ~frame[a].lazy
  <2>1. frame' \in [Actors -> Frames]
    BY <1>1, <1>4, FrameTypes DEF UnmountReturns
  <2>2. TypeOK'
    BY <1>4, <2>1 DEF UnmountReturns, TypeOK
  <2>3. LocksHeld' /\ MainConsistent' /\ HandlerConsistent'
    BY <1>1, <1>4 DEF UnmountReturns, UnmountFrame, TypeOK, HandlerLabels, MainLabels
  <2> QED  BY <2>2, <2>3
<1>5. CASE a = "main" /\ op # "init" /\ ~(~ok /\ ~frame[a].lazy)
  <2>1. activeChroots' \in Seq(Chroots)
    <3>1. activeChroots' = ActiveAfterClose(frame[a].chroot, ok)
      BY <1>5 DEF UnmountReturns
    <3>2. Without(frame[a].chroot) \in Seq(Chroots)
      BY <1>0, WithoutType
    <3> QED  BY <1>0, <3>1, <3>2 DEF ActiveAfterClose
  <2>2. ReturnFromClose(ok)
    BY <1>5 DEF UnmountReturns
  <2>p. /\ op' = "none" /\ failing' \in BOOLEAN /\ defers' \in Seq(Chroots)
        /\ pc' = [pc EXCEPT !["main"] = pc'["main"]]
        /\ pc'["main"] \in {"closeReturn", "run"}
    BY <2>2, ReturnTypes
  <2>q. /\ pc' \in [Actors -> MainLabels \cup HandlerLabels]
        /\ pc'["main"] \in MainLabels /\ pc'["handler"] \in HandlerLabels
    BY <2>p DEF TypeOK, HandlerLabels, MainLabels
  <2>3. TypeOK'
    <3>0. stuck \in SUBSET Chroots
      BY DEF TypeOK
    <3>1. activeChrootsMutex' = "free" /\ UNCHANGED frame
      BY <1>5 DEF UnmountReturns
    <3>2. stuck' \in SUBSET Chroots
      BY <1>1, <1>5, <3>0 DEF UnmountReturns
    <3> QED  BY <2>1, <2>p, <2>q, <3>1, <3>2 DEF TypeOK
  <2>4. LocksHeld' /\ MainConsistent' /\ HandlerConsistent'
    BY <1>1, <1>5, <2>2, ReturnTypes DEF UnmountReturns, TypeOK, HandlerLabels, MainLabels
  <2> QED  BY <2>3, <2>4
<1> QED
  BY <1>2, <1>3, <1>4, <1>5

\* unmountAndRemove keeps the control part.
LEMMA ControlUnmount ==
    ASSUME ControlInv, NEW a \in Actors, UnmountStep(a)
    PROVE  ControlInv'
<1> USE ConstantsAssumption
<1> USE DEF ControlInv, LocksHeld, MainConsistent, HandlerConsistent, InMainCritical,
            InTeardown, Initializing, MainInUnmount, Sweeping, Goto, chrootVars,
            shellVars, hostVars, mainVars, Actors
<1>0. /\ "main" \in Actors /\ "handler" \in Actors
      /\ NumMounts \in Nat /\ TotalAttempts \in Nat \ {0}
      /\ frame \in [Actors -> Frames]
      /\ activeChroots \in Seq(Chroots)
  BY DEF TypeOK
<1>1. ASSUME UnmountSkip(a) PROVE ControlInv'
  <2>a. frame[a].mount - 1 \in 0 .. NumMounts + 1 /\ 0 \in 0 .. TotalAttempts - 1
    BY <1>1, <1>0 DEF UnmountSkip, TypeOK, Frames
  <2>1. frame' \in [Actors -> Frames]
    BY <1>1, <1>0, FrameTypes, <2>a DEF UnmountSkip
  <2>p. /\ pc' \in [Actors -> MainLabels \cup HandlerLabels]
        /\ pc'["main"] \in MainLabels /\ pc'["handler"] \in HandlerLabels
    BY <1>1, <1>0 DEF UnmountSkip, TypeOK, MainLabels, HandlerLabels
  <2>2. TypeOK'
    BY <1>1, <1>0, <2>p, <2>1 DEF UnmountSkip, TypeOK
  <2>3. LocksHeld' /\ MainConsistent' /\ HandlerConsistent'
    BY <1>1, <1>0, <2>1 DEF UnmountSkip, TypeOK, MainLabels, HandlerLabels, MovedTo
  <2> QED  BY <2>2, <2>3
<1>2. ASSUME UnmountSucceeds(a) PROVE ControlInv'
  <2>a. frame[a].mount - 1 \in 0 .. NumMounts + 1 /\ 0 \in 0 .. TotalAttempts - 1
    BY <1>2, <1>0 DEF UnmountSucceeds, CanTryUnmount, TypeOK, Frames
  <2>1. frame' \in [Actors -> Frames]
    BY <1>2, <1>0, FrameTypes, <2>a DEF UnmountSucceeds, CanTryUnmount
  <2>p. /\ pc' \in [Actors -> MainLabels \cup HandlerLabels]
        /\ pc'["main"] \in MainLabels /\ pc'["handler"] \in HandlerLabels
    BY <1>2, <1>0 DEF UnmountSucceeds, CanTryUnmount, TypeOK, MainLabels, HandlerLabels
  <2>2. TypeOK'
    BY <1>2, <1>0, <2>p, <2>1 DEF UnmountSucceeds, CanTryUnmount, TypeOK
  <2>3. LocksHeld' /\ MainConsistent' /\ HandlerConsistent'
    BY <1>2, <1>0, <2>1 DEF UnmountSucceeds, CanTryUnmount, TypeOK, MainLabels, HandlerLabels, MovedTo
  <2> QED  BY <2>2, <2>3
<1>3. ASSUME UnmountRetries(a) PROVE ControlInv'
  <2>a. frame[a].mount \in 0 .. NumMounts + 1 /\ frame[a].attempt + 1 \in 0 .. TotalAttempts - 1
    BY <1>3, <1>0 DEF UnmountRetries, CanTryUnmount, MoreAttempts, TypeOK, Frames
  <2>1. frame' \in [Actors -> Frames]
    BY <1>3, <1>0, FrameTypes, <2>a DEF UnmountRetries, CanTryUnmount, MoreAttempts
  <2>p. /\ pc' \in [Actors -> MainLabels \cup HandlerLabels]
        /\ pc'["main"] \in MainLabels /\ pc'["handler"] \in HandlerLabels
    BY <1>3, <1>0 DEF UnmountRetries, CanTryUnmount, MoreAttempts, TypeOK, MainLabels, HandlerLabels
  <2>2. TypeOK'
    BY <1>3, <1>0, <2>p, <2>1 DEF UnmountRetries, CanTryUnmount, MoreAttempts, TypeOK
  <2>3. LocksHeld' /\ MainConsistent' /\ HandlerConsistent'
    BY <1>3, <1>0, <2>1 DEF UnmountRetries, CanTryUnmount, MoreAttempts, TypeOK, MainLabels, HandlerLabels, MovedTo
  <2> QED  BY <2>2, <2>3
<1>4. ASSUME UnmountGivesUp(a) PROVE ControlInv'
  <2>1. rootDir' \in [Chroots -> BOOLEAN] /\ pc[a] = "unmount"
    BY <1>4 DEF UnmountGivesUp, CanTryUnmount, TypeOK
  <2> QED  BY <1>4, <2>1, ControlReturns DEF UnmountGivesUp, CanTryUnmount
<1>5. ASSUME UnmountCheckFails(a) PROVE ControlInv'
  <2>1. rootDir' \in [Chroots -> BOOLEAN] /\ pc[a] = "unmount"
    BY <1>5 DEF UnmountCheckFails, TypeOK
  <2> QED  BY <1>5, <2>1, ControlReturns DEF UnmountCheckFails
<1>6. ASSUME RemoveRoot(a) PROVE ControlInv'
  <2>1. rootDir' \in [Chroots -> BOOLEAN] /\ pc[a] = "unmount"
    BY <1>6 DEF RemoveRoot, TypeOK
  <2> QED  BY <1>6, <2>1, ControlReturns DEF RemoveRoot
<1>7. ASSUME RemoveRootFails(a) PROVE ControlInv'
  <2>1. rootDir' \in [Chroots -> BOOLEAN] /\ pc[a] = "unmount"
    BY <1>7 DEF RemoveRootFails, TypeOK
  <2> QED  BY <1>7, <2>1, ControlReturns DEF RemoveRootFails
<1> QED
  BY <1>1, <1>2, <1>3, <1>4, <1>5, <1>6, <1>7 DEF UnmountStep

\* The signal goroutine and the end of the program keep the control part.
LEMMA ControlHandler ==
    ASSUME ControlInv,
           \/ SignalArrives \/ cleanupAllChrootsOnSignal \/ cleanupAllChroots
           \/ PermanentlyStopAllChildProcesses \/ StopAllChildProcesses
           \/ StopAllChildProcessesWaited \/ CleanupNext
           \/ HandlerExits \/ MainExits
    PROVE  ControlInv'
<1> USE ConstantsAssumption
<1> USE DEF ControlInv, LocksHeld, MainConsistent, HandlerConsistent, InMainCritical,
            InTeardown, Initializing, MainInUnmount, Sweeping, Goto, chrootVars,
            shellVars, hostVars, mainVars, Actors
<1>0. /\ "main" \in Actors /\ "handler" \in Actors
      /\ NumMounts \in Nat /\ TotalAttempts \in Nat \ {0}
      /\ frame \in [Actors -> Frames]
      /\ activeChroots \in Seq(Chroots)
  BY DEF TypeOK
<1>1. ASSUME SignalArrives PROVE ControlInv'
  <2>p. /\ pc' \in [Actors -> MainLabels \cup HandlerLabels]
        /\ pc'["main"] \in MainLabels /\ pc'["handler"] \in HandlerLabels
    BY <1>1, <1>0 DEF SignalArrives, TypeOK, MainLabels, HandlerLabels
  <2>2. TypeOK'
    BY <1>1, <1>0, <2>p DEF SignalArrives, TypeOK
  <2>3. LocksHeld' /\ MainConsistent' /\ HandlerConsistent'
    BY <1>1, <1>0 DEF SignalArrives, TypeOK, MainLabels, HandlerLabels
  <2> QED  BY <2>2, <2>3
<1>2. ASSUME cleanupAllChrootsOnSignal PROVE ControlInv'
  <2>p. /\ pc' \in [Actors -> MainLabels \cup HandlerLabels]
        /\ pc'["main"] \in MainLabels /\ pc'["handler"] \in HandlerLabels
    BY <1>2, <1>0 DEF cleanupAllChrootsOnSignal, TypeOK, MainLabels, HandlerLabels
  <2>2. TypeOK'
    BY <1>2, <1>0, <2>p DEF cleanupAllChrootsOnSignal, TypeOK
  <2>3. LocksHeld' /\ MainConsistent' /\ HandlerConsistent'
    BY <1>2, <1>0 DEF cleanupAllChrootsOnSignal, TypeOK, MainLabels, HandlerLabels
  <2> QED  BY <2>2, <2>3
<1>3. ASSUME cleanupAllChroots PROVE ControlInv'
  <2>p. /\ pc' \in [Actors -> MainLabels \cup HandlerLabels]
        /\ pc'["main"] \in MainLabels /\ pc'["handler"] \in HandlerLabels
    BY <1>3, <1>0 DEF cleanupAllChroots, TypeOK, MainLabels, HandlerLabels
  <2>2. TypeOK'
    BY <1>3, <1>0, <2>p DEF cleanupAllChroots, TypeOK
  <2>3. LocksHeld' /\ MainConsistent' /\ HandlerConsistent'
    BY <1>3, <1>0 DEF cleanupAllChroots, TypeOK, MainLabels, HandlerLabels
  <2> QED  BY <2>2, <2>3
<1>4. ASSUME PermanentlyStopAllChildProcesses PROVE ControlInv'
  <2>p. /\ pc' \in [Actors -> MainLabels \cup HandlerLabels]
        /\ pc'["main"] \in MainLabels /\ pc'["handler"] \in HandlerLabels
    BY <1>4, <1>0 DEF PermanentlyStopAllChildProcesses, TypeOK, MainLabels, HandlerLabels
  <2>2. TypeOK'
    BY <1>4, <1>0, <2>p DEF PermanentlyStopAllChildProcesses, TypeOK
  <2>3. LocksHeld' /\ MainConsistent' /\ HandlerConsistent'
    BY <1>4, <1>0 DEF PermanentlyStopAllChildProcesses, TypeOK, MainLabels, HandlerLabels
  <2> QED  BY <2>2, <2>3
<1>5. ASSUME StopAllChildProcesses PROVE ControlInv'
  <2>p. /\ pc' \in [Actors -> MainLabels \cup HandlerLabels]
        /\ pc'["main"] \in MainLabels /\ pc'["handler"] \in HandlerLabels
    BY <1>5, <1>0 DEF StopAllChildProcesses, CleanupStart, TypeOK, MainLabels, HandlerLabels
  <2>2. TypeOK'
    BY <1>5, <1>0, <2>p DEF StopAllChildProcesses, CleanupStart, TypeOK
  <2>3. LocksHeld' /\ MainConsistent' /\ HandlerConsistent'
    BY <1>5, <1>0 DEF StopAllChildProcesses, CleanupStart, TypeOK, MainLabels, HandlerLabels
  <2> QED  BY <2>2, <2>3
<1>6. ASSUME StopAllChildProcessesWaited PROVE ControlInv'
  <2>p. /\ pc' \in [Actors -> MainLabels \cup HandlerLabels]
        /\ pc'["main"] \in MainLabels /\ pc'["handler"] \in HandlerLabels
    BY <1>6, <1>0 DEF StopAllChildProcessesWaited, CleanupStart, TypeOK, MainLabels, HandlerLabels
  <2>2. TypeOK'
    BY <1>6, <1>0, <2>p DEF StopAllChildProcessesWaited, CleanupStart, TypeOK
  <2>3. LocksHeld' /\ MainConsistent' /\ HandlerConsistent'
    BY <1>6, <1>0 DEF StopAllChildProcessesWaited, CleanupStart, TypeOK, MainLabels, HandlerLabels
  <2> QED  BY <2>2, <2>3
<1>7. ASSUME CleanupNext PROVE ControlInv'
  <2>a. cleanupIndex > 0 => activeChroots[cleanupIndex] \in Chroots
    BY <1>7, <1>0, ElementOfSeq DEF CleanupNext, TypeOK
  <2>d. cleanupIndex \in Nat
    BY DEF TypeOK
  <2>e. cleanupIndex' = (IF cleanupIndex > 0 THEN cleanupIndex - 1 ELSE cleanupIndex)
    BY <1>7 DEF CleanupNext
  <2>c. cleanupIndex' \in Nat
    BY <2>d, <2>e
  <2>1. frame' \in [Actors -> Frames]
    BY <1>7, <1>0, FrameTypes, <2>a DEF CleanupNext
  <2>b. pc' = [pc EXCEPT !["handler"] = "unmount"] \/ pc' = [pc EXCEPT !["handler"] = "exit"]
    BY <1>7 DEF CleanupNext
  <2>p. /\ pc' \in [Actors -> MainLabels \cup HandlerLabels]
        /\ pc'["main"] \in MainLabels /\ pc'["handler"] \in HandlerLabels
    BY <2>b DEF TypeOK, MainLabels, HandlerLabels
  <2>u. UNCHANGED <<chrootVars, shellVars, hostVars, daemon, exited, signalled, mainVars>>
    BY <1>7 DEF CleanupNext
  <2>2. TypeOK'
    BY <2>u, <2>p, <2>1, <2>c DEF TypeOK
  <2>3. LocksHeld' /\ MainConsistent' /\ HandlerConsistent'
    BY <1>7, <1>0, <2>1, <2>a DEF CleanupNext, TypeOK, MainLabels, HandlerLabels, UnmountFrame
  <2> QED  BY <2>2, <2>3
<1>8. ASSUME HandlerExits PROVE ControlInv'
  <2>p. /\ pc' \in [Actors -> MainLabels \cup HandlerLabels]
        /\ pc'["main"] \in MainLabels /\ pc'["handler"] \in HandlerLabels
    BY <1>8, <1>0 DEF HandlerExits, TypeOK, MainLabels, HandlerLabels
  <2>2. TypeOK'
    BY <1>8, <1>0, <2>p DEF HandlerExits, TypeOK
  <2>3. LocksHeld' /\ MainConsistent' /\ HandlerConsistent'
    BY <1>8, <1>0 DEF HandlerExits, TypeOK, MainLabels, HandlerLabels
  <2> QED  BY <2>2, <2>3
<1>9. ASSUME MainExits PROVE ControlInv'
  <2>p. /\ pc' \in [Actors -> MainLabels \cup HandlerLabels]
        /\ pc'["main"] \in MainLabels /\ pc'["handler"] \in HandlerLabels
    BY <1>9, <1>0 DEF MainExits, TypeOK, MainLabels, HandlerLabels
  <2>2. TypeOK'
    BY <1>9, <1>0, <2>p DEF MainExits, TypeOK
  <2>3. LocksHeld' /\ MainConsistent' /\ HandlerConsistent'
    BY <1>9, <1>0 DEF MainExits, TypeOK, MainLabels, HandlerLabels
  <2> QED  BY <2>2, <2>3
<1> QED
  BY <1>1, <1>2, <1>3, <1>4, <1>5, <1>6, <1>7, <1>8, <1>9

\* Every step keeps the control part.
LEMMA ControlNext == ControlInv /\ [Next]_vars => ControlInv'
<1> SUFFICES ASSUME ControlInv, [Next]_vars PROVE ControlInv'
  OBVIOUS
<1>1. CASE UNCHANGED vars
  BY <1>1 DEF ControlInv, TypeOK, LocksHeld, MainConsistent, HandlerConsistent, vars,
              InMainCritical, InTeardown, Initializing, MainInUnmount, Sweeping
<1>2. CASE MainStep
  BY <1>2, ControlInitialize, ControlCommands, ControlClose, ControlUnmount, ControlHandler
     DEF MainStep, Actors
<1>3. CASE HandlerStep
  BY <1>3, ControlUnmount, ControlHandler DEF HandlerStep, Actors
<1>4. CASE HostStep
  BY <1>4, ControlCommands, ControlHandler DEF HostStep
<1> QED
  BY <1>1, <1>2, <1>3, <1>4 DEF Next, Running, Gone

\* The variables keep their types, and the control part holds, in every
\* reachable state.
THEOREM ControlAlways == Spec => []ControlInv
  BY ControlInit, ControlNext, PTL DEF Spec

\* Type correctness: in particular a retried unmount (retry.go) never starts more
\* attempts than it has, and no mount cursor leaves the list of mount points.
THEOREM TypeCorrect == Spec => []TypeOK
<1>1. ControlInv => TypeOK
  BY DEF ControlInv
<1> QED
  BY <1>1, ControlAlways, PTL

-----------------------------------------------------------------------------
(* Processes and the teardown.                                             *)

\* Initialize, Close and the teardown exclude each other.
THEOREM TeardownExcludesMain == Spec => []ExclusiveUnmount
<1>1. ControlInv => ExclusiveUnmount
  BY DEF ControlInv, LocksHeld, ExclusiveUnmount
<1> QED
  BY <1>1, ControlAlways, PTL

ProcessInv == ProcessTracked /\ NoProcessInTeardown

\* No process runs and none is tracked when the program starts.
LEMMA ProcessInit == Init => ProcessInv
  BY DEF Init, ProcessInv, ProcessTracked, NoProcessInTeardown, NoProcess, Actors

\* Every step keeps the processes of internal/shell tracked.
LEMMA ProcessNext == ControlInv /\ ControlInv' /\ ProcessInv /\ [Next]_vars => ProcessInv'
<1> SUFFICES ASSUME ControlInv, ControlInv', ProcessInv, [Next]_vars PROVE ProcessInv'
  OBVIOUS
<1> USE DEF ProcessInv, ProcessTracked, NoProcessInTeardown, Goto, chrootVars,
            shellVars, hostVars, mainVars, Actors
<1>0. /\ pc \in [Actors -> MainLabels \cup HandlerLabels]
      /\ process \in [root  : Chroots \cup {NoChroot},
                      state : {"none", "running", "killed", "succeeded", "failed"}]
      /\ pc["handler"] \in HandlerLabels
      /\ activeCommandsMutex = "handler" <=> pc["handler"] = "stopWait"
  BY DEF ControlInv, TypeOK, LocksHeld
<1>u. CASE UNCHANGED vars
  BY <1>u DEF vars
<1>1. ASSUME NEW c \in Chroots, Initialize(c) PROVE ProcessInv'
  BY <1>0, <1>1 DEF Initialize
<1>2. ASSUME InitializeRoot PROVE ProcessInv'
  BY <1>0, <1>2 DEF InitializeRoot
<1>3. ASSUME InitializeRefused PROVE ProcessInv'
  BY <1>0, <1>3 DEF InitializeRefused
<1>4. ASSUME CreateMountPoint PROVE ProcessInv'
  BY <1>0, <1>4 DEF CreateMountPoint
<1>5. ASSUME CreateMountPointFails PROVE ProcessInv'
  BY <1>0, <1>5 DEF CreateMountPointFails
<1>6. ASSUME InitializeDone PROVE ProcessInv'
  BY <1>0, <1>6 DEF InitializeDone
<1>7. ASSUME NEW root \in Chroots \cup {NoChroot}, RunCommand(root) PROVE ProcessInv'
  BY <1>0, <1>7 DEF RunCommand
<1>8. ASSUME startCmd PROVE ProcessInv'
  BY <1>0, <1>8 DEF startCmd, MayStart
<1>9. ASSUME startCmdFails PROVE ProcessInv'
  BY <1>0, <1>9 DEF startCmdFails, AfterFailedCommand, NoProcess
<1>10. ASSUME ProcessExits PROVE ProcessInv'
  BY <1>0, <1>10 DEF ProcessExits
<1>11. ASSUME CommandWaited PROVE ProcessInv'
  BY <1>0, <1>11 DEF CommandWaited
<1>12. ASSUME untrackProcess PROVE ProcessInv'
  BY <1>0, <1>12 DEF untrackProcess, stopRunningProcesses, AfterFailedCommand, NoProcess
<1>13. ASSUME NEW c \in Chroots, DaemonExits(c) PROVE ProcessInv'
  BY <1>0, <1>13 DEF DaemonExits
<1>14. ASSUME NEW kind \in {"clean", "deferred"}, Close(kind) PROVE ProcessInv'
  BY <1>0, <1>14 DEF Close
<1>15. ASSUME CloseAlreadyClosed PROVE ProcessInv'
  BY <1>0, <1>15 DEF CloseAlreadyClosed, ReturnFromClose
<1>16. ASSUME CloseActive PROVE ProcessInv'
  BY <1>0, <1>16 DEF CloseActive, CloseMayEnter, NoProcess
<1>17. ASSUME NEW a \in Actors, UnmountStep(a) PROVE ProcessInv'
  <2>1. /\ UNCHANGED shellVars
        /\ pc[a] = "unmount"
        /\ \/ UNCHANGED pc
           \/ pc' = [pc EXCEPT ![a] = "next"] /\ a = "handler"
           \/ pc' = [pc EXCEPT ![a] = "run"] /\ a = "main"
           \/ pc' = [pc EXCEPT ![a] = "closeReturn"] /\ a = "main"
    BY <1>17 DEF UnmountStep, UnmountSkip, UnmountSucceeds, UnmountRetries, UnmountGivesUp,
       UnmountCheckFails, RemoveRoot, RemoveRootFails, CanTryUnmount, UnmountReturns,
       ReturnFromClose
  <2> QED  BY <1>0, <2>1
<1>18. ASSUME SignalArrives PROVE ProcessInv'
  BY <1>0, <1>18 DEF SignalArrives
<1>19. ASSUME cleanupAllChrootsOnSignal PROVE ProcessInv'
  BY <1>0, <1>19 DEF cleanupAllChrootsOnSignal
<1>20. ASSUME cleanupAllChroots PROVE ProcessInv'
  BY <1>0, <1>20 DEF cleanupAllChroots
<1>21. ASSUME PermanentlyStopAllChildProcesses PROVE ProcessInv'
  BY <1>0, <1>21 DEF PermanentlyStopAllChildProcesses
<1>22. ASSUME StopAllChildProcesses PROVE ProcessInv'
  BY <1>0, <1>22 DEF StopAllChildProcesses, CleanupStart
<1>23. ASSUME StopAllChildProcessesWaited PROVE ProcessInv'
  BY <1>0, <1>23 DEF StopAllChildProcessesWaited, CleanupStart
<1>24. ASSUME CleanupNext PROVE ProcessInv'
  BY <1>0, <1>24 DEF CleanupNext
<1>25. ASSUME HandlerExits PROVE ProcessInv'
  BY <1>0, <1>25 DEF HandlerExits
<1>26. ASSUME MainExits PROVE ProcessInv'
  BY <1>0, <1>26 DEF MainExits
<1> QED
  BY <1>u, <1>1, <1>2, <1>3, <1>4, <1>5, <1>6, <1>7, <1>8, <1>9, <1>10, <1>11, <1>12, <1>13, <1>14, <1>15, <1>16, <1>17, <1>18, <1>19, <1>20, <1>21, <1>22, <1>23, <1>24, <1>25, <1>26
     DEF Next, Running, Gone, MainStep, HandlerStep, HostStep, Actors

\* When the teardown unmounts chroots, none of the program's processes runs.
THEOREM TeardownWithoutProcesses == Spec => []NoProcessInTeardown
<1>1. ProcessInv => NoProcessInTeardown
  BY DEF ProcessInv
<1> QED
  BY <1>1, ControlAlways, ProcessInit, ProcessNext, PTL DEF Spec

-----------------------------------------------------------------------------
(* Mounts, directories and the lists that account for them.                *)

MountInv ==
    /\ UnmountProgress
    /\ FlagsCoverMounts
    /\ RemoveOnlyUnmounted
    /\ InitializeFresh
    /\ CloseOnActive
    /\ AbandonedMeansFailing
    /\ MountsAccountedFor
    /\ ActiveOpenOrStuck
    /\ ActiveDistinct
    /\ ActiveHasRoot
    /\ SweepProgress
    /\ ExitLeavesNoMounts

\* There are no mounts, flags or active chroots when the program starts.
LEMMA MountInit == Init => MountInv
<1> SUFFICES ASSUME Init PROVE MountInv
  OBVIOUS
<1>1. \A c \in Chroots : mounted[c] = {}
  BY DEF Init
<1>2. \A c : ~IsActive(c)
  BY DEF Init, IsActive
<1> QED
  BY <1>1, <1>2 DEF Init, MountInv, UnmountProgress, FlagsCoverMounts, RemoveOnlyUnmounted,
     InitializeFresh, CloseOnActive, AbandonedMeansFailing, MountsAccountedFor,
     ActiveOpenOrStuck, ActiveDistinct, ActiveHasRoot, SweepProgress, ExitLeavesNoMounts,
     Initializing, MainInUnmount, InMainCritical, Actors

\* Dropping one chroot from activeChroots keeps the others.
LEMMA WithoutKeeps ==
    ASSUME activeChroots \in Seq(Chroots), NEW c, IsActive(c), NEW d, d # c, IsActive(d),
           activeChroots' = Without(c)
    PROVE  IsActive(d)'
<1> DEFINE index == CHOOSE k \in 1 .. Len(activeChroots) : activeChroots[k] = c
<1>1. index \in 1 .. Len(activeChroots) /\ activeChroots[index] = c
  BY DEF IsActive
<1>2. PICK k \in 1 .. Len(activeChroots) : activeChroots[k] = d
  BY DEF IsActive
<1> DEFINE n == Len(activeChroots) - 1
<1> HIDE DEF index
<1>3. n \in Nat /\ Len(activeChroots) \in Nat
  BY <1>1
<1>4. activeChroots' = [j \in 1 .. n |->
          IF j < index THEN activeChroots[j] ELSE activeChroots[j + 1]]
  BY DEF Without, index
<1>5. Len(activeChroots') = n
  BY <1>3, <1>4
<1>6. CASE k < index
  BY <1>1, <1>2, <1>3, <1>4, <1>5, <1>6 DEF IsActive
<1>7. CASE k > index
  <2>1. k - 1 \in 1 .. n /\ ~(k - 1 < index) /\ k - 1 + 1 = k
    BY <1>1, <1>2, <1>3, <1>7
  <2> QED  BY <1>2, <1>4, <1>5, <2>1 DEF IsActive
<1> QED
  BY <1>1, <1>2, <1>6, <1>7

\* Appending a chroot makes it active (or open) and keeps the others.
LEMMA AppendActive ==
    ASSUME NEW s \in Seq(Chroots), NEW c \in Chroots, NEW d
    PROVE  (\E k \in 1 .. Len(Append(s, c)) : Append(s, c)[k] = d)
             <=> (d = c \/ \E k \in 1 .. Len(s) : s[k] = d)
<1>1. /\ Len(s) \in Nat
      /\ Len(Append(s, c)) = Len(s) + 1
      /\ \A i \in 1 .. Len(s) : Append(s, c)[i] = s[i]
      /\ Append(s, c)[Len(s) + 1] = c
  BY AppendProperties, LenProperties
<1> QED
  BY <1>1

\* Appending a chroot that is not there yet keeps the sequence free of duplicates.
LEMMA AppendDistinct ==
    ASSUME NEW s \in Seq(Chroots), NEW c \in Chroots,
           ~ \E k \in 1 .. Len(s) : s[k] = c,
           \A j, k \in 1 .. Len(s) : s[j] = s[k] => j = k
    PROVE  \A j, k \in 1 .. Len(Append(s, c)) : Append(s, c)[j] = Append(s, c)[k] => j = k
<1>1. /\ Len(s) \in Nat
      /\ Len(Append(s, c)) = Len(s) + 1
      /\ \A i \in 1 .. Len(s) : Append(s, c)[i] = s[i]
      /\ Append(s, c)[Len(s) + 1] = c
  BY AppendProperties, LenProperties
<1>2. \A j \in 1 .. Len(s) + 1 : j \in 1 .. Len(s) \/ j = Len(s) + 1
  BY <1>1
<1> QED
  BY <1>1, <1>2

\* Close leaves no trace of its chroot in a list without duplicates.
LEMMA WithoutDrops ==
    ASSUME activeChroots \in Seq(Chroots), NEW c, IsActive(c), ActiveDistinct,
           activeChroots' = Without(c)
    PROVE  /\ ~IsActive(c)'
           /\ ActiveDistinct'
           /\ \A d : IsActive(d)' => IsActive(d)
<1> DEFINE index == CHOOSE k \in 1 .. Len(activeChroots) : activeChroots[k] = c
<1> DEFINE n == Len(activeChroots) - 1
<1>1. index \in 1 .. Len(activeChroots) /\ activeChroots[index] = c
  BY DEF IsActive
<1> HIDE DEF index
<1>2. n \in Nat /\ Len(activeChroots) \in Nat
  BY <1>1
<1>3. activeChroots' = [j \in 1 .. n |->
          IF j < index THEN activeChroots[j] ELSE activeChroots[j + 1]]
  BY DEF Without, index
<1>4. Len(activeChroots') = n
  BY <1>2, <1>3
<1> DEFINE from(j) == IF j < index THEN j ELSE j + 1
<1>5. \A j \in 1 .. n : /\ activeChroots'[j] = activeChroots[from(j)]
                        /\ from(j) \in 1 .. Len(activeChroots)
                        /\ from(j) # index
  BY <1>1, <1>2, <1>3
<1>6. \A j, k \in 1 .. n : from(j) = from(k) => j = k
  BY <1>1, <1>2
<1> HIDE DEF from
<1>7. ~IsActive(c)'
  BY <1>1, <1>4, <1>5 DEF IsActive, ActiveDistinct
<1>8. ActiveDistinct'
  BY <1>4, <1>5, <1>6 DEF ActiveDistinct
<1>9. \A d : IsActive(d)' => IsActive(d)
  BY <1>4, <1>5 DEF IsActive
<1> QED
  BY <1>7, <1>8, <1>9

\* Popping a deferred call opens nothing.
LEMMA PopOpens ==
    ASSUME TypeOK, NEW d, defers' = SubSeq(defers, 1, Len(defers) - 1), defers # <<>>,
           IsOpen(d)'
    PROVE  IsOpen(d)
<1>1. defers \in Seq(Chroots) /\ Len(defers) \in Nat
  BY DEF TypeOK
<1> QED
  BY <1>1, PopType DEF IsOpen

\* A step of main that moves no mount, directory or list: it has only to keep
\* what the invariant says of main itself.
MainOnly ==
    /\ UNCHANGED <<mounted, isMounted, rootDir, activeChroots, stuck, defers,
                   exited, cleanupIndex>>
    /\ pc'["handler"] = pc["handler"] /\ frame'["handler"] = frame["handler"]
    /\ failing => failing'
    /\ \A c \in Chroots : InTransition(c) => InTransition(c)'
    /\ pc'["main"] = "unmount" =>
            \A j \in mounted[frame'["main"].chroot] : j <= frame'["main"].mount

\* A step of main that touches neither mounts nor directories keeps the invariant
\* as long as what main says about its chroot (InitializeFresh, CloseOnActive) holds.
LEMMA MountMainOnly ==
    ASSUME ControlInv, MountInv, MainOnly, InitializeFresh', CloseOnActive'
    PROVE  MountInv'
<1> USE DEF MainOnly, IsActive, IsOpen
<1>1. UnmountProgress'
  BY DEF MountInv, UnmountProgress, Actors
<1>2. FlagsCoverMounts' /\ RemoveOnlyUnmounted' /\ AbandonedMeansFailing'
  BY DEF MountInv, FlagsCoverMounts, RemoveOnlyUnmounted, AbandonedMeansFailing
<1>3. MountsAccountedFor' /\ ExitLeavesNoMounts'
  BY DEF MountInv, MountsAccountedFor, ExitLeavesNoMounts
<1>4. ActiveOpenOrStuck' /\ SweepProgress'
  BY DEF MountInv, ActiveOpenOrStuck, SweepProgress, Swept, InTeardown
<1>5. ActiveDistinct' /\ ActiveHasRoot'
  BY DEF MountInv, ActiveDistinct, ActiveHasRoot, InTeardown
<1> QED
  BY <1>1, <1>2, <1>3, <1>4, <1>5 DEF MountInv

\* The arguments of a fresh unmountAndRemove satisfy its loop invariant.
LEMMA FreshUnmount ==
    ASSUME TypeOK, NEW c \in Chroots, NEW lazy
    PROVE  \A j \in mounted[c] : j <= UnmountFrame(c, lazy).mount
  BY ConstantsAssumption DEF TypeOK, Mounts, UnmountFrame

\* Commands keep the mount part.
LEMMA MountCommands ==
    ASSUME ControlInv, MountInv, exited = "no",
           \/ InitializeRefused
           \/ \E root \in Chroots \cup {NoChroot} : RunCommand(root)
           \/ startCmd \/ startCmdFails \/ ProcessExits \/ CommandWaited \/ untrackProcess
           \/ \E c \in Chroots : DaemonExits(c)
    PROVE  MountInv'
<1> USE DEF Goto, chrootVars, shellVars, hostVars, mainVars, Actors, IsActive, IsOpen,
            InTransition, InMainCritical, Initializing, MainInUnmount, LastDefer
<1>0. /\ pc \in [Actors -> MainLabels \cup HandlerLabels]
      /\ frame \in [Actors -> Frames]
      /\ rootDir \in [Chroots -> BOOLEAN]
      /\ MainConsistent /\ InitializeFresh /\ CloseOnActive /\ UnmountProgress
  BY DEF TypeOK, ControlInv, MountInv
<1>1. ASSUME InitializeRefused PROVE MountInv'
  <2>1. MainOnly
    BY <1>0, <1>1 DEF MainOnly, InitializeRefused, MainConsistent
  <2>2. InitializeFresh' /\ CloseOnActive'
    BY <1>0, <1>1 DEF InitializeRefused, InitializeFresh, CloseOnActive, MainConsistent
  <2> QED  BY <2>1, <2>2, MountMainOnly
<1>2. ASSUME NEW root \in Chroots \cup {NoChroot}, RunCommand(root) PROVE MountInv'
  <2>1. MainOnly
    BY <1>0, <1>2 DEF MainOnly, RunCommand, MainConsistent
  <2>2. InitializeFresh' /\ CloseOnActive'
    BY <1>0, <1>2 DEF RunCommand, InitializeFresh, CloseOnActive, MainConsistent
  <2> QED  BY <2>1, <2>2, MountMainOnly
<1>3. ASSUME startCmd PROVE MountInv'
  <2>1. MainOnly
    BY <1>0, <1>3 DEF MainOnly, startCmd, MainConsistent
  <2>2. InitializeFresh' /\ CloseOnActive'
    BY <1>0, <1>3 DEF startCmd, InitializeFresh, CloseOnActive, MainConsistent
  <2> QED  BY <2>1, <2>2, MountMainOnly
<1>4. ASSUME startCmdFails PROVE MountInv'
  <2>a. op # "job" => frame["main"].chroot \in Chroots /\
            \A j \in mounted[frame["main"].chroot] : j <= NumMounts
    BY <1>4, <1>0, FreshUnmount DEF startCmdFails, untrackProcess, stopRunningProcesses, MainConsistent, ControlInv,
       UnmountFrame
  <2>1. MainOnly
    BY <1>0, <1>4, <2>a DEF MainOnly, startCmdFails, AfterFailedCommand, MainConsistent, UnmountFrame
  <2>2. InitializeFresh' /\ CloseOnActive'
    BY <1>0, <1>4, <2>a DEF startCmdFails, AfterFailedCommand, InitializeFresh, CloseOnActive, MainConsistent, UnmountFrame
  <2> QED  BY <2>1, <2>2, MountMainOnly
<1>5. ASSUME ProcessExits PROVE MountInv'
  <2>1. MainOnly
    BY <1>0, <1>5 DEF MainOnly, ProcessExits, MainConsistent, UnmountProgress
  <2>2. InitializeFresh' /\ CloseOnActive'
    BY <1>0, <1>5 DEF ProcessExits, InitializeFresh, CloseOnActive, MainConsistent, UnmountProgress
  <2> QED  BY <2>1, <2>2, MountMainOnly
<1>6. ASSUME CommandWaited PROVE MountInv'
  <2>1. MainOnly
    BY <1>0, <1>6 DEF MainOnly, CommandWaited, MainConsistent
  <2>2. InitializeFresh' /\ CloseOnActive'
    BY <1>0, <1>6 DEF CommandWaited, InitializeFresh, CloseOnActive, MainConsistent
  <2> QED  BY <2>1, <2>2, MountMainOnly
<1>7. ASSUME untrackProcess PROVE MountInv'
  <2>a. op # "job" => frame["main"].chroot \in Chroots /\
            \A j \in mounted[frame["main"].chroot] : j <= NumMounts
    BY <1>7, <1>0, FreshUnmount DEF startCmdFails, untrackProcess, stopRunningProcesses, MainConsistent, ControlInv,
       UnmountFrame
  <2>1. MainOnly
    BY <1>0, <1>7, <2>a DEF MainOnly, untrackProcess, stopRunningProcesses, AfterFailedCommand, MainConsistent, UnmountFrame
  <2>2. InitializeFresh' /\ CloseOnActive'
    BY <1>0, <1>7, <2>a DEF untrackProcess, stopRunningProcesses, AfterFailedCommand, InitializeFresh, CloseOnActive, MainConsistent, UnmountFrame
  <2> QED  BY <2>1, <2>2, MountMainOnly
<1>8. ASSUME NEW c \in Chroots, DaemonExits(c) PROVE MountInv'
  <2>1. MainOnly
    BY <1>0, <1>8 DEF MainOnly, DaemonExits, MainConsistent, UnmountProgress
  <2>2. InitializeFresh' /\ CloseOnActive'
    BY <1>0, <1>8 DEF DaemonExits, InitializeFresh, CloseOnActive, MainConsistent, UnmountProgress
  <2> QED  BY <2>1, <2>2, MountMainOnly
<1> QED  BY <1>1, <1>2, <1>3, <1>4, <1>5, <1>6, <1>7, <1>8

\* Popping a deferred call closes only the chroot it belongs to.
LEMMA PopKeeps ==
    ASSUME TypeOK, NEW d, defers' = SubSeq(defers, 1, Len(defers) - 1), defers # <<>>,
           IsOpen(d), d # LastDefer
    PROVE  IsOpen(d)'
<1>1. defers \in Seq(Chroots) /\ Len(defers) \in Nat
  BY DEF TypeOK
<1>2. PICK k \in 1 .. Len(defers) : defers[k] = d
  BY DEF IsOpen
<1>3. k \in 1 .. Len(defers) - 1
  BY <1>1, <1>2 DEF LastDefer
<1> QED
  BY <1>1, <1>2, <1>3, PopType DEF IsOpen

\* Initialize keeps the mount part.
LEMMA MountInitialize ==
    ASSUME ControlInv, MountInv, exited = "no",
           \/ \E c \in Chroots : Initialize(c)
           \/ InitializeRoot \/ CreateMountPoint \/ CreateMountPointFails
           \/ InitializeDone
    PROVE  MountInv'
<1> USE DEF Goto, chrootVars, shellVars, hostVars, mainVars, Actors, IsActive, IsOpen,
            InTransition, InMainCritical, Initializing, MainInUnmount, LastDefer
<1>0. /\ pc \in [Actors -> MainLabels \cup HandlerLabels]
      /\ frame \in [Actors -> Frames]
      /\ rootDir \in [Chroots -> BOOLEAN]
      /\ MainConsistent /\ InitializeFresh /\ CloseOnActive /\ UnmountProgress
  BY DEF TypeOK, ControlInv, MountInv
<1>1. ASSUME NEW c \in Chroots, Initialize(c) PROVE MountInv'
  <2>1. MainOnly
    BY <1>0, <1>1 DEF MainOnly, Initialize, MainConsistent, UnmountFrame
  <2>2. InitializeFresh' /\ CloseOnActive'
    BY <1>0, <1>1 DEF Initialize, InitializeFresh, CloseOnActive, MainConsistent, UnmountFrame
  <2> QED  BY <2>1, <2>2, MountMainOnly
<1>2. ASSUME CreateMountPointFails PROVE MountInv'
  <2>a. frame["main"].chroot \in Chroots /\
            \A j \in mounted[frame["main"].chroot] : j <= NumMounts
    BY <1>2, <1>0, FreshUnmount DEF CreateMountPointFails, MainConsistent, ControlInv,
       UnmountFrame
  <2>1. MainOnly
    BY <1>0, <1>2, <2>a DEF MainOnly, CreateMountPointFails, MainConsistent, UnmountFrame
  <2>2. InitializeFresh' /\ CloseOnActive'
    BY <1>0, <1>2, <2>a DEF CreateMountPointFails, InitializeFresh, CloseOnActive, MainConsistent, UnmountFrame
  <2> QED  BY <2>1, <2>2, MountMainOnly
<1>3. ASSUME InitializeRoot PROVE MountInv'
  <2> DEFINE c == frame["main"].chroot
  <2>1. /\ c \in Chroots /\ pc["main"] = "initLock" /\ activeChrootsMutex = "free"
        /\ RootDirAcceptable(c)
        /\ UNCHANGED <<mounted, activeChroots, stuck, defers, exited, cleanupIndex, failing, op>>
        /\ rootDir' = [rootDir EXCEPT ![c] = TRUE]
        /\ isMounted' = [isMounted EXCEPT ![c] = {}]
        /\ frame' = [frame EXCEPT !["main"] = MovedTo("main", 1, 0)]
        /\ pc' = [pc EXCEPT !["main"] = "initMount"]
    BY <1>0, <1>3 DEF InitializeRoot, MainConsistent
  <2>2. frame'["main"].chroot = c /\ frame'["handler"] = frame["handler"]
    BY <1>0, <2>1 DEF MovedTo
  <2>3. mounted[c] = {}
    BY <1>0, <2>1 DEF RootDirAcceptable, MountInv, RemoveOnlyUnmounted, MountsAccountedFor,
       InitializeFresh, AbandonedMeansFailing
  <2>4. FlagsCoverMounts' /\ RemoveOnlyUnmounted'
    BY <2>1, <2>3 DEF MountInv, FlagsCoverMounts, RemoveOnlyUnmounted, ControlInv, TypeOK
  <2>5. UnmountProgress' /\ SweepProgress' /\ ExitLeavesNoMounts'
    BY <1>0, <2>1, <2>2 DEF MountInv, UnmountProgress, SweepProgress, Swept, ExitLeavesNoMounts
  <2>a. ~IsActive(c)
    <3>1. ~InTeardown
      BY <2>1 DEF ControlInv, LocksHeld
    <3> QED  BY <1>0, <2>1, <3>1 DEF RootDirAcceptable, InitializeFresh, MountInv, ActiveHasRoot
  <2>6. InitializeFresh' /\ CloseOnActive' /\ AbandonedMeansFailing'
    BY <1>0, <2>1, <2>2, <2>a DEF MountInv, InitializeFresh, CloseOnActive, AbandonedMeansFailing,
       MainConsistent
  <2>7. MountsAccountedFor' /\ ActiveOpenOrStuck'
    BY <1>0, <2>1, <2>2 DEF MountInv, MountsAccountedFor, ActiveOpenOrStuck, InTeardown
  <2>8. ActiveDistinct' /\ ActiveHasRoot'
    BY <1>0, <2>1 DEF MountInv, ActiveDistinct, ActiveHasRoot, InTeardown
  <2> QED  BY <2>4, <2>5, <2>6, <2>7, <2>8 DEF MountInv
<1>4. ASSUME CreateMountPoint PROVE MountInv'
  <2> DEFINE c == frame["main"].chroot
  <2> DEFINE i == frame["main"].mount
  <2>1. /\ c \in Chroots /\ pc["main"] = "initMount"
        /\ UNCHANGED <<rootDir, activeChroots, stuck, defers, exited, cleanupIndex, failing, op, pc>>
        /\ mounted' = [mounted EXCEPT ![c] = @ \cup {i}]
        /\ isMounted' = [isMounted EXCEPT ![c] = @ \cup {i}]
        /\ frame' = [frame EXCEPT !["main"] = MovedTo("main", i + 1, 0)]
    BY <1>0, <1>4 DEF CreateMountPoint, MainConsistent
  <2>2. frame'["main"].chroot = c /\ frame'["handler"] = frame["handler"]
    BY <1>0, <2>1 DEF MovedTo
  <2>3. ~InTeardown /\ rootDir[c]
    BY <1>0, <2>1 DEF ControlInv, LocksHeld, InitializeFresh
  <2>4. FlagsCoverMounts' /\ RemoveOnlyUnmounted'
    BY <2>1, <2>3 DEF MountInv, FlagsCoverMounts, RemoveOnlyUnmounted, ControlInv, TypeOK
  <2>5. UnmountProgress' /\ SweepProgress' /\ ExitLeavesNoMounts'
    BY <1>0, <2>1, <2>2, <2>3 DEF MountInv, UnmountProgress, SweepProgress, Swept,
       ExitLeavesNoMounts, InTeardown
  <2>6. InitializeFresh' /\ CloseOnActive' /\ AbandonedMeansFailing'
    BY <1>0, <2>1, <2>2 DEF MountInv, InitializeFresh, CloseOnActive, AbandonedMeansFailing,
       MainConsistent
  <2>7. MountsAccountedFor' /\ ActiveOpenOrStuck'
    BY <1>0, <2>1, <2>2, <2>3 DEF MountInv, MountsAccountedFor, ActiveOpenOrStuck, InTeardown
  <2>8. ActiveDistinct' /\ ActiveHasRoot'
    BY <1>0, <2>1 DEF MountInv, ActiveDistinct, ActiveHasRoot, InTeardown
  <2> QED  BY <2>4, <2>5, <2>6, <2>7, <2>8 DEF MountInv
<1>5. ASSUME InitializeDone PROVE MountInv'
  <2> DEFINE c == frame["main"].chroot
  <2>1. /\ c \in Chroots /\ pc["main"] = "initMount"
        /\ UNCHANGED <<rootDir, mounted, isMounted, stuck, exited, cleanupIndex, failing, frame>>
        /\ activeChroots' = Append(activeChroots, c)
        /\ defers' = Append(defers, c)
        /\ op' = "none"
        /\ pc' = [pc EXCEPT !["main"] = "run"]
    BY <1>0, <1>5 DEF InitializeDone, MainConsistent
  <2>2. ~InTeardown /\ activeChroots \in Seq(Chroots) /\ defers \in Seq(Chroots)
    BY <1>0, <2>1 DEF ControlInv, LocksHeld, TypeOK
  <2>3. \A d : (IsActive(d)' <=> (d = c \/ IsActive(d))) /\ (IsOpen(d)' <=> (d = c \/ IsOpen(d)))
    BY <2>1, <2>2, AppendActive DEF IsActive, IsOpen
  <2> HIDE DEF IsActive, IsOpen
  <2>4. FlagsCoverMounts' /\ RemoveOnlyUnmounted' /\ UnmountProgress'
    BY <1>0, <2>1 DEF MountInv, FlagsCoverMounts, RemoveOnlyUnmounted, UnmountProgress
  <2>5. SweepProgress' /\ ExitLeavesNoMounts'
    BY <1>0, <2>1, <2>2 DEF SweepProgress, ExitLeavesNoMounts, InTeardown
  <2>6. InitializeFresh' /\ CloseOnActive' /\ AbandonedMeansFailing'
    BY <1>0, <2>1, <2>3 DEF MountInv, InitializeFresh, CloseOnActive, AbandonedMeansFailing
  <2>7. MountsAccountedFor' /\ ActiveOpenOrStuck'
    BY <1>0, <2>1, <2>2, <2>3 DEF MountInv, MountsAccountedFor, ActiveOpenOrStuck
  <2>8. ActiveDistinct'
    BY <1>0, <2>1, <2>2, AppendDistinct DEF MountInv, ActiveDistinct, InitializeFresh, IsActive
  <2>9. ActiveHasRoot'
    BY <1>0, <2>1, <2>3 DEF MountInv, ActiveHasRoot, InitializeFresh, InTeardown
  <2> QED  BY <2>4, <2>5, <2>6, <2>7, <2>8, <2>9 DEF MountInv
<1> QED  BY <1>1, <1>2, <1>3, <1>4, <1>5

\* Close, up to unmountAndRemove, keeps the mount part.
LEMMA MountClose ==
    ASSUME ControlInv, MountInv, exited = "no",
           \/ \E kind \in {"clean", "deferred"} : Close(kind)
           \/ CloseAlreadyClosed \/ CloseActive
    PROVE  MountInv'
<1> USE DEF Goto, chrootVars, shellVars, hostVars, mainVars, Actors, IsActive, IsOpen,
            InTransition, InMainCritical, Initializing, MainInUnmount, LastDefer
<1>0. /\ pc \in [Actors -> MainLabels \cup HandlerLabels]
      /\ frame \in [Actors -> Frames]
      /\ rootDir \in [Chroots -> BOOLEAN]
      /\ MainConsistent /\ InitializeFresh /\ CloseOnActive /\ UnmountProgress
  BY DEF TypeOK, ControlInv, MountInv
<1>1. ASSUME NEW kind \in {"clean", "deferred"}, Close(kind) PROVE MountInv'
  <2>1. MainOnly
    BY <1>0, <1>1 DEF MainOnly, Close, MainConsistent, UnmountFrame
  <2>2. InitializeFresh' /\ CloseOnActive'
    BY <1>0, <1>1 DEF Close, InitializeFresh, CloseOnActive, MainConsistent, UnmountFrame
  <2> QED  BY <2>1, <2>2, MountMainOnly
<1>2. ASSUME CloseActive PROVE MountInv'
  <2>1. MainOnly
    BY <1>0, <1>2 DEF MainOnly, CloseActive, CloseMayEnter, MainConsistent
  <2>2. InitializeFresh' /\ CloseOnActive'
    BY <1>0, <1>2 DEF CloseActive, CloseMayEnter, InitializeFresh, CloseOnActive, MainConsistent
  <2> QED  BY <2>1, <2>2, MountMainOnly
<1>3. ASSUME CloseAlreadyClosed PROVE MountInv'
  <2> DEFINE c == frame["main"].chroot
  <2>1. /\ c \in Chroots /\ c = LastDefer /\ defers # <<>> /\ ~IsActive(c)
        /\ pc["main"] = "closeLock" /\ op' = "none" /\ (failing => failing')
        /\ UNCHANGED <<rootDir, mounted, isMounted, activeChroots, stuck, exited, cleanupIndex, frame>>
        /\ defers' = defers \/ defers' = SubSeq(defers, 1, Len(defers) - 1)
        /\ \/ pc' = [pc EXCEPT !["main"] = "run"]
           \/ pc' = [pc EXCEPT !["main"] = "closeReturn"]
    BY <1>0, <1>3 DEF CloseAlreadyClosed, ReturnFromClose, MainConsistent, CloseOnActive
  <2>2. \A d : (IsOpen(d)' => IsOpen(d)) /\ (IsOpen(d) /\ d # c => IsOpen(d)')
    BY <2>1, PopOpens, PopKeeps DEF ControlInv
  <2>3. \A d : IsActive(d)' <=> IsActive(d)
    BY <2>1
  <2> HIDE DEF IsActive, IsOpen
  <2>a. pc'["main"] \in {"run", "closeReturn"} /\ pc'["handler"] = pc["handler"]
    BY <1>0, <2>1
  <2>4. FlagsCoverMounts' /\ RemoveOnlyUnmounted' /\ UnmountProgress'
    BY <2>1, <2>a DEF MountInv, FlagsCoverMounts, RemoveOnlyUnmounted, UnmountProgress
  <2>b. InitializeFresh' /\ CloseOnActive'
    BY <2>1, <2>a DEF InitializeFresh, CloseOnActive
  <2>c. SweepProgress' /\ ExitLeavesNoMounts'
    BY <2>1, <2>a DEF MountInv, SweepProgress, Swept, ExitLeavesNoMounts
  <2>d. ActiveDistinct' /\ ActiveHasRoot'
    BY <2>1, <2>3, <2>a DEF MountInv, ActiveDistinct, ActiveHasRoot, InTeardown
  <2>5. AbandonedMeansFailing'
    BY <2>1, <2>3 DEF MountInv, AbandonedMeansFailing
  <2>6. MountsAccountedFor' /\ ActiveOpenOrStuck'
    BY <1>0, <2>1, <2>2, <2>3 DEF MountInv, MountsAccountedFor, ActiveOpenOrStuck, InTeardown
  <2> QED  BY <2>4, <2>b, <2>c, <2>d, <2>5, <2>6 DEF MountInv
<1> QED  BY <1>1, <1>2, <1>3

\* One iteration of unmountAndRemove by a that goes on: mounts only disappear,
\* and only from the chroot a works on.
Shrinks(a) ==
    LET c == frame[a].chroot IN
    /\ pc[a] = "unmount"
    /\ UNCHANGED <<isMounted, rootDir, activeChroots, stuck, exited, cleanupIndex, pc, op,
                   failing, defers>>
    /\ \A b \in Actors : frame'[b].chroot = frame[b].chroot
    /\ \A b \in Actors \ {a} : frame'[b] = frame[b]
    /\ \A d \in Chroots : mounted'[d] \subseteq mounted[d]
    /\ \A j \in mounted'[c] : j <= frame'[a].mount

\* A step of unmountAndRemove that only takes mounts away keeps the invariant.
LEMMA MountShrinks ==
    ASSUME ControlInv, MountInv, NEW a \in Actors, Shrinks(a)
    PROVE  MountInv'
<1> USE DEF Shrinks
<1>0. /\ \A d : (IsActive(d)' <=> IsActive(d)) /\ (IsOpen(d)' <=> IsOpen(d))
      /\ InTeardown' <=> InTeardown
      /\ Initializing' <=> Initializing
      /\ InMainCritical' <=> InMainCritical
      /\ \A d : InTransition(d)' <=> InTransition(d)
  BY DEF IsActive, IsOpen, InTeardown, Initializing, MainInUnmount, InMainCritical,
         InTransition, Actors
<1>1. \A b \in Actors : pc[b] = "unmount" => frame[b].chroot \in Chroots
  BY DEF ControlInv, MainConsistent, HandlerConsistent, MainInUnmount, InMainCritical, Actors
<1>2. UnmountProgress'
  BY <1>1 DEF MountInv, UnmountProgress
<1>3. FlagsCoverMounts' /\ RemoveOnlyUnmounted' /\ AbandonedMeansFailing'
  BY <1>0 DEF MountInv, FlagsCoverMounts, RemoveOnlyUnmounted, AbandonedMeansFailing
<1>4. InitializeFresh' /\ CloseOnActive'
  BY <1>0 DEF MountInv, InitializeFresh, CloseOnActive, LastDefer, Actors
<1>5. MountsAccountedFor' /\ ActiveOpenOrStuck'
  BY <1>0 DEF MountInv, MountsAccountedFor, ActiveOpenOrStuck
<1>6. ActiveDistinct' /\ ActiveHasRoot' /\ ExitLeavesNoMounts'
  BY <1>0 DEF MountInv, ActiveDistinct, ActiveHasRoot, ExitLeavesNoMounts
<1>7. \A k \in 1 .. Len(activeChroots) : Swept(k) => Swept(k)'
  <2>1. \A k \in 1 .. Len(activeChroots) : activeChroots[k] \in Chroots
    BY DEF ControlInv, TypeOK
  <2> QED  BY <2>1 DEF Swept
<1>8. SweepProgress'
  BY <1>7 DEF MountInv, SweepProgress, Actors
<1> QED
  BY <1>2, <1>3, <1>4, <1>5, <1>6, <1>8 DEF MountInv

\* The three ways to go on.
LEMMA UnmountShrinks ==
    ASSUME ControlInv, MountInv, NEW a \in Actors,
           UnmountSkip(a) \/ UnmountSucceeds(a) \/ UnmountRetries(a)
    PROVE  Shrinks(a)
<1> DEFINE c == frame[a].chroot
<1> DEFINE i == frame[a].mount
<1> USE DEF chrootVars, hostVars, mainVars
<1>0. /\ c \in Chroots /\ pc[a] = "unmount" /\ i \in Nat
      /\ frame \in [Actors -> Frames]
      /\ mounted \in [Chroots -> SUBSET Mounts]
      /\ \A j \in mounted[c] : j <= i /\ j \in Nat
  <2>1. pc[a] = "unmount"
    BY DEF UnmountSkip, UnmountSucceeds, UnmountRetries, CanTryUnmount
  <2>2. c \in Chroots
    BY <2>1 DEF ControlInv, MainConsistent, HandlerConsistent, MainInUnmount, InMainCritical, Actors
  <2>3. frame \in [Actors -> Frames] /\ mounted \in [Chroots -> SUBSET Mounts]
    BY DEF ControlInv, TypeOK
  <2> QED
    BY <2>1, <2>2, <2>3, ConstantsAssumption DEF MountInv, UnmountProgress, Frames, Mounts
<1>1. ASSUME NEW m, NEW n, frame' = [frame EXCEPT ![a] = MovedTo(a, m, n)]
      PROVE  /\ \A b \in Actors : frame'[b].chroot = frame[b].chroot
             /\ \A b \in Actors \ {a} : frame'[b] = frame[b]
             /\ frame'[a].mount = m
  BY <1>0, <1>1 DEF MovedTo
<1>2. CASE UnmountSkip(a)
  <2>1. i \notin mounted[c] /\ i > 0
    BY <1>0, <1>2 DEF UnmountSkip, MountInv, RemoveOnlyUnmounted, FlagsCoverMounts
  <2>2. frame'[a].mount = i - 1 /\ mounted' = mounted
    BY <1>1, <1>2 DEF UnmountSkip
  <2>3. \A j \in mounted'[c] : j <= frame'[a].mount
    BY <1>0, <2>1, <2>2
  <2> QED
    BY <1>0, <1>1, <1>2, <2>2, <2>3 DEF UnmountSkip, Shrinks
<1>3. CASE UnmountSucceeds(a)
  <2>1. /\ i > 0
        /\ mounted' = [mounted EXCEPT ![c] = @ \ ({i} \cup Below(i))]
    BY <1>3 DEF UnmountSucceeds, CanTryUnmount
  <2>2. frame'[a].mount = i - 1
    BY <1>1, <1>3 DEF UnmountSucceeds
  <2>3. mounted'[c] = mounted[c] \ ({i} \cup Below(i)) /\ \A d \in Chroots : mounted'[d] \subseteq mounted[d]
    BY <1>0, <2>1
  <2>4. \A j \in mounted'[c] : j <= frame'[a].mount
    BY <1>0, <2>1, <2>2, <2>3
  <2> QED
    BY <1>0, <1>1, <1>3, <2>3, <2>4 DEF UnmountSucceeds, Shrinks
<1>4. CASE UnmountRetries(a)
  <2>1. frame'[a].mount = i /\ mounted' = mounted
    BY <1>1, <1>4 DEF UnmountRetries
  <2>2. \A j \in mounted'[c] : j <= frame'[a].mount
    BY <1>0, <2>1
  <2> QED
    BY <1>0, <1>1, <1>4, <2>1, <2>2 DEF UnmountRetries, Shrinks
<1> QED
  BY <1>2, <1>3, <1>4

\* unmountAndRemove of a returns: mounts stay as they are, and a success means
\* that there are none left.
Returned(a, ok) ==
    LET c == frame[a].chroot IN
    /\ pc[a] = "unmount"
    /\ UnmountReturns(a, ok)
    /\ UNCHANGED <<mounted, isMounted, exited, cleanupIndex>>
    /\ \A d \in Chroots \ {c} : rootDir'[d] = rootDir[d]
    /\ rootDir'[c] = rootDir[c] \/ ok
    /\ ~ok => rootDir' = rootDir
    /\ ok => mounted[c] = {}

\* What every return has in common.
LEMMA ReturnedKeeps ==
    ASSUME ControlInv, MountInv, NEW a \in Actors, NEW ok \in BOOLEAN, Returned(a, ok)
    PROVE  /\ frame[a].chroot \in Chroots
           /\ FlagsCoverMounts' /\ RemoveOnlyUnmounted' 
<1>1. frame[a].chroot \in Chroots
  BY DEF Returned, ControlInv, MainConsistent, HandlerConsistent, MainInUnmount, InMainCritical, Actors
<1> QED
  BY <1>1 DEF Returned, MountInv, FlagsCoverMounts, RemoveOnlyUnmounted

\* The teardown goes on to the next chroot.
LEMMA MountReturnsToHandler ==
    ASSUME ControlInv, MountInv, NEW ok \in BOOLEAN, Returned("handler", ok), exited = "no"
    PROVE  MountInv'
<1> DEFINE c == frame["handler"].chroot
<1>1. /\ c \in Chroots /\ pc["handler"] = "unmount"
      /\ stuck' = IF ok THEN stuck \ {c} ELSE stuck \cup {c}
      /\ UNCHANGED <<mounted, isMounted, exited, cleanupIndex, activeChroots, frame, op,
                     failing, defers>>
      /\ ok => mounted[c] = {}
  BY ReturnedKeeps DEF Returned, UnmountReturns, mainVars, Actors
<1>2. pc'["handler"] = "next" /\ pc'["main"] = pc["main"]
  BY DEF Returned, UnmountReturns, Goto, ControlInv, TypeOK, Actors
<1>3. ~InMainCritical /\ ~InMainCritical' /\ InTeardown /\ InTeardown'
  BY <1>1, <1>2 DEF ControlInv, LocksHeld, InTeardown, InMainCritical
<1>4. \A d : (IsActive(d)' <=> IsActive(d)) /\ (IsOpen(d)' <=> IsOpen(d))
  BY <1>1 DEF IsActive, IsOpen
<1>5. /\ cleanupIndex + 1 \in 1 .. Len(activeChroots)
      /\ c = activeChroots[cleanupIndex + 1]
      /\ cleanupIndex \in Nat /\ Len(activeChroots) \in Nat
  BY <1>1 DEF MountInv, SweepProgress, ControlInv, TypeOK
<1>6. IsActive(c)
  BY <1>5 DEF IsActive
<1>7. UnmountProgress' /\ FlagsCoverMounts' /\ RemoveOnlyUnmounted'
  BY <1>2, <1>3, ReturnedKeeps DEF UnmountProgress, InMainCritical, Actors
<1>8. InitializeFresh' /\ CloseOnActive'
  BY <1>1, <1>2, <1>3, <1>4 DEF MountInv, InitializeFresh, CloseOnActive, Initializing,
     MainInUnmount, InMainCritical, LastDefer
<1>9. AbandonedMeansFailing' /\ ExitLeavesNoMounts'
  BY <1>1, <1>4, <1>6 DEF MountInv, AbandonedMeansFailing, ExitLeavesNoMounts
<1>10. MountsAccountedFor' /\ ActiveOpenOrStuck'
  BY <1>1, <1>3, <1>4 DEF MountInv, MountsAccountedFor, ActiveOpenOrStuck, InTransition
<1>11. ActiveDistinct' /\ ActiveHasRoot'
  BY <1>1, <1>3, <1>4 DEF MountInv, ActiveDistinct, ActiveHasRoot
<1>12. \A k \in 1 .. Len(activeChroots) : Swept(k) => Swept(k)'
  BY <1>1 DEF Swept
<1>13. Swept(cleanupIndex + 1)'
  BY <1>1, <1>5 DEF Swept
<1>14. \A k \in 1 .. Len(activeChroots) : k > cleanupIndex => k = cleanupIndex + 1 \/ k > cleanupIndex + 1
  BY <1>5
<1>15. SweepProgress'
  BY <1>1, <1>2, <1>5, <1>12, <1>13, <1>14 DEF MountInv, SweepProgress
<1> QED
  BY <1>7, <1>8, <1>9, <1>10, <1>11, <1>15 DEF MountInv

\* Initialize fails and has tried to undo its mounts.
LEMMA MountReturnsToInitialize ==
    ASSUME ControlInv, MountInv, NEW ok \in BOOLEAN, Returned("main", ok), exited = "no",
           op = "init"
    PROVE  MountInv'
<1> DEFINE c == frame["main"].chroot
<1>1. /\ c \in Chroots /\ pc["main"] = "unmount"
      /\ stuck' = IF ok THEN stuck \ {c} ELSE stuck \cup {c}
      /\ UNCHANGED <<mounted, isMounted, exited, cleanupIndex, activeChroots, frame, defers>>
      /\ failing' /\ op' = "none"
      /\ ok => mounted[c] = {}
  BY ReturnedKeeps DEF Returned, UnmountReturns, Actors
<1>2. pc'["main"] = "run" /\ pc'["handler"] = pc["handler"]
  BY DEF Returned, UnmountReturns, Goto, ControlInv, TypeOK, Actors
<1>3. ~InTeardown /\ ~InTeardown' /\ \A d : InTransition(d) => d = c
  BY <1>1, <1>2 DEF ControlInv, LocksHeld, InTeardown, InMainCritical, InTransition
<1>4. \A d : (IsActive(d)' <=> IsActive(d)) /\ (IsOpen(d)' <=> IsOpen(d))
  BY <1>1 DEF IsActive, IsOpen
<1>5. ~IsActive(c) /\ ~IsOpen(c)
  BY <1>1 DEF MountInv, InitializeFresh, Initializing, MainInUnmount
<1>6. UnmountProgress' /\ FlagsCoverMounts' /\ RemoveOnlyUnmounted'
  BY <1>2, <1>3, ReturnedKeeps DEF UnmountProgress, InTeardown, Actors
<1>7. InitializeFresh' /\ CloseOnActive' /\ SweepProgress'
  BY <1>1, <1>2, <1>3 DEF InitializeFresh, CloseOnActive, Initializing, MainInUnmount,
     SweepProgress, InTeardown
<1>8. AbandonedMeansFailing' /\ ExitLeavesNoMounts'
  BY <1>1 DEF AbandonedMeansFailing, ExitLeavesNoMounts
<1>9. MountsAccountedFor' /\ ActiveOpenOrStuck'
  BY <1>1, <1>3, <1>4, <1>5 DEF MountInv, MountsAccountedFor, ActiveOpenOrStuck
<1>10. ActiveDistinct'
  BY <1>1 DEF MountInv, ActiveDistinct
<1>11. ActiveHasRoot'
  BY <1>1, <1>3, <1>4, <1>5 DEF MountInv, ActiveHasRoot, Returned
<1> QED
  BY <1>6, <1>7, <1>8, <1>9, <1>10, <1>11 DEF MountInv

\* A failed pass of Close is followed by a lazy one.
LEMMA MountRetriesLazily ==
    ASSUME ControlInv, MountInv, Returned("main", FALSE), exited = "no",
           op # "init", ~frame["main"].lazy
    PROVE  MountInv'
<1> DEFINE c == frame["main"].chroot
<1>1. /\ c \in Chroots
      /\ UNCHANGED <<mounted, isMounted, rootDir, exited, cleanupIndex, activeChroots, stuck,
                     pc, op, failing, defers>>
      /\ frame' = [frame EXCEPT !["main"] = UnmountFrame(c, TRUE)]
  BY ReturnedKeeps DEF Returned, UnmountReturns, mainVars, Actors
<1>2. /\ frame'["handler"] = frame["handler"]
      /\ frame'["main"] = UnmountFrame(c, TRUE)
      /\ frame'["main"].chroot = c
  BY <1>1 DEF ControlInv, TypeOK, Actors, UnmountFrame
<1>3. \A d : (IsActive(d)' <=> IsActive(d)) /\ (IsOpen(d)' <=> IsOpen(d))
  BY <1>1 DEF IsActive, IsOpen
<1>4. MainOnly
  BY <1>1, <1>2, FreshUnmount DEF MainOnly, InTransition, InMainCritical, ControlInv
<1>5. pc["main"] = "unmount"
  BY DEF Returned
<1>6. InitializeFresh'
  BY <1>1, <1>5 DEF InitializeFresh, Initializing, MainInUnmount
<1>7. CloseOnActive'
  BY <1>1, <1>2, <1>3 DEF MountInv, CloseOnActive, LastDefer, InMainCritical
<1> QED
  BY <1>4, <1>6, <1>7, MountMainOnly

\* Close returns.
LEMMA MountReturnsToClose ==
    ASSUME ControlInv, MountInv, NEW ok \in BOOLEAN, Returned("main", ok), exited = "no",
           op # "init", ok \/ frame["main"].lazy
    PROVE  MountInv'
<1> DEFINE c == frame["main"].chroot
<1>1. /\ c \in Chroots /\ pc["main"] = "unmount"
      /\ stuck' = IF ok THEN stuck \ {c} ELSE stuck \cup {c}
      /\ activeChroots' = IF ok THEN Without(c) ELSE activeChroots
      /\ UNCHANGED <<mounted, isMounted, exited, cleanupIndex, frame>>
      /\ op' = "none" /\ (failing => failing')
      /\ defers' = defers \/ defers' = SubSeq(defers, 1, Len(defers) - 1)
      /\ ok => mounted[c] = {}
  BY ReturnedKeeps DEF Returned, UnmountReturns, ReturnFromClose, ActiveAfterClose, Actors
<1>2. pc'["main"] \in {"run", "closeReturn"} /\ pc'["handler"] = pc["handler"]
  BY DEF Returned, UnmountReturns, ReturnFromClose, Goto, ControlInv, TypeOK, Actors
<1>3. ~InTeardown /\ ~InTeardown' /\ \A d : InTransition(d) => d = c
  BY <1>1, <1>2 DEF ControlInv, LocksHeld, InTeardown, InMainCritical, InTransition
<1>4. IsActive(c) /\ c = LastDefer /\ defers # <<>>
  BY <1>1 DEF MountInv, CloseOnActive, ControlInv, MainConsistent, InMainCritical, MainInUnmount
<1>5. \A d : (IsOpen(d)' => IsOpen(d)) /\ (IsOpen(d) /\ d # c => IsOpen(d)')
  BY <1>1, <1>4, PopOpens, PopKeeps DEF ControlInv, IsOpen
<1>6. activeChroots \in Seq(Chroots) /\ ActiveDistinct
  BY DEF ControlInv, TypeOK, MountInv
<1>7. /\ \A d : IsActive(d) /\ d # c => IsActive(d)'
      /\ \A d : IsActive(d)' => IsActive(d)
      /\ ok => ~IsActive(c)'
      /\ ~ok => IsActive(c)'
      /\ ActiveDistinct'
  <2>1. CASE ok
    BY <1>1, <1>4, <1>6, <2>1, WithoutKeeps, WithoutDrops
  <2>2. CASE ~ok
    BY <1>1, <1>4, <1>6, <2>2 DEF IsActive, ActiveDistinct
  <2> QED  BY <2>1, <2>2
<1>8. UnmountProgress' /\ FlagsCoverMounts' /\ RemoveOnlyUnmounted'
  BY <1>2, <1>3, ReturnedKeeps DEF UnmountProgress, InTeardown, Actors
<1>9. InitializeFresh' /\ CloseOnActive' /\ SweepProgress'
  BY <1>1, <1>2, <1>3 DEF InitializeFresh, CloseOnActive, Initializing, MainInUnmount,
     SweepProgress, InTeardown
<1>10. AbandonedMeansFailing' /\ ExitLeavesNoMounts'
  BY <1>1, <1>7 DEF MountInv, AbandonedMeansFailing, ExitLeavesNoMounts
<1>11. MountsAccountedFor'
  BY <1>1, <1>3, <1>5, <1>7 DEF MountInv, MountsAccountedFor
<1>12. ActiveOpenOrStuck'
  BY <1>1, <1>3, <1>5, <1>7 DEF MountInv, ActiveOpenOrStuck
<1>13. ActiveHasRoot'
  BY <1>1, <1>3, <1>7 DEF MountInv, ActiveHasRoot, Returned
<1> QED
  BY <1>7, <1>8, <1>9, <1>10, <1>11, <1>12, <1>13 DEF MountInv

\* unmountAndRemove keeps the mount part, whoever runs it.
LEMMA MountUnmount ==
    ASSUME ControlInv, MountInv, exited = "no", NEW a \in Actors, UnmountStep(a)
    PROVE  MountInv'
<1> USE DEF chrootVars, hostVars
<1>1. CASE UnmountSkip(a) \/ UnmountSucceeds(a) \/ UnmountRetries(a)
  BY <1>1, UnmountShrinks, MountShrinks
<1>2. ASSUME NEW ok \in BOOLEAN, Returned(a, ok) PROVE MountInv'
  <2>1. CASE a = "handler"
    BY <1>2, <2>1, MountReturnsToHandler
  <2>2. CASE a = "main" /\ op = "init"
    BY <1>2, <2>2, MountReturnsToInitialize
  <2>3. CASE a = "main" /\ op # "init" /\ ~ok /\ ~frame["main"].lazy
    BY <1>2, <2>3, MountRetriesLazily
  <2>4. CASE a = "main" /\ op # "init" /\ (ok \/ frame["main"].lazy)
    BY <1>2, <2>4, MountReturnsToClose
  <2> QED  BY <2>1, <2>2, <2>3, <2>4 DEF Actors
<1>3. CASE UnmountGivesUp(a) \/ UnmountCheckFails(a) \/ RemoveRootFails(a)
  <2>1. Returned(a, FALSE)
    BY <1>3 DEF UnmountGivesUp, UnmountCheckFails, RemoveRootFails, CanTryUnmount, Returned
  <2> QED  BY <1>2, <2>1
<1>4. CASE RemoveRoot(a)
  <2> DEFINE c == frame[a].chroot
  <2>1. /\ pc[a] = "unmount" /\ frame[a].mount = 0
        /\ rootDir' = [rootDir EXCEPT ![c] = rootDir[c] /\ c \in ExistingDirs]
        /\ UnmountReturns(a, TRUE)
        /\ UNCHANGED <<mounted, isMounted, exited, cleanupIndex>>
    BY <1>4 DEF RemoveRoot
  <2>2. c \in Chroots /\ mounted \in [Chroots -> SUBSET Mounts] /\ rootDir \in [Chroots -> BOOLEAN]
    BY <2>1 DEF ControlInv, TypeOK, MainConsistent, HandlerConsistent, MainInUnmount, InMainCritical,
       Actors
  <2>3. mounted[c] = {}
    BY <2>1, <2>2, ConstantsAssumption DEF MountInv, UnmountProgress, Mounts
  <2>4. \A d \in Chroots \ {c} : rootDir'[d] = rootDir[d]
    BY <2>1, <2>2
  <2>5. Returned(a, TRUE)
    BY <2>1, <2>3, <2>4 DEF Returned
  <2> QED  BY <1>2, <2>5
<1> QED
  BY <1>1, <1>3, <1>4 DEF UnmountStep

\* A step of the handler that moves no mount, directory or list.
HandlerOnly ==
    /\ UNCHANGED <<mounted, isMounted, rootDir, activeChroots, stuck, defers, exited, op,
                   failing>>
    /\ pc'["main"] = pc["main"] /\ frame'["main"] = frame["main"]
    /\ InTeardown => InTeardown'
    /\ pc'["handler"] = "unmount" =>
            \A j \in mounted[frame'["handler"].chroot] : j <= frame'["handler"].mount

\* A step of the signal goroutine that touches neither mounts nor directories keeps
\* the invariant as long as its loop variable is in step with what it has swept.
LEMMA MountHandlerOnly ==
    ASSUME ControlInv, MountInv, HandlerOnly, SweepProgress'
    PROVE  MountInv'
<1> USE DEF HandlerOnly
<1>0. /\ \A d : (IsActive(d)' <=> IsActive(d)) /\ (IsOpen(d)' <=> IsOpen(d))
      /\ \A d : InTransition(d)' <=> InTransition(d)
      /\ InMainCritical' <=> InMainCritical
      /\ Initializing' <=> Initializing
  BY DEF IsActive, IsOpen, InTransition, InMainCritical, Initializing, MainInUnmount
<1>1. UnmountProgress'
  BY DEF MountInv, UnmountProgress, Actors
<1>2. FlagsCoverMounts' /\ RemoveOnlyUnmounted' /\ AbandonedMeansFailing' /\ ExitLeavesNoMounts'
  BY <1>0 DEF MountInv, FlagsCoverMounts, RemoveOnlyUnmounted, AbandonedMeansFailing,
     ExitLeavesNoMounts
<1>3. InitializeFresh' /\ CloseOnActive'
  BY <1>0 DEF MountInv, InitializeFresh, CloseOnActive, LastDefer
<1>4. MountsAccountedFor' /\ ActiveOpenOrStuck'
  BY <1>0 DEF MountInv, MountsAccountedFor, ActiveOpenOrStuck
<1>5. ActiveDistinct' /\ ActiveHasRoot'
  BY <1>0 DEF MountInv, ActiveDistinct, ActiveHasRoot
<1> QED
  BY <1>1, <1>2, <1>3, <1>4, <1>5 DEF MountInv

\* The teardown outside unmountAndRemove keeps the mount part.
LEMMA MountHandler ==
    ASSUME ControlInv, MountInv, exited = "no",
           \/ SignalArrives \/ cleanupAllChrootsOnSignal \/ cleanupAllChroots
           \/ PermanentlyStopAllChildProcesses \/ StopAllChildProcesses
           \/ StopAllChildProcessesWaited \/ CleanupNext
    PROVE  MountInv'
<1> USE DEF chrootVars, shellVars, hostVars, mainVars
<1>0. /\ pc \in [Actors -> MainLabels \cup HandlerLabels]
      /\ frame \in [Actors -> Frames]
      /\ cleanupIndex \in Nat /\ Len(activeChroots) \in Nat
      /\ \A k \in 1 .. Len(activeChroots) : activeChroots[k] \in Chroots
  BY DEF ControlInv, TypeOK
<1>1. CASE SignalArrives \/ cleanupAllChrootsOnSignal \/ cleanupAllChroots
           \/ PermanentlyStopAllChildProcesses
  <2>1. /\ UNCHANGED <<mounted, isMounted, rootDir, activeChroots, stuck, defers, exited, op,
                       failing, frame, cleanupIndex>>
        /\ pc'["main"] = pc["main"]
        /\ \/ pc'["handler"] = pc["handler"]
           \/ pc'["handler"] \in {"lock", "disallow", "stop"}
        /\ InTeardown => InTeardown'
    BY <1>0, <1>1 DEF SignalArrives, cleanupAllChrootsOnSignal, cleanupAllChroots,
       PermanentlyStopAllChildProcesses, Goto, Actors, InTeardown
  <2>2. HandlerOnly
    BY <2>1 DEF HandlerOnly, MountInv, UnmountProgress, Actors
  <2>3. SweepProgress'
    BY <2>1 DEF MountInv, SweepProgress, Swept
  <2> QED  BY <2>2, <2>3, MountHandlerOnly
<1>2. CASE StopAllChildProcesses \/ StopAllChildProcessesWaited
  <2>1. /\ UNCHANGED <<mounted, isMounted, rootDir, activeChroots, stuck, defers, exited, op,
                       failing, frame>>
        /\ pc'["main"] = pc["main"]
        /\ \/ pc'["handler"] = "stopWait"
           \/ pc'["handler"] = "next" /\ cleanupIndex' = Len(activeChroots)
    BY <1>0, <1>2 DEF StopAllChildProcesses, StopAllChildProcessesWaited, CleanupStart, Goto, Actors
  <2>2. HandlerOnly
    BY <2>1 DEF HandlerOnly, InTeardown
  <2>3. SweepProgress'
    BY <1>0, <2>1 DEF SweepProgress
  <2> QED  BY <2>2, <2>3, MountHandlerOnly
<1>3. CASE CleanupNext /\ cleanupIndex > 0
  <2> DEFINE c == activeChroots[cleanupIndex]
  <2>1. /\ UNCHANGED <<mounted, isMounted, rootDir, activeChroots, stuck, defers, exited, op,
                       failing>>
        /\ pc["handler"] = "next"
        /\ frame' = [frame EXCEPT !["handler"] = UnmountFrame(c, TRUE)]
        /\ cleanupIndex' = cleanupIndex - 1
        /\ pc' = [pc EXCEPT !["handler"] = "unmount"]
    BY <1>3 DEF CleanupNext, Goto
  <2>2. cleanupIndex \in 1 .. Len(activeChroots) /\ c \in Chroots
    BY <1>0, <1>3, <2>1 DEF ControlInv, HandlerConsistent, Sweeping
  <2>3. /\ pc'["main"] = pc["main"] /\ pc'["handler"] = "unmount"
        /\ frame'["main"] = frame["main"] /\ frame'["handler"] = UnmountFrame(c, TRUE)
        /\ frame'["handler"].chroot = c
    BY <1>0, <2>1 DEF Actors, UnmountFrame
  <2>4. HandlerOnly
    BY <2>1, <2>2, <2>3, FreshUnmount DEF HandlerOnly, InTeardown, ControlInv
  <2>5. cleanupIndex' + 1 = cleanupIndex /\ cleanupIndex' < Len(activeChroots)
    BY <1>0, <2>1, <2>2
  <2>6. SweepProgress'
    BY <2>1, <2>3, <2>5 DEF MountInv, SweepProgress, Swept
  <2> QED  BY <2>4, <2>6, MountHandlerOnly
<1>4. CASE CleanupNext /\ ~(cleanupIndex > 0)
  <2>1. /\ UNCHANGED <<mounted, isMounted, rootDir, activeChroots, stuck, defers, exited, op,
                       failing, frame, cleanupIndex>>
        /\ pc["handler"] = "next" /\ cleanupIndex = 0
        /\ pc'["main"] = pc["main"] /\ pc'["handler"] = "exit"
    BY <1>0, <1>4 DEF CleanupNext, Goto, Actors
  <2>2. HandlerOnly
    BY <2>1 DEF HandlerOnly, InTeardown
  <2>3. SweepProgress'
    BY <2>1 DEF MountInv, SweepProgress, Swept
  <2> QED  BY <2>2, <2>3, MountHandlerOnly
<1> QED
  BY <1>1, <1>2, <1>3, <1>4

\* Both ways to exit keep the mount part.
LEMMA MountExits ==
    ASSUME ControlInv, MountInv, HandlerExits \/ MainExits
    PROVE  MountInv'
<1> USE DEF chrootVars, shellVars, hostVars, mainVars
<1>1. UNCHANGED <<mounted, isMounted, rootDir, activeChroots, stuck, defers, op, failing,
                  frame, cleanupIndex, pc>>
  BY DEF HandlerExits, MainExits
<1>2. ASSUME NEW c \in Chroots, mounted[c] # {} PROVE c \in stuck
  <2>1. CASE HandlerExits
    <3>1. pc["handler"] = "exit" /\ InTeardown /\ cleanupIndex = 0
      BY <2>1 DEF HandlerExits, InTeardown, MountInv, SweepProgress
    <3>2. ~InTransition(c)
      BY <3>1 DEF ControlInv, LocksHeld, InTransition
    <3>3. ASSUME IsActive(c) PROVE c \in stuck
      <4>1. PICK k \in 1 .. Len(activeChroots) : activeChroots[k] = c
        BY <3>3 DEF IsActive
      <4>2. k > cleanupIndex
        BY <3>1, <4>1 DEF ControlInv, TypeOK
      <4> QED  BY <1>2, <3>1, <4>1, <4>2 DEF MountInv, SweepProgress, Swept
    <3> QED  BY <1>2, <3>2, <3>3 DEF MountInv, MountsAccountedFor
  <2>2. CASE MainExits
    <3>1. ~InTransition(c)
      BY <2>2 DEF MainExits, InTransition, InMainCritical
    <3>2. ~IsOpen(c)
      BY <2>2 DEF MainExits, IsOpen
    <3> QED  BY <1>2, <3>1, <3>2 DEF MountInv, MountsAccountedFor, ActiveOpenOrStuck
  <2> QED  BY <2>1, <2>2
<1>3. ExitLeavesNoMounts'
  BY <1>1, <1>2 DEF ExitLeavesNoMounts
<1> QED
  BY <1>1, <1>3 DEF MountInv, UnmountProgress, FlagsCoverMounts, RemoveOnlyUnmounted,
     InitializeFresh, CloseOnActive, AbandonedMeansFailing, MountsAccountedFor,
     ActiveOpenOrStuck, ActiveDistinct, ActiveHasRoot, SweepProgress, Swept, IsActive, IsOpen,
     InTransition, InMainCritical, Initializing, MainInUnmount, InTeardown, LastDefer

\* Nothing happens to the mount part once the program is gone.
LEMMA MountStutter ==
    ASSUME MountInv, UNCHANGED vars
    PROVE  MountInv'
  BY DEF vars, MountInv, UnmountProgress, FlagsCoverMounts, RemoveOnlyUnmounted,
     InitializeFresh, CloseOnActive, AbandonedMeansFailing, MountsAccountedFor,
     ActiveOpenOrStuck, ActiveDistinct, ActiveHasRoot, SweepProgress, ExitLeavesNoMounts, Swept,
     IsActive, IsOpen, InTransition, InMainCritical, Initializing, MainInUnmount, InTeardown,
     LastDefer

\* Every step of the program keeps the invariant about mounts.
LEMMA MountNext == ControlInv /\ MountInv /\ [Next]_vars => MountInv'
<1> SUFFICES ASSUME ControlInv, MountInv, [Next]_vars PROVE MountInv'
  OBVIOUS
<1>1. CASE UNCHANGED vars \/ Gone
  BY <1>1, MountStutter DEF Gone
<1>2. CASE exited = "no" /\ MainStep
  BY <1>2, MountInitialize, MountCommands, MountClose, MountUnmount, MountExits DEF MainStep, Actors
<1>3. CASE exited = "no" /\ HandlerStep
  BY <1>3, MountHandler, MountUnmount, MountExits DEF HandlerStep, Actors
<1>4. CASE exited = "no" /\ HostStep
  BY <1>4, MountHandler, MountCommands DEF HostStep
<1> QED
  BY <1>1, <1>2, <1>3, <1>4 DEF Next, Running

\* The invariant about mounts holds throughout every run of the program.
THEOREM MountAlways == Spec => []MountInv
  BY ControlAlways, MountInit, MountNext, PTL DEF Spec

\* os.RemoveAll never runs on a directory with one of the chroot's mounts in it.
THEOREM RemovalAfterUnmount == Spec => []RemoveOnlyUnmounted
<1>1. MountInv => RemoveOnlyUnmounted
  BY DEF MountInv
<1> QED
  BY <1>1, MountAlways, PTL

\* A chroot with mounts can always be found again, or Initialize gave up on it.
THEOREM MountsNeverForgotten == Spec => []MountsAccountedFor
<1>1. MountInv => MountsAccountedFor
  BY DEF MountInv
<1> QED
  BY <1>1, MountAlways, PTL

\* However and whenever the program exits, a chroot is left mounted only if its
\* last unmountAndRemove returned an error.
THEOREM ExitIsClean == Spec => []ExitLeavesNoMounts
<1>1. MountInv => ExitLeavesNoMounts
  BY DEF MountInv
<1> QED
  BY <1>1, MountAlways, PTL
=============================================================================

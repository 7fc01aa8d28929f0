------------------------ MODULE ImageConnection_proofs ------------------------
(* Theorems about ImageConnection, for any number of probes and of attempts. *)
EXTENDS ImageConnection, SequenceTheorems, TLAPS

(***************************************************************************)
(* The inductive invariant, one part for each kind of thing a connection   *)
(* must undo, and one for what it reports.                                 *)
(***************************************************************************)

Increasing(s) == \A i, j \in DOMAIN s : i < j => s[i] < s[j]

ProbeLabels == {"probe", "probeRead", "probeUnmount", "probeRemove", "probeDefers"}

\* Every Mount object knows whether its mount is in place, the mounts at the
\* target lie in the order of the probes, and of the Mounts that are still to
\* be closed only the latest can be mounted.
ProbeInv ==
    /\ Increasing(probeMounts)
    /\ \A p \in ToSet(probeMounts) : p <= probe
    /\ \A p \in Probes : isMounted[p] <=> p \in ToSet(probeMounts)
    /\ \A p \in ToSet(defers) : isMounted[p] => p = probe
    /\ pc \in {"probe", "probeRemove"} => \A p \in ToSet(defers) : ~isMounted[p]
    /\ pc \in {"probeRead", "probeUnmount"} => probe \in Probes /\ isMounted[probe]
    /\ ToSet(probeMounts) \subseteq failed \cup ToSet(defers)
    /\ pc \notin ProbeLabels => defers = <<>>

\* The labels at which a chroot can be active.
ActiveLabels == {"use", "cleanChroot", "closeChroot", "closeOwned", "closeLoop", "done"}

\* A chroot that is mounted is active, or its undoing has failed.
ChrootInv ==
    /\ active => chrootMounted /\ chroot /\ pc \in ActiveLabels
    /\ chrootMounted => active \/ ChrootMount \in failed
    /\ pc \in {"closeOwned", "closeLoop", "done"} /\ chrootMounted => ChrootMount \in failed

\* The labels at which the connection has the device.
AttachedLabels == {"ids", "newLoopbackClose", "probe", "probeRead", "probeUnmount",
                   "probeRemove", "probeDefers", "layout", "chrootInit", "use",
                   "cleanChroot", "cleanOwned", "cleanDetach"}

\* isAttached says whose the device is, and somebody is left to detach it.
DeviceInv ==
    /\ isAttached <=> loop = "bound"
    /\ pc = "start" => loop = "free"
    /\ pc \in AttachedLabels => isAttached
    /\ pc \in {"cleanWait", "cleanIO"} => ~isAttached
    /\ isAttached /\ ~loopback => pc \in {"ids", "newLoopbackClose"} \/ Device \in failed
    /\ pc = "done" /\ isAttached => Device \in failed
    /\ FileSystemsAlive # {} => loop \in {"bound", "autoclear"}
    /\ pc = "cleanIO" => loop \in {"free", "other"}

\* Nothing is reported before Close begins; a clean close stays one.
ResultInv ==
    /\ result # "none" => pc \in {"closeChroot", "closeOwned", "closeLoop", "done"}
    /\ pc = "closeChroot" /\ failing => result = "none"
    /\ failing => pc \in {"newLoopbackClose", "probeDefers", "closeChroot", "closeOwned",
                          "closeLoop", "done"}
    /\ result = "ok" => ~isAttached /\ loop \in {"free", "other"} /\ ~dirty

ConnectionInv == TypeOK /\ ProbeInv /\ ChrootInv /\ DeviceInv /\ ResultInv

-----------------------------------------------------------------------------
(* Sequences as stacks.                                                    *)

\* What Append does to the elements of a sequence.
LEMMA Pushed ==
    ASSUME NEW S, NEW s \in Seq(S), NEW e \in S
    PROVE  /\ Append(s, e) \in Seq(S)
           /\ ToSet(Append(s, e)) = ToSet(s) \cup {e}
<1>1. /\ Append(s, e) \in Seq(S)
      /\ Len(Append(s, e)) = Len(s) + 1
      /\ \A i \in 1 .. Len(s) : Append(s, e)[i] = s[i]
      /\ Append(s, e)[Len(s) + 1] = e
  BY AppendProperties
<1>2. Len(s) \in Nat /\ DOMAIN s = 1 .. Len(s) /\ DOMAIN Append(s, e) = 1 .. Len(s) + 1
  BY <1>1, LenProperties
<1> QED
  BY <1>1, <1>2 DEF ToSet

\* Removing the last element of a sequence leaves the others where they are.
LEMMA Popped ==
    ASSUME NEW S, NEW s \in Seq(S), s # <<>>
    PROVE  /\ Front(s) \in Seq(S)
           /\ Last(s) \in S
           /\ Len(s) \in Nat \ {0}
           /\ Len(Front(s)) = Len(s) - 1
           /\ \A k \in 1 .. Len(s) - 1 : Front(s)[k] = s[k]
           /\ DOMAIN s = 1 .. Len(s)
           /\ DOMAIN Front(s) = 1 .. Len(s) - 1
           /\ ToSet(s) = ToSet(Front(s)) \cup {Last(s)}
<1> DEFINE n == Len(s) - 1
<1>1. n \in Nat /\ Len(s) = n + 1
  BY EmptySeq, LenProperties
<1>2. \A k \in 1 .. n + 1 : s[k] \in S
  BY <1>1, ElementOfSeq
<1>3. /\ Front(s) \in Seq(S)
      /\ Len(Front(s)) = n
      /\ \A k \in 1 .. n : Front(s)[k] = s[k]
  <2> HIDE DEF n
  <2>1. \A k \in 1 .. n : s[k] \in S
    BY <1>1, <1>2
  <2>2. /\ SubSeq(s, 1, n) \in Seq(S)
        /\ Len(SubSeq(s, 1, n)) = IF 1 <= n THEN n - 1 + 1 ELSE 0
        /\ \A i \in 1 .. n - 1 + 1 : SubSeq(s, 1, n)[i] = s[1 + i - 1]
    BY <1>1, <2>1, SubSeqProperties
  <2>3. n - 1 + 1 = n /\ (IF 1 <= n THEN n - 1 + 1 ELSE 0) = n /\ \A i \in 1 .. n : 1 + i - 1 = i
    BY <1>1
  <2>4. Front(s) = SubSeq(s, 1, n)
    BY DEF Front, n
  <2> QED
    BY <2>2, <2>3, <2>4
<1>4. DOMAIN s = 1 .. n + 1 /\ DOMAIN Front(s) = 1 .. n
  BY <1>1, <1>3, LenProperties
<1>5. Last(s) = s[n + 1] /\ Last(s) \in S
  BY <1>1, <1>2 DEF Last
<1>6. ToSet(s) = ToSet(Front(s)) \cup {Last(s)}
  BY <1>1, <1>3, <1>4, <1>5 DEF ToSet
<1> QED
  BY <1>1, <1>3, <1>4, <1>5, <1>6

\* A mount with a higher number goes on top.
LEMMA PushedIncreasing ==
    ASSUME NEW S \in SUBSET Nat, NEW s \in Seq(S), NEW e \in S,
           Increasing(s), \A x \in ToSet(s) : x < e
    PROVE  Increasing(Append(s, e))
<1>1. /\ Len(Append(s, e)) = Len(s) + 1
      /\ \A i \in 1 .. Len(s) : Append(s, e)[i] = s[i]
      /\ Append(s, e)[Len(s) + 1] = e
      /\ Append(s, e) \in Seq(S)
  BY AppendProperties
<1>2. Len(s) \in Nat /\ DOMAIN s = 1 .. Len(s) /\ DOMAIN Append(s, e) = 1 .. Len(s) + 1
  BY <1>1, LenProperties
<1>3. \A i \in 1 .. Len(s) : s[i] < e
  BY <1>2 DEF ToSet
<1> SUFFICES ASSUME NEW i \in 1 .. Len(s) + 1, NEW j \in 1 .. Len(s) + 1, i < j
             PROVE  Append(s, e)[i] < Append(s, e)[j]
  BY <1>2 DEF Increasing
<1>4. CASE j \in 1 .. Len(s)
  BY <1>1, <1>2, <1>4 DEF Increasing
<1>5. CASE j = Len(s) + 1
  BY <1>1, <1>2, <1>3, <1>5
<1> QED
  BY <1>2, <1>4, <1>5

\* The top mount has the highest number, and no second mount has it.
LEMMA PoppedIncreasing ==
    ASSUME NEW S \in SUBSET Nat, NEW s \in Seq(S), s # <<>>, Increasing(s)
    PROVE  /\ Increasing(Front(s))
           /\ Last(s) \in ToSet(s)
           /\ ToSet(Front(s)) = ToSet(s) \ {Last(s)}
           /\ \A x \in ToSet(s) : x <= Last(s)
<1>1. /\ Len(s) \in Nat \ {0}
      /\ \A k \in 1 .. Len(s) - 1 : Front(s)[k] = s[k]
      /\ DOMAIN s = 1 .. Len(s)
      /\ DOMAIN Front(s) = 1 .. Len(s) - 1
      /\ ToSet(s) = ToSet(Front(s)) \cup {Last(s)}
      /\ Last(s) \in Nat
  BY Popped
<1>2. \A k \in 1 .. Len(s) : s[k] \in Nat
  BY <1>1, ElementOfSeq
<1>3. Increasing(Front(s))
  BY <1>1 DEF Increasing
<1>4. \A k \in 1 .. Len(s) - 1 : s[k] < s[Len(s)]
  BY <1>1 DEF Increasing
<1>5. \A x \in ToSet(Front(s)) : x \in Nat /\ x < Last(s)
  BY <1>1, <1>2, <1>4 DEF ToSet, Last
<1>6. Last(s) \notin ToSet(Front(s))
  BY <1>1, <1>5
<1>7. \A x \in ToSet(s) : x <= Last(s)
  <2> SUFFICES ASSUME NEW x \in ToSet(s) PROVE x <= Last(s)
    OBVIOUS
  <2>1. CASE x = Last(s)
    BY <1>1, <2>1
  <2>2. CASE x \in ToSet(Front(s))
    BY <1>1, <1>5, <2>2
  <2> QED
    BY <1>1, <2>1, <2>2
<1>8. Last(s) \in ToSet(s) /\ ToSet(Front(s)) = ToSet(s) \ {Last(s)}
  BY <1>1, <1>6, Zenon
<1> QED
  BY <1>3, <1>7, <1>8

-----------------------------------------------------------------------------
(* Types.                                                                  *)

\* What the close functions may report about.
LEMMA Reportable ==
    /\ ChrootMount \in 0 .. Device /\ Device \in 0 .. Device
    /\ Probes \subseteq 0 .. Device
    /\ ChrootMount \notin Probes /\ Device \notin Probes /\ Device # ChrootMount
  BY ConnectionAssumption DEF ChrootMount, Device, Probes

\* The initial state has its types.
LEMMA TypeInit == Init => TypeOK
<1> SUFFICES ASSUME Init PROVE TypeOK
  OBVIOUS
<1>1. isMounted \in [Probes -> BOOLEAN] /\ fileOrDirCreated \in [Probes -> BOOLEAN]
  BY DEF Init
<1>2. probe \in 0 .. NumProbes
  BY ConnectionAssumption DEF Init
<1>3. {opener, dirty, chrootMounted, targetDir, ownedDir, isAttached, loopback,
       chroot, active, owned, failing} \subseteq BOOLEAN
  BY DEF Init
<1>4. /\ probeMounts \in Seq(Probes) /\ defers \in Seq(Probes)
      /\ busy = {} /\ held = {} /\ failed = {} /\ attempt \in Nat
  BY DEF Init
<1>5. loop = "free" /\ pc = "start" /\ result = "none"
  BY DEF Init
<1> QED
  BY <1>1, <1>2, <1>3, <1>4, <1>5 DEF TypeOK, Labels

\* Every step of the connection keeps the types.
LEMMA TypeConnection ==
    ASSUME TypeOK, ConnectionStep
    PROVE  TypeOK'
<1> USE ConnectionAssumption, Reportable DEF TypeOK, Labels, Fail, hostVars, loopVars, mountVars, connVars, probeVars
<1>1. CASE SetupLoopbackDevice
  BY <1>1 DEF SetupLoopbackDevice, AttachedAfterSetup
<1>2. CASE WaitForDiskDevice
  BY <1>2 DEF WaitForDiskDevice
<1>3. CASE NewLoopbackCloses
  BY <1>3 DEF NewLoopbackCloses, DetachLoopbackDevice, DetachFails, NothingToDetach, AttachedAfterDetach
<1>4. CASE NewMount
  BY <1>4 DEF NewMount, Probes
<1>5. CASE NewMountFails
  BY <1>5 DEF NewMountFails
<1>6. CASE ProbeRead
  <2>1. /\ attempt' \in Nat
        /\ pc' \in Labels
        /\ pc' = "probeUnmount" => attempt' < UnmountAttempts
        /\ pc' # "cleanWait"
    BY <1>6 DEF ProbeRead
  <2> QED
    BY <1>6, <2>1 DEF ProbeRead
<1>7. CASE ProbeUnmount
  <2>0. probeMounts # <<>> => Front(probeMounts) \in Seq(Probes)
    BY Popped
  <2>1. probeMounts' \in Seq(Probes) /\ isMounted' \in [Probes -> BOOLEAN]
    BY <1>7, <2>0 DEF ProbeUnmount, Unmount, MountedAfterClose
  <2>2. held' \subseteq {ChrootMount} \cup Probes
    BY <1>7 DEF ProbeUnmount, Unmount
  <2>3. /\ attempt' \in Nat
        /\ pc' \in Labels
        /\ pc' = "probeUnmount" => attempt' < UnmountAttempts
        /\ pc' # "cleanWait"
    <3>1. CASE pc' = pc /\ attempt' = attempt + 1 /\ MoreUnmountAttempts
      BY <1>7, <3>1 DEF ProbeUnmount, MoreUnmountAttempts
    <3>2. CASE pc' \in {"probeRemove", "probeDefers"} /\ attempt' = attempt
      BY <3>2
    <3> QED
      BY <1>7, <3>1, <3>2 DEF ProbeUnmount
  <2> QED
    BY <1>7, <2>1, <2>2, <2>3 DEF ProbeUnmount
<1>8. CASE ProbeRemove
  BY <1>8 DEF ProbeRemove, RemoveTarget, Removable
<1>9. CASE ProbeReturns
  BY <1>9 DEF ProbeReturns
<1>10. CASE DeferredMountClose
  <2>1. defers # <<>> /\ defers' = Front(defers)
    BY <1>10 DEF DeferredMountClose
  <2>2. defers' \in Seq(Probes) /\ Last(defers) \in Probes
    BY <2>1, Popped
  <2>3. probeMounts' \in Seq(Probes)
    <3>1. probeMounts # <<>> => Front(probeMounts) \in Seq(Probes)
      BY Popped
    <3> QED
      BY <1>10, <3>1 DEF DeferredMountClose, Unmount
  <2>4. isMounted' \in [Probes -> BOOLEAN] /\ fileOrDirCreated' \in [Probes -> BOOLEAN]
    BY <1>10 DEF DeferredMountClose, Unmount, MountedAfterClose
  <2>5. held' \subseteq {ChrootMount} \cup Probes
    BY <1>10 DEF DeferredMountClose, Unmount
  <2>6. failed' \subseteq 0 .. Device
    <3>1. failed' \subseteq failed \cup {Last(defers)}
      BY <1>10 DEF DeferredMountClose
    <3> QED
      BY <2>2, <3>1
  <2>7. targetDir' \in BOOLEAN
    BY <1>10 DEF DeferredMountClose
  <2> QED
    BY <1>10, <2>2, <2>3, <2>4, <2>5, <2>6, <2>7 DEF DeferredMountClose
<1>11. CASE ProbeDone
  BY <1>11 DEF ProbeDone
<1>12. CASE ProbesFinished
  BY <1>12 DEF ProbesFinished
<1>13. CASE PartitionLayoutToMountPoints
  BY <1>13 DEF PartitionLayoutToMountPoints
<1>14. CASE ConnectChroot
  BY <1>14 DEF ConnectChroot
<1>15. CASE Write
  BY <1>15 DEF Write
<1>16. CASE UseDone
  BY <1>16 DEF UseDone
<1>17. CASE CleanCloseChroot
  BY <1>17 DEF CleanCloseChroot, ChrootCloses, ChrootCloseFails
<1>18. CASE CleanCloseOwned
  BY <1>18 DEF CleanCloseOwned
<1>19. CASE CleanCloseDetach
  <2>1. loop' \in {"free", "bound", "autoclear", "other"} /\ failed' \subseteq 0 .. Device
    BY <1>19 DEF CleanCloseDetach, DetachLoopbackDevice, DetachFails, NothingToDetach
  <2>2. isAttached' \in BOOLEAN /\ failing' \in BOOLEAN
    BY <1>19 DEF CleanCloseDetach, DetachLoopbackDevice, DetachFails, NothingToDetach,
                 AttachedAfterDetach
  <2>3. /\ attempt' \in Nat
        /\ pc' \in Labels
        /\ pc' = "cleanWait" => attempt' < DetachAttempts
        /\ pc' # "probeUnmount"
    BY <1>19 DEF CleanCloseDetach
  <2> QED
    BY <1>19, <2>1, <2>2, <2>3 DEF CleanCloseDetach
<1>20. CASE WaitForLoopbackToDetach
  <2>1. /\ attempt' \in Nat
        /\ pc' \in Labels
        /\ pc' = "cleanWait" => attempt' < DetachAttempts
        /\ pc' # "probeUnmount"
    BY <1>20 DEF WaitForLoopbackToDetach, DetachTimeout
  <2>2. failing' \in BOOLEAN
    BY <1>20 DEF WaitForLoopbackToDetach, DetachTimeout
  <2> QED
    BY <1>20, <2>1, <2>2 DEF WaitForLoopbackToDetach
<1>21. CASE BlockOnDiskIOByIds
  BY <1>21 DEF BlockOnDiskIOByIds
<1>22. CASE CloseChroot
  BY <1>22 DEF CloseChroot, ChrootCloses, ChrootCloseFails
<1>23. CASE CloseOwned
  BY <1>23 DEF CloseOwned
<1>24. CASE CloseLoop
  BY <1>24 DEF CloseLoop, DetachLoopbackDevice, DetachFails, NothingToDetach, AttachedAfterDetach
<1> QED
  BY <1>1, <1>2, <1>3, <1>4, <1>5, <1>6, <1>7, <1>8, <1>9, <1>10, <1>11, <1>12, <1>13, <1>14, <1>15, <1>16, <1>17, <1>18, <1>19, <1>20, <1>21, <1>22, <1>23, <1>24 DEF ConnectionStep

\* The host keeps the types.
LEMMA TypeHost ==
    ASSUME TypeOK, HostStep \/ UNCHANGED vars
    PROVE  TypeOK'
<1> USE DEF TypeOK, loopVars, mountVars, connVars, probeVars
<1>1. ASSUME NEW m \in {ChrootMount} \cup Probes, ProcessEnters(m) \/ ProcessLeaves(m)
      PROVE  TypeOK'
  BY <1>1 DEF ProcessEnters, ProcessLeaves
<1>2. CASE HeldProcessWrites
  BY <1>2 DEF HeldProcessWrites
<1>3. CASE Writeback
  BY <1>3 DEF Writeback
<1>4. CASE DeviceOpened
  BY <1>4 DEF DeviceOpened
<1>5. CASE LoopCleared
  BY <1>5 DEF LoopCleared
<1>6. CASE OtherProgramBinds
  BY <1>6 DEF OtherProgramBinds
<1>7. CASE UNCHANGED vars
  BY <1>7 DEF vars
<1> QED
  BY <1>1, <1>2, <1>3, <1>4, <1>5, <1>6, <1>7 DEF HostStep

-----------------------------------------------------------------------------
(* The mounts of the probes.                                               *)

\* The steps that leave the probes' mounts and their Mounts alone.
ProbesAlone ==
    /\ UNCHANGED <<probeMounts, probe, isMounted, defers>>
    /\ ToSet(probeMounts) \cap failed \subseteq failed'

\* A step that leaves them alone keeps their invariant, unless it starts to
\* read or to unmount a probe.
LEMMA ProbesAloneKeep ==
    ASSUME ProbeInv, ProbesAlone,
           \/ pc' \notin {"probeRead", "probeUnmount"} /\ defers = <<>>
           \/ pc' = pc
    PROVE  ProbeInv'
<1>1. ToSet(<<>>) = {}
  BY DEF ToSet
<1> QED
  BY <1>1 DEF ProbeInv, ProbesAlone, ProbeLabels

\* Every step of the connection that is not about a probe leaves them alone.
LEMMA ProbesOutside ==
    ASSUME TypeOK, ProbeInv, ConnectionStep, pc \notin ProbeLabels
    PROVE  ProbeInv'
<1> USE Reportable DEF Fail, hostVars, loopVars, mountVars, connVars, probeVars, ProbesAlone, ProbeLabels
<1>0. ToSet(probeMounts) \subseteq Probes /\ defers = <<>>
  BY DEF ProbeInv, TypeOK, ToSet
<1>1. CASE SetupLoopbackDevice
  BY <1>1, <1>0, ProbesAloneKeep DEF SetupLoopbackDevice, AttachedAfterSetup
<1>2. CASE WaitForDiskDevice
  BY <1>2, <1>0, ProbesAloneKeep DEF WaitForDiskDevice
<1>3. CASE NewLoopbackCloses
  BY <1>3, <1>0, ProbesAloneKeep DEF NewLoopbackCloses, DetachLoopbackDevice, DetachFails, NothingToDetach, AttachedAfterDetach
<1>4. CASE PartitionLayoutToMountPoints
  BY <1>4, <1>0, ProbesAloneKeep DEF PartitionLayoutToMountPoints
<1>5. CASE ConnectChroot
  BY <1>5, <1>0, ProbesAloneKeep DEF ConnectChroot
<1>6. CASE Write
  BY <1>6, <1>0, ProbesAloneKeep DEF Write
<1>7. CASE UseDone
  BY <1>7, <1>0, ProbesAloneKeep DEF UseDone
<1>8. CASE CleanCloseChroot
  BY <1>8, <1>0, ProbesAloneKeep DEF CleanCloseChroot, ChrootCloses, ChrootCloseFails
<1>9. CASE CleanCloseOwned
  BY <1>9, <1>0, ProbesAloneKeep DEF CleanCloseOwned
<1>10. CASE CleanCloseDetach
  BY <1>10, <1>0, ProbesAloneKeep DEF CleanCloseDetach, DetachLoopbackDevice, DetachFails, NothingToDetach, AttachedAfterDetach
<1>11. CASE WaitForLoopbackToDetach
  BY <1>11, <1>0, ProbesAloneKeep DEF WaitForLoopbackToDetach, StillListed, DetachTimeout
<1>12. CASE BlockOnDiskIOByIds
  BY <1>12, <1>0, ProbesAloneKeep DEF BlockOnDiskIOByIds
<1>13. CASE CloseChroot
  BY <1>13, <1>0, ProbesAloneKeep DEF CloseChroot, ChrootCloses, ChrootCloseFails
<1>14. CASE CloseOwned
  BY <1>14, <1>0, ProbesAloneKeep DEF CloseOwned
<1>15. CASE CloseLoop
  BY <1>15, <1>0, ProbesAloneKeep DEF CloseLoop, DetachLoopbackDevice, DetachFails, NothingToDetach, AttachedAfterDetach
<1>16. ~(NewMount \/ NewMountFails \/ ProbeRead \/ ProbeUnmount \/ ProbeRemove
        \/ ProbeReturns \/ DeferredMountClose \/ ProbeDone \/ ProbesFinished)
  BY DEF NewMount, NewMountFails, ProbeRead, ProbeUnmount, ProbeRemove, ProbeReturns, DeferredMountClose, ProbeDone, ProbesFinished
<1> QED
  BY <1>1, <1>2, <1>3, <1>4, <1>5, <1>6, <1>7, <1>8, <1>9, <1>10, <1>11, <1>12, <1>13, <1>14, <1>15, <1>16 DEF ConnectionStep

\* The stacks of a connection as sets of probes.
LEMMA Stacks ==
    ASSUME TypeOK, ProbeInv
    PROVE  /\ Probes \in SUBSET Nat /\ probe \in Nat
           /\ ToSet(probeMounts) \subseteq Probes
           /\ ToSet(defers) \subseteq Probes
           /\ isMounted \in [Probes -> BOOLEAN]
<1>1. Probes \in SUBSET Nat /\ probe \in Nat
  BY ConnectionAssumption DEF TypeOK, Probes
<1>2. \A s \in Seq(Probes) : ToSet(s) \subseteq Probes
  BY DEF ToSet
<1> QED
  BY <1>1, <1>2 DEF TypeOK

\* If the latest Mount is mounted, then its mount is the one on top.
LEMMA LatestOnTop ==
    ASSUME TypeOK, ProbeInv, probe \in Probes, isMounted[probe]
    PROVE  /\ probeMounts # <<>>
           /\ Last(probeMounts) = probe
           /\ Increasing(Front(probeMounts))
           /\ ToSet(Front(probeMounts)) = ToSet(probeMounts) \ {probe}
<1>1. probe \in ToSet(probeMounts) /\ \A p \in ToSet(probeMounts) : p <= probe
  BY DEF ProbeInv
<1>2. probeMounts # <<>>
  BY <1>1 DEF ToSet
<1>3. /\ Increasing(Front(probeMounts))
      /\ Last(probeMounts) \in ToSet(probeMounts)
      /\ ToSet(Front(probeMounts)) = ToSet(probeMounts) \ {Last(probeMounts)}
      /\ \A p \in ToSet(probeMounts) : p <= Last(probeMounts)
  BY <1>2, Stacks, PoppedIncreasing DEF TypeOK, ProbeInv
<1>4. probe <= Last(probeMounts) /\ Last(probeMounts) <= probe
  BY <1>1, <1>3
<1>5. probe \in Nat /\ Last(probeMounts) \in Nat
  BY <1>3, Stacks
<1>6. Last(probeMounts) = probe
  BY <1>4, <1>5
<1> QED
  BY <1>2, <1>3, <1>6

\* Unmounting on behalf of the latest Mount takes its own mount.
LEMMA UnmountLatest ==
    ASSUME TypeOK, ProbeInv, probe \in Probes, isMounted[probe], NEW lazy,
           Unmount(probe, lazy)
    PROVE  /\ Increasing(probeMounts')
           /\ ToSet(probeMounts') = ToSet(probeMounts) \ {probe}
           /\ isMounted' \in [Probes -> BOOLEAN]
           /\ \A p \in Probes : isMounted'[p] <=> isMounted[p] /\ p # probe
<1>1. isMounted' = [isMounted EXCEPT ![probe] = FALSE] /\ probeMounts' = Front(probeMounts)
  BY DEF Unmount, MountedAfterClose
<1>2. isMounted \in [Probes -> BOOLEAN]
  BY Stacks
<1>3. \A p \in Probes : isMounted'[p] <=> isMounted[p] /\ p # probe
  BY <1>1, <1>2
<1>4. isMounted' \in [Probes -> BOOLEAN]
  BY <1>1, <1>2
<1> QED
  BY <1>1, <1>3, <1>4, LatestOnTop

\* Making a mount puts the new probe on top of both stacks.
LEMMA ProbesNewMount ==
    ASSUME TypeOK, ProbeInv, NewMount
    PROVE  ProbeInv'
<1> DEFINE n == probe + 1
<1>1. n \in Probes /\ probe \in Nat
  BY ConnectionAssumption DEF NewMount, TypeOK, Probes
<1>2. /\ probeMounts' = Append(probeMounts, n)
      /\ defers' = Append(defers, n)
      /\ probe' = n
      /\ isMounted' = [isMounted EXCEPT ![n] = TRUE]
      /\ failed' = failed /\ pc = "probe" /\ pc' = "probeRead"
  BY DEF NewMount
<1> HIDE DEF n
<1>3. /\ ToSet(probeMounts') = ToSet(probeMounts) \cup {n}
      /\ ToSet(defers') = ToSet(defers) \cup {n}
  BY <1>1, <1>2, Pushed DEF TypeOK
<1>4. \A p \in ToSet(probeMounts) : p \in Nat /\ p < n /\ p <= n
  BY Stacks DEF ProbeInv, n
<1>5. Increasing(probeMounts')
  BY <1>1, <1>2, <1>4, Stacks, PushedIncreasing DEF TypeOK, ProbeInv
<1>6. \A p \in ToSet(probeMounts') : p <= probe'
  BY <1>1, <1>2, <1>3, <1>4 DEF n
<1>7. \A p \in Probes : isMounted'[p] <=> isMounted[p] \/ p = n
  BY <1>1, <1>2, Stacks
<1>8. \A p \in Probes : isMounted'[p] <=> p \in ToSet(probeMounts')
  BY <1>3, <1>7 DEF ProbeInv
<1>9. \A p \in ToSet(defers) : ~isMounted[p] /\ p \in Probes
  BY <1>2, Stacks DEF ProbeInv
<1>10. \A p \in ToSet(defers') : isMounted'[p] => p = probe'
  BY <1>1, <1>2, <1>3, <1>7, <1>9
<1>11. probe' \in Probes /\ isMounted'[probe']
  BY <1>1, <1>2, <1>7
<1>12. ToSet(probeMounts') \subseteq failed' \cup ToSet(defers')
  BY <1>2, <1>3 DEF ProbeInv
<1> QED
  BY <1>2, <1>5, <1>6, <1>8, <1>10, <1>11, <1>12 DEF ProbeInv, ProbeLabels

\* CleanClose of the latest Mount.
LEMMA ProbesUnmount ==
    ASSUME TypeOK, ProbeInv, ProbeUnmount
    PROVE  ProbeInv'
<1>1. /\ pc = "probeUnmount" /\ probe' = probe /\ defers' = defers /\ failed' = failed
      /\ probe \in Probes /\ isMounted[probe]
  BY DEF ProbeUnmount, ProbeInv
<1>2. CASE Unmount(probe, FALSE) /\ pc' = "probeRemove"
  <2>1. /\ Increasing(probeMounts')
        /\ ToSet(probeMounts') = ToSet(probeMounts) \ {probe}
        /\ \A p \in Probes : isMounted'[p] <=> isMounted[p] /\ p # probe
    BY <1>1, <1>2, UnmountLatest
  <2>2. \A p \in ToSet(defers) : ~isMounted'[p]
    BY <2>1, Stacks DEF ProbeInv
  <2> QED
    BY <1>1, <1>2, <2>1, <2>2 DEF ProbeInv, ProbeLabels
<1>3. CASE UNCHANGED <<probeMounts, isMounted>> /\ pc' \in {pc, "probeDefers"}
  BY <1>1, <1>3 DEF ProbeInv, ProbeLabels
<1> QED
  BY <1>2, <1>3 DEF ProbeUnmount, Fail

\* The deferred Close of a Mount: only the latest can have something to unmount.
LEMMA ProbesDeferred ==
    ASSUME TypeOK, ProbeInv, DeferredMountClose
    PROVE  ProbeInv'
<1> DEFINE p == Last(defers)
<1>1. /\ pc = "probeDefers" /\ pc' = pc /\ probe' = probe
      /\ defers # <<>> /\ defers' = Front(defers)
  BY DEF DeferredMountClose
<1>2. p \in Probes /\ ToSet(defers) = ToSet(defers') \cup {p}
  BY <1>1, Popped DEF TypeOK
<1>3. isMounted[p] => p = probe
  BY <1>2 DEF ProbeInv
<1>4. CASE isMounted[p] /\ Unmount(p, TRUE) /\ failed' = failed \ {p}
  <2>1. /\ Increasing(probeMounts')
        /\ ToSet(probeMounts') = ToSet(probeMounts) \ {p}
        /\ \A q \in Probes : isMounted'[q] <=> isMounted[q] /\ q # p
    BY <1>2, <1>3, <1>4, UnmountLatest
  <2> QED
    BY <1>1, <1>2, <1>4, <2>1, Stacks DEF ProbeInv, ProbeLabels
<1>5. CASE ~isMounted[p] /\ UNCHANGED <<probeMounts, isMounted>> /\ failed' = failed \ {p}
  <2>1. p \notin ToSet(probeMounts)
    BY <1>2, <1>5 DEF ProbeInv
  <2> QED
    BY <1>1, <1>2, <1>5, <2>1 DEF ProbeInv, ProbeLabels
<1>6. CASE isMounted[p] /\ UNCHANGED <<probeMounts, isMounted>> /\ failed' = failed \cup {p}
  BY <1>1, <1>2, <1>6 DEF ProbeInv, ProbeLabels
<1> QED
  BY <1>4, <1>5, <1>6 DEF DeferredMountClose

\* Every step of the connection keeps the invariant of the probes.
LEMMA ProbesConnection ==
    ASSUME TypeOK, ProbeInv, ConnectionStep
    PROVE  ProbeInv'
<1>1. CASE pc \notin ProbeLabels
  BY <1>1, ProbesOutside
<1>2. CASE NewMount
  BY <1>2, ProbesNewMount
<1>3. CASE ProbeUnmount
  BY <1>3, ProbesUnmount
<1>4. CASE DeferredMountClose
  BY <1>4, ProbesDeferred
<1>5. CASE NewMountFails \/ ProbeRead \/ ProbeRemove \/ ProbeReturns \/ ProbeDone \/ ProbesFinished
  <2>1. UNCHANGED <<probeMounts, isMounted, defers, probe, failed>>
    BY <1>5 DEF NewMountFails, ProbeRead, ProbeRemove, ProbeReturns, ProbeDone, ProbesFinished,
                hostVars, mountVars, probeVars
  <2>2. \/ pc' = "probeDefers"
        \/ pc = "probeRead" /\ pc' = "probeUnmount"
        \/ pc = "probeRemove" /\ pc' = "probe"
        \/ defers = <<>> /\ pc' \in {"probe", "closeChroot", "layout"}
    BY <1>5 DEF NewMountFails, ProbeRead, ProbeRemove, ProbeReturns, ProbeDone, ProbesFinished, Fail
  <2>3. ToSet(<<>>) = {}
    BY DEF ToSet
  <2> QED
    BY <2>1, <2>2, <2>3 DEF ProbeInv, ProbeLabels
<1> QED
  BY <1>1, <1>2, <1>3, <1>4, <1>5
     DEF ConnectionStep, ProbeLabels, SetupLoopbackDevice, WaitForDiskDevice, NewLoopbackCloses,
         PartitionLayoutToMountPoints, ConnectChroot, Write, UseDone, CleanCloseChroot,
         CleanCloseOwned, CleanCloseDetach, WaitForLoopbackToDetach, BlockOnDiskIOByIds,
         CloseChroot, CloseOwned, CloseLoop

\* The host does not touch them.
LEMMA ProbesHost ==
    ASSUME TypeOK, ProbeInv, HostStep \/ UNCHANGED vars
    PROVE  ProbeInv'
<1>1. UNCHANGED <<probeMounts, probe, isMounted, defers, pc, failed>>
  BY DEF HostStep, ProcessEnters, ProcessLeaves, HeldProcessWrites, Writeback, DeviceOpened,
         LoopCleared, OtherProgramBinds, vars, mountVars, probeVars
<1> QED
  BY <1>1 DEF ProbeInv

-----------------------------------------------------------------------------
(* The chroot, the device and the result.                                  *)

\* Every step of the connection keeps the invariant of the chroot.
LEMMA ChrootConnection ==
    ASSUME TypeOK, ProbeInv, ChrootInv, ConnectionStep
    PROVE  ChrootInv'
<1> USE Reportable DEF Fail, hostVars, loopVars, mountVars, connVars, probeVars,
                       ChrootInv, ActiveLabels
<1>0. ToSet(defers) \subseteq Probes /\ (defers # <<>> => Last(defers) \in Probes)
  BY Stacks, Popped DEF TypeOK
<1>1. CASE SetupLoopbackDevice
  BY <1>1, <1>0 DEF SetupLoopbackDevice, AttachedAfterSetup
<1>2. CASE WaitForDiskDevice
  BY <1>2, <1>0 DEF WaitForDiskDevice
<1>3. CASE NewLoopbackCloses
  BY <1>3, <1>0 DEF NewLoopbackCloses, DetachLoopbackDevice, DetachFails, NothingToDetach, AttachedAfterDetach
<1>4. CASE NewMount
  BY <1>4, <1>0 DEF NewMount
<1>5. CASE NewMountFails
  BY <1>5, <1>0 DEF NewMountFails
<1>6. CASE ProbeRead
  BY <1>6, <1>0 DEF ProbeRead
<1>7. CASE ProbeUnmount
  BY <1>7, <1>0 DEF ProbeUnmount, Unmount, MountedAfterClose
<1>8. CASE ProbeRemove
  BY <1>8, <1>0 DEF ProbeRemove, RemoveTarget, Removable
<1>9. CASE ProbeReturns
  BY <1>9, <1>0 DEF ProbeReturns
<1>10. CASE DeferredMountClose
  BY <1>10, <1>0 DEF DeferredMountClose, Unmount, MountedAfterClose
<1>11. CASE ProbeDone
  BY <1>11, <1>0 DEF ProbeDone
<1>12. CASE ProbesFinished
  BY <1>12, <1>0 DEF ProbesFinished
<1>13. CASE PartitionLayoutToMountPoints
  BY <1>13, <1>0 DEF PartitionLayoutToMountPoints
<1>14. CASE ConnectChroot
  <2>1. CASE chrootMounted' /\ chroot' /\ active' /\ pc' = "use"
    BY <2>1
  <2>2. CASE /\ chrootMounted' \in BOOLEAN /\ pc' = "closeChroot"
             /\ failed' = (IF chrootMounted' THEN failed \cup {ChrootMount} ELSE failed)
             /\ UNCHANGED <<chroot, active>>
    BY <1>14, <2>2 DEF ConnectChroot
  <2> QED
    BY <1>14, <2>1, <2>2 DEF ConnectChroot
<1>15. CASE Write
  BY <1>15, <1>0 DEF Write
<1>16. CASE UseDone
  BY <1>16, <1>0 DEF UseDone
<1>17. CASE CleanCloseChroot
  BY <1>17, <1>0 DEF CleanCloseChroot, ChrootCloses, ChrootCloseFails
<1>18. CASE CleanCloseOwned
  BY <1>18, <1>0 DEF CleanCloseOwned
<1>19. CASE CleanCloseDetach
  BY <1>19, <1>0 DEF CleanCloseDetach, DetachLoopbackDevice, DetachFails, NothingToDetach, AttachedAfterDetach
<1>20. CASE WaitForLoopbackToDetach
  BY <1>20, <1>0 DEF WaitForLoopbackToDetach, StillListed, DetachTimeout
<1>21. CASE BlockOnDiskIOByIds
  BY <1>21, <1>0 DEF BlockOnDiskIOByIds
<1>22. CASE CloseChroot
  <2>1. CASE ChrootCloses
    BY <1>22, <2>1 DEF CloseChroot, ChrootCloses
  <2>2. CASE ChrootCloseFails
    BY <1>22, <2>2 DEF CloseChroot, ChrootCloseFails
  <2>3. CASE ~chroot /\ UNCHANGED <<chrootMounted, held, active, failed>>
    BY <1>22, <2>3 DEF CloseChroot
  <2> QED
    BY <1>22, <2>1, <2>2, <2>3 DEF CloseChroot
<1>23. CASE CloseOwned
  BY <1>23, <1>0 DEF CloseOwned
<1>24. CASE CloseLoop
  BY <1>24, <1>0 DEF CloseLoop, DetachLoopbackDevice, DetachFails, NothingToDetach, AttachedAfterDetach
<1> QED
  BY <1>1, <1>2, <1>3, <1>4, <1>5, <1>6, <1>7, <1>8, <1>9, <1>10, <1>11, <1>12, <1>13, <1>14, <1>15, <1>16, <1>17, <1>18, <1>19, <1>20, <1>21, <1>22, <1>23, <1>24 DEF ConnectionStep

\* Every step of the connection keeps the invariant of the result.
LEMMA ResultConnection ==
    ASSUME TypeOK, ChrootInv, DeviceInv, ResultInv, ConnectionStep
    PROVE  ResultInv'
<1> USE Reportable DEF Fail, hostVars, loopVars, mountVars, connVars, probeVars, ResultInv
<1>1. CASE SetupLoopbackDevice
  BY <1>1 DEF SetupLoopbackDevice, AttachedAfterSetup
<1>2. CASE WaitForDiskDevice
  BY <1>2 DEF WaitForDiskDevice
<1>3. CASE NewLoopbackCloses
  BY <1>3 DEF NewLoopbackCloses, DetachLoopbackDevice, DetachFails, NothingToDetach, AttachedAfterDetach
<1>4. CASE NewMount
  BY <1>4 DEF NewMount
<1>5. CASE NewMountFails
  BY <1>5 DEF NewMountFails
<1>6. CASE ProbeRead
  BY <1>6 DEF ProbeRead
<1>7. CASE ProbeUnmount
  BY <1>7 DEF ProbeUnmount, Unmount, MountedAfterClose
<1>8. CASE ProbeRemove
  BY <1>8 DEF ProbeRemove, RemoveTarget, Removable
<1>9. CASE ProbeReturns
  BY <1>9 DEF ProbeReturns
<1>10. CASE DeferredMountClose
  BY <1>10 DEF DeferredMountClose, Unmount, MountedAfterClose
<1>11. CASE ProbeDone
  BY <1>11 DEF ProbeDone
<1>12. CASE ProbesFinished
  BY <1>12 DEF ProbesFinished
<1>13. CASE PartitionLayoutToMountPoints
  BY <1>13 DEF PartitionLayoutToMountPoints
<1>14. CASE ConnectChroot
  BY <1>14 DEF ConnectChroot
<1>15. CASE Write
  BY <1>15 DEF Write
<1>16. CASE UseDone
  <2>1. result = "none" /\ pc' \in {"cleanChroot", "closeChroot"} /\ ~failing
    BY <1>16 DEF UseDone
  <2>2. /\ result' # "ok" /\ (result' # "none" => pc' = "closeChroot")
        /\ result' = "none" \/ failing' = failing
    BY <1>16, <2>1 DEF UseDone
  <2> QED
    BY <1>16, <2>1, <2>2 DEF UseDone
<1>17. CASE CleanCloseChroot
  BY <1>17 DEF CleanCloseChroot, ChrootCloses, ChrootCloseFails
<1>18. CASE CleanCloseOwned
  BY <1>18 DEF CleanCloseOwned
<1>19. CASE CleanCloseDetach
  BY <1>19 DEF CleanCloseDetach, DetachLoopbackDevice, DetachFails, NothingToDetach, AttachedAfterDetach
<1>20. CASE WaitForLoopbackToDetach
  BY <1>20 DEF WaitForLoopbackToDetach, StillListed, DetachTimeout
<1>21. CASE BlockOnDiskIOByIds
  <2>1. /\ result = "none" /\ ~isAttached /\ loop \in {"free", "other"}
        /\ UNCHANGED <<loop, isAttached>> /\ pc' = "closeChroot" /\ ~failing
    BY <1>21 DEF BlockOnDiskIOByIds, DeviceInv
  <2>2. CASE result' = "ok" /\ dirty' = FALSE /\ UNCHANGED failing
    BY <2>1, <2>2
  <2>3. CASE result' = result
    BY <2>1, <2>3
  <2> QED
    BY <1>21, <2>2, <2>3 DEF BlockOnDiskIOByIds
<1>22. CASE CloseChroot
  BY <1>22 DEF CloseChroot, ChrootCloses, ChrootCloseFails
<1>23. CASE CloseOwned
  BY <1>23 DEF CloseOwned
<1>24. CASE CloseLoop
  BY <1>24 DEF CloseLoop, DetachLoopbackDevice, DetachFails, NothingToDetach, AttachedAfterDetach
<1> QED
  BY <1>1, <1>2, <1>3, <1>4, <1>5, <1>6, <1>7, <1>8, <1>9, <1>10, <1>11, <1>12, <1>13, <1>14, <1>15, <1>16, <1>17, <1>18, <1>19, <1>20, <1>21, <1>22, <1>23, <1>24 DEF ConnectionStep

\* Every step of the connection keeps the invariant of the device.
LEMMA DeviceConnection ==
    ASSUME TypeOK, ProbeInv, ChrootInv, DeviceInv, ConnectionStep
    PROVE  DeviceInv'
<1> USE Reportable DEF Fail, hostVars, loopVars, mountVars, connVars, probeVars, DeviceInv, AttachedLabels
<1>0. ToSet(defers) \subseteq Probes /\ (defers # <<>> => Last(defers) \in Probes)
  BY Stacks, Popped DEF TypeOK
<1>a. UNCHANGED mountVars => FileSystemsAlive' = FileSystemsAlive
  BY DEF FileSystemsAlive
<1>1. CASE SetupLoopbackDevice
  BY <1>1, <1>0, <1>a DEF SetupLoopbackDevice, AttachedAfterSetup
<1>2. CASE WaitForDiskDevice
  BY <1>2, <1>0, <1>a DEF WaitForDiskDevice
<1>3. CASE NewLoopbackCloses
  BY <1>3, <1>0, <1>a DEF NewLoopbackCloses, DetachLoopbackDevice, DetachFails, NothingToDetach, AttachedAfterDetach
<1>4. CASE NewMount
  BY <1>4, <1>0, <1>a DEF NewMount
<1>5. CASE NewMountFails
  BY <1>5, <1>0, <1>a DEF NewMountFails
<1>6. CASE ProbeRead
  BY <1>6, <1>0, <1>a DEF ProbeRead
<1>7. CASE ProbeUnmount
  BY <1>7, <1>0, <1>a DEF ProbeUnmount, Unmount, MountedAfterClose
<1>8. CASE ProbeRemove
  BY <1>8, <1>0, <1>a DEF ProbeRemove, RemoveTarget, Removable
<1>9. CASE ProbeReturns
  BY <1>9, <1>0, <1>a DEF ProbeReturns
<1>10. CASE DeferredMountClose
  BY <1>10, <1>0, <1>a DEF DeferredMountClose, Unmount, MountedAfterClose
<1>11. CASE ProbeDone
  BY <1>11, <1>0, <1>a DEF ProbeDone
<1>12. CASE ProbesFinished
  BY <1>12, <1>0, <1>a DEF ProbesFinished
<1>13. CASE PartitionLayoutToMountPoints
  BY <1>13, <1>0, <1>a DEF PartitionLayoutToMountPoints
<1>14. CASE ConnectChroot
  BY <1>14, <1>0, <1>a DEF ConnectChroot
<1>15. CASE Write
  BY <1>15, <1>0, <1>a DEF Write
<1>16. CASE UseDone
  BY <1>16, <1>0, <1>a DEF UseDone
<1>17. CASE CleanCloseChroot
  BY <1>17, <1>0, <1>a DEF CleanCloseChroot, ChrootCloses, ChrootCloseFails
<1>18. CASE CleanCloseOwned
  BY <1>18, <1>0, <1>a DEF CleanCloseOwned
<1>19. CASE CleanCloseDetach
  BY <1>19, <1>0, <1>a DEF CleanCloseDetach, DetachLoopbackDevice, DetachFails, NothingToDetach, AttachedAfterDetach
<1>20. CASE WaitForLoopbackToDetach
  BY <1>20, <1>0, <1>a DEF WaitForLoopbackToDetach, StillListed, DetachTimeout, TypeOK
<1>21. CASE BlockOnDiskIOByIds
  BY <1>21, <1>0, <1>a DEF BlockOnDiskIOByIds
<1>22. CASE CloseChroot
  <2>1. FileSystemsAlive' \subseteq FileSystemsAlive
    <3>1. probeMounts' = probeMounts
      BY <1>22 DEF CloseChroot
    <3>2. held' = held \/ (active /\ held' \subseteq held \cup {ChrootMount})
      BY <1>22 DEF CloseChroot, ChrootCloses, ChrootCloseFails
    <3>3. active => chrootMounted
      BY DEF ChrootInv
    <3>4. chrootMounted' => chrootMounted
      BY <1>22 DEF CloseChroot, ChrootCloses, ChrootCloseFails
    <3> QED
      BY <3>1, <3>2, <3>3, <3>4 DEF FileSystemsAlive
  <2>2. Device \in failed => Device \in failed'
    BY <1>22 DEF CloseChroot, ChrootCloses, ChrootCloseFails
  <2> QED
    BY <1>22, <2>1, <2>2 DEF CloseChroot
<1>23. CASE CloseOwned
  BY <1>23, <1>0, <1>a DEF CloseOwned
<1>24. CASE CloseLoop
  BY <1>24, <1>0, <1>a DEF CloseLoop, DetachLoopbackDevice, DetachFails, NothingToDetach, AttachedAfterDetach
<1> QED
  BY <1>1, <1>2, <1>3, <1>4, <1>5, <1>6, <1>7, <1>8, <1>9, <1>10, <1>11, <1>12, <1>13, <1>14, <1>15, <1>16, <1>17, <1>18, <1>19, <1>20, <1>21, <1>22, <1>23, <1>24 DEF ConnectionStep

\* The host keeps the invariants of the chroot, of the device and of the result.
LEMMA HostKeeps ==
    ASSUME TypeOK, ChrootInv, DeviceInv, ResultInv, HostStep \/ UNCHANGED vars
    PROVE  ChrootInv' /\ DeviceInv' /\ ResultInv'
<1> USE DEF loopVars, mountVars, connVars, probeVars
<1>1. ChrootInv'
  BY DEF ChrootInv, HostStep, ProcessEnters, ProcessLeaves, HeldProcessWrites, Writeback,
         DeviceOpened, LoopCleared, OtherProgramBinds, vars
<1>2. /\ UNCHANGED <<pc, isAttached, loopback, failed, result, failing>>
      /\ FileSystemsAlive' \subseteq FileSystemsAlive
  <2>1. UNCHANGED <<pc, isAttached, loopback, failed, result, failing, probeMounts, chrootMounted>>
        /\ held' \subseteq held
    BY DEF HostStep, ProcessEnters, ProcessLeaves, HeldProcessWrites, Writeback,
           DeviceOpened, LoopCleared, OtherProgramBinds, vars
  <2> QED
    BY <2>1 DEF FileSystemsAlive
<1>3. \/ loop' = loop
      \/ loop = "autoclear" /\ loop' = "free" /\ FileSystemsAlive = {}
      \/ loop = "free" /\ loop' = "other" /\ pc # "start"
  BY DEF HostStep, ProcessEnters, ProcessLeaves, HeldProcessWrites, Writeback,
         DeviceOpened, LoopCleared, OtherProgramBinds, vars, DeviceInUse
<1>4. DeviceInv'
  BY <1>2, <1>3 DEF DeviceInv, AttachedLabels
<1>5. dirty' => dirty \/ ChrootMount \in FileSystemsAlive
  BY DEF HostStep, ProcessEnters, ProcessLeaves, HeldProcessWrites, Writeback,
         DeviceOpened, LoopCleared, OtherProgramBinds, vars, FileSystemsAlive
<1>6. ResultInv'
  BY <1>2, <1>3, <1>5 DEF ResultInv, DeviceInv
<1> QED
  BY <1>1, <1>4, <1>6

-----------------------------------------------------------------------------
(* The theorems.                                                           *)

\* Nothing is attached, mounted or reported before the connection is made.
LEMMA ConnectionInit == Init => ConnectionInv
<1> SUFFICES ASSUME Init PROVE ConnectionInv
  OBVIOUS
<1>1. TypeOK
  BY TypeInit
<1>2. /\ ToSet(probeMounts) = {} /\ ToSet(defers) = {} /\ Increasing(probeMounts)
      /\ defers = <<>>
  BY DEF Init, ToSet, Increasing
<1>3. \A p \in Probes : ~isMounted[p]
  BY DEF Init
<1>4. pc = "start"
  BY DEF Init
<1>5. ProbeInv
  BY <1>2, <1>3, <1>4 DEF ProbeInv
<1>6. ~chrootMounted /\ ~active /\ ~isAttached /\ ~failing /\ held = {} /\ result = "none" /\ loop = "free"
  BY DEF Init
<1>7. ChrootInv
  BY <1>6 DEF ChrootInv
<1>8. FileSystemsAlive = {}
  BY <1>2, <1>6 DEF FileSystemsAlive
<1>9. DeviceInv /\ ResultInv
  BY <1>4, <1>6, <1>8 DEF DeviceInv, ResultInv, AttachedLabels
<1> QED
  BY <1>1, <1>5, <1>7, <1>9 DEF ConnectionInv

\* Every step keeps the invariant.
LEMMA ConnectionNext == ConnectionInv /\ [Next]_vars => ConnectionInv'
<1> SUFFICES ASSUME ConnectionInv, [Next]_vars PROVE ConnectionInv'
  OBVIOUS
<1> USE DEF ConnectionInv
<1>1. CASE ConnectionStep
  BY <1>1, TypeConnection, ProbesConnection, ChrootConnection, DeviceConnection, ResultConnection
<1>2. CASE HostStep \/ UNCHANGED vars
  BY <1>2, TypeHost, ProbesHost, HostKeeps
<1> QED
  BY <1>1, <1>2 DEF Next, Done

\* The invariant holds in every reachable state.
THEOREM ConnectionAlways == Spec => []ConnectionInv
  BY ConnectionInit, ConnectionNext, PTL DEF Spec

\* Every variable of a connection keeps its type, and the loops of CleanClose
\* never run past their attempts.
THEOREM ConnectionTypeCorrect == Spec => []TypeOK
<1>1. ConnectionInv => TypeOK
  BY DEF ConnectionInv
<1> QED
  BY <1>1, ConnectionAlways, PTL

\* A CleanClose that returns nil leaves the image file complete and alone.
THEOREM CleanCloseIsClean == Spec => []CleanCloseComplete
<1>1. ConnectionInv => CleanCloseComplete
  BY DEF ConnectionInv, DeviceInv, ResultInv, CleanCloseComplete
<1> QED
  BY <1>1, ConnectionAlways, PTL

\* Once the deferred calls have run, what is left behind was reported.
THEOREM LeftOversReported == Spec => []ClosedOrReported
<1>1. ConnectionInv => ClosedOrReported
  <2> SUFFICES ASSUME ConnectionInv, pc = "done"
               PROVE  /\ ToSet(probeMounts) \subseteq failed
                      /\ chrootMounted => ChrootMount \in failed
                      /\ loop = "bound" => Device \in failed
    BY DEF ClosedOrReported
  <2>1. ToSet(defers) = {}
    BY DEF ConnectionInv, ProbeInv, ProbeLabels, ToSet
  <2> QED
    BY <2>1 DEF ConnectionInv, ProbeInv, ChrootInv, DeviceInv
<1> QED
  BY <1>1, ConnectionAlways, PTL

-----------------------------------------------------------------------------
(* What a step may do to the device and to the mounts.                     *)

\* The device changes hands only as the kernel and the two close functions say.
LEMMA LoopMoves ==
    ASSUME ConnectionInv, [Next]_vars
    PROVE  \/ loop' = loop
           \/ loop = "free" /\ loop' = "bound" /\ result = "none"
           \/ loop = "bound" /\ loop' = "autoclear" /\ result' = result
           \/ loop = "autoclear" /\ loop' = "free" /\ result' = result
           \/ loop = "free" /\ loop' = "other" /\ result' = result
<1> USE DEF ConnectionInv, DeviceInv, loopVars, hostVars, DetachLoopbackDevice, DetachFails, NothingToDetach
<1>1. CASE SetupLoopbackDevice
  BY <1>1 DEF SetupLoopbackDevice, ResultInv
<1>2. CASE NewLoopbackCloses \/ CleanCloseDetach \/ CloseLoop
  BY <1>2 DEF NewLoopbackCloses, CleanCloseDetach, CloseLoop
<1>3. CASE HostStep
  BY <1>3 DEF HostStep, ProcessEnters, ProcessLeaves, HeldProcessWrites, Writeback,
              DeviceOpened, LoopCleared, OtherProgramBinds
<1>4. CASE UNCHANGED vars
  BY <1>4 DEF vars
<1>5. CASE ConnectionStep /\ ~(SetupLoopbackDevice \/ NewLoopbackCloses \/ CleanCloseDetach \/ CloseLoop)
  <2>1. loop' = loop
    BY <1>5 DEF ConnectionStep, WaitForDiskDevice, NewMount, NewMountFails, ProbeRead, ProbeUnmount,
       ProbeRemove, ProbeReturns, DeferredMountClose, ProbeDone, ProbesFinished,
       PartitionLayoutToMountPoints, ConnectChroot, Write, UseDone, CleanCloseChroot,
       CleanCloseOwned, WaitForLoopbackToDetach, BlockOnDiskIOByIds, CloseChroot, CloseOwned
  <2> QED
    BY <2>1
<1> QED
  BY <1>1, <1>2, <1>3, <1>4, <1>5 DEF Next, Done

\* A report is made once, and "ok" only when the device is no longer ours.
LEMMA ResultMoves ==
    ASSUME ConnectionInv, [Next]_vars
    PROVE  \/ result' = result
           \/ /\ result = "none" /\ loop' = loop
              /\ \/ result' \in {"error", "unclean"}
                 \/ result' = "ok" /\ loop \in {"free", "other"}
<1>1. CASE UseDone
  <2>1. loop' = loop /\ pc = "use" /\ result' \in {result, "unclean"}
    BY <1>1 DEF UseDone, hostVars
  <2> QED
    BY <2>1 DEF ConnectionInv, ResultInv
<1>2. CASE BlockOnDiskIOByIds
  BY <1>2 DEF BlockOnDiskIOByIds, ConnectionInv, DeviceInv, ResultInv
<1>3. CASE CloseChroot
  <2>1. loop' = loop /\ pc = "closeChroot" /\ result' = (IF failing THEN "error" ELSE result)
    BY <1>3 DEF CloseChroot, loopVars
  <2>2. failing => result = "none"
    BY <2>1 DEF ConnectionInv, ResultInv
  <2> QED
    BY <2>1, <2>2
<1>4. CASE HostStep
  BY <1>4 DEF HostStep, ProcessEnters, ProcessLeaves, HeldProcessWrites, Writeback,
              DeviceOpened, LoopCleared, OtherProgramBinds
<1>5. CASE UNCHANGED vars
  BY <1>5 DEF vars
<1>6. CASE ConnectionStep /\ ~(UseDone \/ BlockOnDiskIOByIds \/ CloseChroot)
  <2>1. result' = result
    BY <1>6 DEF ConnectionStep, SetupLoopbackDevice, WaitForDiskDevice, NewLoopbackCloses, NewMount,
       NewMountFails, ProbeRead, ProbeUnmount, ProbeRemove, ProbeReturns, DeferredMountClose,
       ProbeDone, ProbesFinished, PartitionLayoutToMountPoints, ConnectChroot, Write,
       CleanCloseChroot, CleanCloseOwned, CleanCloseDetach, WaitForLoopbackToDetach,
       CloseOwned, CloseLoop
  <2> QED
    BY <2>1
<1> QED
  BY <1>1, <1>2, <1>3, <1>4, <1>5, <1>6 DEF Next, Done

\* No close of ours ever detaches a device that is somebody else's by then.
THEOREM OtherDevicesKept == Spec => ForeignDeviceKept
<1>1. ConnectionInv /\ [Next]_vars => [loop = "other" => loop' = "other"]_vars
  BY LoopMoves
<1> QED
  BY <1>1, ConnectionAlways, PTL DEF Spec, ForeignDeviceKept

\* Closing a Mount, in time or deferred, takes away the mount it made.
THEOREM CloseTakesOwnMount == Spec => OwnMountOnly
<1>1. ASSUME ConnectionInv, [Next]_vars, Len(probeMounts') < Len(probeMounts)
      PROVE  Last(probeMounts) = ClosingMount
  <2> USE DEF ConnectionInv
  <2>0. TypeOK /\ ProbeInv /\ Len(probeMounts) \in Nat
    BY <1>1 DEF TypeOK
  <2>1. probeMounts' # probeMounts
    BY <1>1, <2>0
  <2>2. CASE NewMount
    <3>1. Len(probeMounts') = Len(probeMounts) + 1
      <4>1. probe + 1 \in Probes /\ probeMounts' = Append(probeMounts, probe + 1)
        BY <2>2, ConnectionAssumption, <2>0 DEF NewMount, TypeOK, Probes
      <4> QED
        BY <4>1, <2>0, AppendProperties DEF TypeOK
    <3> QED
      BY <1>1, <2>0, <3>1
  <2>3. CASE ProbeUnmount
    <3>1. pc = "probeUnmount" /\ probe \in Probes /\ isMounted[probe]
      BY <2>0, <2>3 DEF ProbeUnmount, ProbeInv
    <3> QED
      BY <2>0, <3>1, LatestOnTop DEF ClosingMount
  <2>4. CASE DeferredMountClose
    <3>1. pc = "probeDefers" /\ defers # <<>> /\ isMounted[Last(defers)]
      BY <2>1, <2>4 DEF DeferredMountClose
    <3>2. Last(defers) \in ToSet(defers) /\ Last(defers) \in Probes
      BY <2>0, <3>1, Popped DEF TypeOK
    <3>3. Last(defers) = probe
      BY <2>0, <3>1, <3>2 DEF ProbeInv
    <3> QED
      BY <2>0, <3>1, <3>2, <3>3, LatestOnTop DEF ClosingMount
  <2>5. CASE HostStep \/ UNCHANGED vars
    BY <2>1, <2>5 DEF HostStep, ProcessEnters, ProcessLeaves, HeldProcessWrites, Writeback,
              DeviceOpened, LoopCleared, OtherProgramBinds, mountVars, vars
  <2>6. CASE ConnectionStep /\ ~(NewMount \/ ProbeUnmount \/ DeferredMountClose)
    BY <2>1, <2>6 DEF ConnectionStep, SetupLoopbackDevice, WaitForDiskDevice, NewLoopbackCloses,
       NewMountFails, ProbeRead, ProbeRemove, ProbeReturns, ProbeDone, ProbesFinished,
       PartitionLayoutToMountPoints, ConnectChroot, Write, UseDone, CleanCloseChroot,
       CleanCloseOwned, CleanCloseDetach, WaitForLoopbackToDetach, BlockOnDiskIOByIds,
       CloseChroot, CloseOwned, CloseLoop, hostVars, mountVars
  <2> QED
    BY <1>1, <2>2, <2>3, <2>4, <2>5, <2>6 DEF Next, Done
<1>2. ConnectionInv /\ [Next]_vars =>
        [Len(probeMounts') < Len(probeMounts) => Last(probeMounts) = ClosingMount]_vars
  BY <1>1
<1> QED
  BY <1>2, ConnectionAlways, PTL DEF Spec, OwnMountOnly

-----------------------------------------------------------------------------
(* The connection implements ImageFile.                                    *)

\* To the code that uses it, a connection is an ImageFile: it is attached,
\* released and let go of in this order, and closed cleanly only after that.
THEOREM ConnectionIsImageFile == Spec => ImplementsImageFile
<1>1. Init => File!FileInit
  BY DEF Init, File!FileInit
<1>2. ASSUME ConnectionInv, [Next]_vars
      PROVE  [File!FileNext]_(File!fileVars)
  <2> USE DEF File!FileNext, File!fileVars, File!Attach, File!Release, File!Released,
              File!ReportClean, File!ReportOther
  <2>1. CASE result' = result
    BY <1>2, <2>1, LoopMoves
  <2>2. CASE /\ result = "none" /\ loop' = loop
             /\ \/ result' \in {"error", "unclean"}
                \/ result' = "ok" /\ loop \in {"free", "other"}
    BY <2>2
  <2> QED
    BY <1>2, <2>1, <2>2, ResultMoves
<1> QED
  BY <1>1, <1>2, ConnectionAlways, PTL DEF Spec, ImplementsImageFile, File!FileSpec

=============================================================================

-------------------------- MODULE OsRequested_proofs --------------------------
(***************************************************************************)
(* What a chain of configuration files asks for is what a customized image *)
(* has: settings that are applied file by file, and the root hash, the     *)
(* extra arguments and the SELinux mode on the command lines that the      *)
(* kernels boot with.                                                      *)
(***************************************************************************)
EXTENDS OsCustomization_proofs, KernelArgs_proofs, FiniteSetTheorems

-----------------------------------------------------------------------------
(* Settings that are applied file by file.                                  *)

\* f[i] is a set after i files, of which each removes some elements and then adds some.
SetSteps(f, n, base, rem, add) ==
    f = [i \in 0..n |-> IF i = 0 THEN base ELSE (f[i - 1] \ rem[i]) \union add[i]]

\* There is such a function.
LEMMA SetStepsExist ==
    ASSUME NEW n \in Nat, NEW base, NEW rem, NEW add
    PROVE  \E f : SetSteps(f, n, base, rem, add)
<1> DEFINE S == SUBSET (base \union UNION {add[i] : i \in 1..n})
           move == [i \in 1..n |-> [x \in S |-> (x \ rem[i]) \union add[i]]]
<1>1. base \in S
  OBVIOUS
<1>2. \A i \in 1..n, x \in S : (x \ rem[i]) \union add[i] \in S
  OBVIOUS
<1>3. \A i \in 1..n, x \in S : move[i][x] = (x \ rem[i]) \union add[i]
  OBVIOUS
<1>4. \A i \in 1..n, x \in S : move[i][x] \in S
  BY <1>2, <1>3, Zenon
<1> HIDE DEF S, move
<1>5. PICK f : StepByStep(f, S, base, move, n)
  BY <1>1, <1>4, RecursionExists
<1>6. \A i \in 1..n : f[i] = (f[i - 1] \ rem[i]) \union add[i]
  <2> TAKE i \in 1..n
  <2>1. i - 1 \in 0..n
    OBVIOUS
  <2>2. f[i - 1] \in S /\ f[i] = move[i][f[i - 1]]
    BY <1>5, <2>1 DEF StepByStep
  <2> QED
    BY <1>3, <2>2, Zenon
<1> DEFINE h == [i \in 0..n |-> IF i = 0 THEN base ELSE (f[i - 1] \ rem[i]) \union add[i]]
<1>7. DOMAIN f = 0..n /\ f = [i \in 0..n |-> f[i]] /\ f[0] = base
  BY <1>5 DEF StepByStep
<1>8. \A i \in 0..n : f[i] = IF i = 0 THEN base ELSE (f[i - 1] \ rem[i]) \union add[i]
  <2> TAKE i \in 0..n
  <2>1. i # 0 => i \in 1..n
    OBVIOUS
  <2> QED
    BY <1>6, <1>7, <2>1, Zenon
<1>9. f = h
  BY <1>7, <1>8, Zenon
<1> QED
  BY <1>9, Zenon DEF SetSteps

\* The last file that names an element decides on it.
LEMMA SetStepsLast ==
    ASSUME NEW n \in Nat, NEW base, NEW rem, NEW add, NEW f, SetSteps(f, n, base, rem, add),
           NEW i \in 1..n, NEW s, s \in rem[i] \union add[i],
           \A j \in 1..n : j > i => s \notin rem[j] \union add[j]
    PROVE  s \in f[n] <=> s \in add[i]
<1> DEFINE T == {k \in Nat : i <= k /\ k <= n => (s \in f[k] <=> s \in add[i])}
<1>0. \A j \in 1..n : f[j] = (f[j - 1] \ rem[j]) \union add[j]
  BY DEF SetSteps
<1>1. 0 \in T
  OBVIOUS
<1>2. ASSUME NEW k \in Nat, k \in T PROVE k + 1 \in T
  <2> SUFFICES ASSUME i <= k + 1, k + 1 <= n PROVE s \in f[k + 1] <=> s \in add[i]
    OBVIOUS
  <2>1. f[k + 1] = (f[k] \ rem[k + 1]) \union add[k + 1]
    <3>1. k + 1 \in 1..n /\ (k + 1) - 1 = k
      OBVIOUS
    <3> QED
      BY <1>0, <3>1
  <2>2. CASE i = k + 1
    BY <2>1, <2>2
  <2>3. CASE i # k + 1
    BY <1>2, <2>1, <2>3
  <2> QED
    BY <2>2, <2>3
<1>3. Nat \subseteq T
  <2> HIDE DEF T
  <2> QED
    BY <1>1, <1>2, NatSet
<1> QED
  BY <1>3

\* The services after the chain: what the last file that names one says of it.
LEMMA ServicesDecided ==
    ASSUME cfg \in Chains, NEW i \in 1..Len(cfg), NEW s, s \in cfg[i].enable \union cfg[i].disable,
           \A j \in 1..Len(cfg) : j > i => s \notin cfg[j].enable \union cfg[j].disable
    PROVE  s \in ServicesOfChain <=> s \notin cfg[i].disable
<1> DEFINE n == Len(cfg)
           rem == [j \in 1..n |-> cfg[j].disable]
           add == [j \in 1..n |-> cfg[j].enable \ cfg[j].disable]
<1>0. n \in Nat
  BY LenChain
<1>1. PICK f : SetSteps(f, n, img.services, rem, add)
  BY <1>0, SetStepsExist
<1>2. \A j \in 1..n : rem[j] = cfg[j].disable /\ add[j] = cfg[j].enable \ cfg[j].disable
  OBVIOUS
<1> HIDE DEF n, rem, add
<1>3. ASSUME NEW h
      PROVE  \A j \in 0..n : (IF j = 0 THEN img.services ELSE (h[j - 1] \ rem[j]) \union add[j]) =
                              (IF j = 0 THEN img.services ELSE ServicesAfter(cfg[j], h[j - 1]))
  <2> TAKE j \in 0..n
  <2>1. j # 0 => rem[j] = cfg[j].disable /\ add[j] = cfg[j].enable \ cfg[j].disable
    BY <1>0, <1>2
  <2> QED
    BY <2>1 DEF ServicesAfter
<1>4. PICK g : g = [j \in 0..n |-> IF j = 0 THEN img.services ELSE ServicesAfter(cfg[j], g[j - 1])]
               /\ ServicesOfChain = g[n]
  <2>1. f = [j \in 0..n |-> IF j = 0 THEN img.services ELSE ServicesAfter(cfg[j], f[j - 1])]
    BY <1>1, <1>3, Zenon DEF SetSteps
  <2> QED
    BY <2>1, Zenon DEF ServicesOfChain, Applied, n
<1>5. SetSteps(g, n, img.services, rem, add)
  BY <1>3, <1>4, Zenon DEF SetSteps
<1>6. i \in 1..n /\ s \in rem[i] \union add[i] /\ \A j \in 1..n : j > i => s \notin rem[j] \union add[j]
  BY <1>2 DEF n
<1>7. s \in g[n] <=> s \in add[i]
  BY <1>0, <1>5, <1>6, SetStepsLast
<1> QED
  BY <1>2, <1>4, <1>6, <1>7

\* The modules that the chain disables: what the last file with a mode of its own for one
\* says of it.
LEMMA DisabledDecided ==
    ASSUME cfg \in Chains, NEW i \in 1..Len(cfg), NEW m \in DOMAIN cfg[i].modules,
           cfg[i].modules[m].mode # "inherit",
           \A j \in 1..Len(cfg) : j > i => ~(m \in DOMAIN cfg[j].modules /\ cfg[j].modules[m].mode # "inherit")
    PROVE  m \in DisabledBefore(Len(cfg) + 1) <=> cfg[i].modules[m].mode = "disable"
<1> DEFINE n == Len(cfg)
           rem == [j \in 1..n |-> ModulesWith(cfg[j], {"always", "auto"})]
           add == [j \in 1..n |-> ModulesWith(cfg[j], {"disable"})]
<1>0. n \in Nat /\ cfg[i].modules[m].mode \in ModuleModes
  BY LenChain, FilesTyped
<1>1. PICK f : SetSteps(f, n, img.disabledModules, rem, add)
  BY <1>0, SetStepsExist
<1>2. \A j \in 1..n : rem[j] = ModulesWith(cfg[j], {"always", "auto"}) /\ add[j] = ModulesWith(cfg[j], {"disable"})
  OBVIOUS
<1> HIDE DEF n, rem, add
<1>3. ASSUME NEW h
      PROVE  \A j \in 0..n : (IF j = 0 THEN img.disabledModules ELSE (h[j - 1] \ rem[j]) \union add[j]) =
                              (IF j = 0 THEN img.disabledModules ELSE DisabledAfter(cfg[j], h[j - 1]))
  <2> TAKE j \in 0..n
  <2>1. j # 0 => rem[j] = ModulesWith(cfg[j], {"always", "auto"}) /\ add[j] = ModulesWith(cfg[j], {"disable"})
    BY <1>0, <1>2
  <2> QED
    BY <2>1 DEF DisabledAfter
<1>4. PICK g : g = [j \in 0..n |-> IF j = 0 THEN img.disabledModules ELSE DisabledAfter(cfg[j], g[j - 1])]
               /\ DisabledBefore(n + 1) = g[(n + 1) - 1]
  <2>1. f = [j \in 0..n |-> IF j = 0 THEN img.disabledModules ELSE DisabledAfter(cfg[j], f[j - 1])]
    BY <1>1, <1>3, Zenon DEF SetSteps
  <2> QED
    BY <2>1, Zenon DEF DisabledBefore, Applied, n
<1>5. SetSteps(g, n, img.disabledModules, rem, add)
  <2>1. [j \in 0..n |-> IF j = 0 THEN img.disabledModules ELSE (g[j - 1] \ rem[j]) \union add[j]] =
            [j \in 0..n |-> IF j = 0 THEN img.disabledModules ELSE DisabledAfter(cfg[j], g[j - 1])]
    BY <1>3, Zenon
  <2> HIDE DEF n, rem, add
  <2> QED
    BY <1>4, <2>1, Zenon DEF SetSteps
<1>6. m \in rem[i] \union add[i] /\ (m \in add[i] <=> cfg[i].modules[m].mode = "disable")
  BY <1>0, <1>2 DEF n, ModulesWith, ModuleModes
<1>7. \A j \in 1..n : j > i => m \notin rem[j] \union add[j]
  <2> TAKE j \in 1..n
  <2> HAVE j > i
  <2>1. ~(m \in DOMAIN cfg[j].modules /\ cfg[j].modules[m].mode # "inherit")
    BY DEF n
  <2>2. m \notin ModulesWith(cfg[j], {"always", "auto"}) /\ m \notin ModulesWith(cfg[j], {"disable"})
    BY <2>1 DEF ModulesWith
  <2> QED
    BY <1>2, <2>2
<1>8. i \in 1..n /\ (n + 1) - 1 = n
  BY <1>0 DEF n
<1>9. m \in g[n] <=> m \in add[i]
  <2>1. i \in 1..n /\ n \in Nat
    BY <1>0, <1>8
  <2> QED
    BY <1>5, <1>6, <1>7, <2>1, SetStepsLast
<1>10. DisabledBefore(n + 1) = g[n]
  BY <1>4, <1>8
<1> QED
  BY <1>6, <1>9, <1>10 DEF n

-----------------------------------------------------------------------------
(* The invariant.                                                           *)

\* What the last file that names a host name, a service or a module says of it.
HostnameAsked == resolveHostname(cfg) # "" => img.hostname = resolveHostname(cfg)

ServicesAsked ==
    \A i \in 1..Len(cfg) : \A s \in cfg[i].enable \union cfg[i].disable :
        (\A j \in 1..Len(cfg) : j > i => s \notin cfg[j].enable \union cfg[j].disable) =>
            (s \in img.services <=> s \notin cfg[i].disable)

ModulesAsked ==
    \A i \in 1..Len(cfg) : \A m \in DOMAIN cfg[i].modules :
        /\ cfg[i].modules[m].mode # "inherit"
        /\ \A j \in 1..Len(cfg) : j > i => ~(m \in DOMAIN cfg[j].modules /\ cfg[j].modules[m].mode # "inherit")
        => (m \in img.disabledModules <=> cfg[i].modules[m].mode = "disable")

\* Each holds from its step on.
RequestedInv ==
    result # "failed" => /\ step > 6 => HostnameAsked
                         /\ step > 10 => ServicesAsked
                         /\ step > 11 => ModulesAsked

\* The fields of an image that it speaks of.
Asked == {"hostname", "services", "disabledModules"}

\* What decides on the command lines that an image boots with.
BootFields == {"distro", "grub", "esp", "verity", "hash", "seConfig"}

\* The image keeps these fields.
Leaves(im, new, fields) == \A x \in fields : new[x] = im[x]

\* A change of other fields leaves them alone.
LEMMA FrameLeaves ==
    ASSUME NEW im, DOMAIN im = ImageFields, NEW new, NEW F, Frame(im, new, F),
           NEW G, G \subseteq ImageFields, F \intersect G = {}
    PROVE  DOMAIN new = ImageFields /\ Leaves(im, new, G)
BY DEF Frame, Leaves

\* What is kept of more is kept of less.
LEMMA LeavesLess ==
    ASSUME NEW im, NEW new, NEW F, NEW G, Leaves(im, new, F), G \subseteq F
    PROVE  Leaves(im, new, G)
BY DEF Leaves

\* So does an edit of grub's configuration.
LEMMA GrubEditLeaves ==
    ASSUME NEW im, DOMAIN im = ImageFields, NEW new, GrubEdit(im, new), NEW G, G \subseteq ImageFields \ {"grub"}
    PROVE  DOMAIN new = ImageFields /\ Leaves(im, new, G)
BY FrameLeaves DEF GrubEdit

\* And a record of written files.
LEMMA WrittenLeaves ==
    ASSUME NEW im, NEW mid, DOMAIN mid = ImageFields, NEW G, G \subseteq ImageFields \ {"unlabelled"},
           Leaves(im, mid, G)
    PROVE  Leaves(im, Written(mid), G)
<1>1. Leaves(mid, Written(mid), G)
  BY WrittenFrame, FrameLeaves
<1> QED
  BY <1>1 DEF Leaves

\* A host name that stays is still the one asked for.
LEMMA HostnameStays ==
    ASSUME HostnameAsked, UNCHANGED cfg, img'.hostname = img.hostname
    PROVE  HostnameAsked'
BY Zenon DEF HostnameAsked

\* A step at another place that leaves these fields alone keeps the invariant.
LEMMA RequestedKept ==
    ASSUME RequestedInv, Control, result = "running", step \notin {6, 10, 11}, step' \in {step, step + 1},
           UNCHANGED cfg, step > 6 => Leaves(img, img', Asked)
    PROVE  RequestedInv'
<1>1. step \in 1..28
  BY DEF Control
<1>2. step' > 6 => step > 6 /\ img'.hostname = img.hostname
  BY <1>1 DEF Leaves, Asked
<1>3. step' > 10 => step > 10 /\ img'.services = img.services
  BY <1>1 DEF Leaves, Asked
<1>4. step' > 11 => step > 11 /\ img'.disabledModules = img.disabledModules
  BY <1>1 DEF Leaves, Asked
<1>5. step' > 6 => HostnameAsked'
  BY <1>2, HostnameStays DEF RequestedInv
<1>6. step' > 10 => ServicesAsked'
  BY <1>3 DEF RequestedInv, ServicesAsked
<1>7. step' > 11 => ModulesAsked'
  BY <1>4 DEF RequestedInv, ModulesAsked
<1> QED
  BY <1>5, <1>6, <1>7 DEF RequestedInv

-----------------------------------------------------------------------------
(* The steps that leave the requested settings alone.                       *)

\* A change of a field is followed by Written or not.
Changed(im, mid) == img' \in {im, mid, Written(mid)}

\* A change that leaves the settings alone is a step that does.
LEMMA ChangedLeaves ==
    ASSUME Shape, NEW mid, DOMAIN mid = ImageFields, NEW G, G \subseteq ImageFields \ {"unlabelled"},
           Leaves(img, mid, G), Changed(img, mid)
    PROVE  Leaves(img, img', G)
<1>1. img' \in {img, mid, Written(mid)}
  BY DEF Changed
<1>2. Leaves(img, img, G) /\ Leaves(img, Written(mid), G)
  BY WrittenLeaves DEF Leaves
<1> QED
  BY <1>1, <1>2

\* The settings and the boot configuration.
Kept == Asked \union BootFields

\* What is kept is of the image and not what labelling changes.
LEMMA KeptFields == Kept \subseteq ImageFields \ {"unlabelled"}
BY DEF Kept, Asked, BootFields, ImageFields

\* The files that a step writes beside these settings.
LEMMA FileStepsKeep ==
    ASSUME Shape,
           \/ PackagesDone \/ KernelCheck \/ AddOrUpdateUsers \/ copyAdditionalDirs \/ copyAdditionalFiles
           \/ addCustomizerRelease \/ addImageHistory \/ runUserScripts \/ removeOsPackageManager
           \/ CheckForInstalledKernel \/ keepSELinux
    PROVE  Leaves(img, img', Kept)
<1>1. DOMAIN img = ImageFields /\ Leaves(img, img, Kept)
  BY DEF Shape, Leaves
<1>2. CASE \/ PackagesDone \/ KernelCheck \/ copyAdditionalDirs \/ copyAdditionalFiles \/ addCustomizerRelease
           \/ addImageHistory \/ runUserScripts \/ CheckForInstalledKernel \/ keepSELinux
  <2>1. Changed(img, img)
    BY <1>2 DEF Changed, PackagesDone, KernelCheck, copyAdditionalDirs, copyAdditionalFiles, addCustomizerRelease,
                addImageHistory, runUserScripts, CheckForInstalledKernel, keepSELinux, Becomes
  <2> QED
    BY <1>1, <2>1, ChangedLeaves, KeptFields
<1>3. CASE AddOrUpdateUsers
  <2> DEFINE mid == [img EXCEPT !.groups = GroupsBefore(Len(cfg) + 1), !.users = UsersBefore(Len(cfg) + 1)]
  <2>1. Frame(img, mid, {"groups", "users"})
    BY DEF Frame
  <2>2. Changed(img, mid)
    BY <1>3 DEF Changed, AddOrUpdateUsers, Becomes
  <2> HIDE DEF mid
  <2> QED
    BY <1>1, <2>1, <2>2, FrameLeaves, ChangedLeaves, KeptFields DEF Kept, Asked, BootFields
<1>4. CASE removeOsPackageManager
  <2> DEFINE mid == [img EXCEPT !.manager = FALSE]
  <2>1. Frame(img, mid, {"manager"})
    BY DEF Frame
  <2>2. Changed(img, mid)
    BY <1>4 DEF Changed, removeOsPackageManager, Becomes
  <2> HIDE DEF mid
  <2> QED
    BY <1>1, <2>1, <2>2, FrameLeaves, ChangedLeaves, KeptFields DEF Kept, Asked, BootFields
<1> QED
  BY <1>2, <1>3, <1>4

\* /etc, resolv.conf, labels, kernels and initramfs files.
LEMMA PlaceStepsKeep ==
    ASSUME Shape,
           \/ SetupEtcOverlay \/ overrideResolvConf \/ restoreResolvConf \/ selinuxSetFiles \/ FinalizeEtcOverlay
           \/ ExtractUkis \/ regenerateInitramfs \/ enableOverlays
    PROVE  Leaves(img, img', Kept)
<1> DEFINE Fields == {"etcMounted", "etcWorkDir", "resolv", "baselineResolv", "unlabelled", "vmlinuz", "initramfs",
                      "dracut", "fstab"}
<1>1. DOMAIN img = ImageFields /\ Leaves(img, img, Kept) /\ Fields \intersect Kept = {}
  BY DEF Shape, Leaves, Kept, Asked, BootFields
<1>2. ASSUME NEW mid, Frame(img, mid, Fields), Changed(img, mid) PROVE Leaves(img, img', Kept)
  <2> HIDE DEF Fields
  <2> QED
    BY <1>1, <1>2, FrameLeaves, ChangedLeaves, KeptFields
<1>3. CASE SetupEtcOverlay
  <2>1. Changed(img, [img EXCEPT !.etcMounted = TRUE, !.etcWorkDir = TRUE])
    BY <1>3 DEF Changed, SetupEtcOverlay, Becomes
  <2>2. Frame(img, [img EXCEPT !.etcMounted = TRUE, !.etcWorkDir = TRUE], Fields)
    BY DEF Frame
  <2> QED
    BY <1>2, <2>1, <2>2
<1>4. CASE overrideResolvConf
  <2>1. Changed(img, [img EXCEPT !.resolv = "host"])
    BY <1>4 DEF Changed, overrideResolvConf
  <2>2. Frame(img, [img EXCEPT !.resolv = "host"], Fields)
    BY DEF Frame
  <2> QED
    BY <1>2, <2>1, <2>2
<1>5. CASE restoreResolvConf
  <2> DEFINE resolv == IF loc.resolv # "none" THEN loc.resolv
                       ELSE IF "systemd-resolved" \in img.services THEN "symlink" ELSE "none"
  <2>1. Changed(img, [img EXCEPT !.resolv = resolv])
    BY <1>5 DEF Changed, restoreResolvConf, Becomes
  <2> HIDE DEF resolv
  <2>2. Frame(img, [img EXCEPT !.resolv = resolv], Fields)
    BY DEF Frame
  <2> QED
    BY <1>2, <2>1, <2>2
<1>6. CASE selinuxSetFiles
  <2>1. Changed(img, [img EXCEPT !.unlabelled = {}])
    BY <1>6 DEF Changed, selinuxSetFiles, Becomes
  <2>2. Frame(img, [img EXCEPT !.unlabelled = {}], Fields)
    BY DEF Frame
  <2> QED
    BY <1>2, <2>1, <2>2
<1>7. CASE FinalizeEtcOverlay
  <2> DEFINE resolv == IF resolveStorage(cfg).reinit THEN img.resolv ELSE img.baselineResolv
             mid == [img EXCEPT !.etcMounted = FALSE, !.etcWorkDir = FALSE, !.baselineResolv = resolv]
  <2>1. Changed(img, mid)
    BY <1>7 DEF Changed, FinalizeEtcOverlay, Becomes
  <2> HIDE DEF resolv
  <2>2. Frame(img, mid, Fields)
    BY DEF Frame
  <2> HIDE DEF mid
  <2> QED
    BY <1>2, <2>1, <2>2
<1>8. CASE ExtractUkis
  <2> DEFINE init == Merge(img.initramfs, [k \in DOMAIN img.esp |-> img.esp[k].init])
             mid == [img EXCEPT !.vmlinuz = img.vmlinuz \union DOMAIN img.esp, !.initramfs = init]
  <2>1. Changed(img, mid)
    BY <1>8 DEF Changed, ExtractUkis, extractKernelAndInitramfsFromUkis
  <2> HIDE DEF init
  <2>2. Frame(img, mid, Fields)
    BY DEF Frame
  <2> HIDE DEF mid
  <2> QED
    BY <1>2, <2>1, <2>2
<1>9. CASE regenerateInitramfs
  <2> DEFINE init == Merge(img.initramfs, [k \in img.libModules |-> img.dracut])
             mid == [img EXCEPT !.initramfs = init]
  <2>1. Changed(img, mid)
    BY <1>9 DEF Changed, regenerateInitramfs, Becomes, RegenerateInitramfs
  <2> HIDE DEF init
  <2>2. Frame(img, mid, Fields)
    BY DEF Frame
  <2> HIDE DEF mid
  <2> QED
    BY <1>2, <2>1, <2>2
<1>10. CASE enableOverlays
  <2> DEFINE booted == addDracutDriver(img, {"overlay"})
             mid == [booted EXCEPT !.fstab = @ \union {"overlay"}]
  <2>1. Changed(img, mid)
    BY <1>10 DEF Changed, enableOverlays
  <2>2. Frame(img, booted, {"dracut"})
    BY DEF Frame, addDracutDriver
  <2> HIDE DEF booted
  <2>3. Frame(booted, mid, {"fstab"})
    BY DEF Frame
  <2> HIDE DEF mid
  <2>4. Frame(img, mid, Fields)
    BY <2>2, <2>3 DEF Frame
  <2> QED
    BY <1>2, <2>1, <2>4
<1> QED
  BY <1>3, <1>4, <1>5, <1>6, <1>7, <1>8, <1>9, <1>10

\* What the steps that edit the boot configuration leave alone.
Apart == Asked \union {"distro", "esp", "hash"}

\* So is what is kept apart from grub.
LEMMA ApartFields == Apart \subseteq ImageFields \ {"unlabelled", "grub"}
BY DEF Apart, Asked, ImageFields

\* The steps that edit command lines and grub's configuration.
LEMMA GrubStepsKeep ==
    ASSUME Shape,
           hardResetBootLoader \/ AddKernelCommandLine \/ handleSELinux \/ enableVerityPartition \/ prepareUki
    PROVE  Leaves(img, img', Apart)
<1>1. DOMAIN img = ImageFields /\ Leaves(img, img, Apart) /\ HasGrub(img)
  BY ImageHasGrub DEF Shape, Leaves
<1>2. ASSUME NEW mid, GrubEdit(img, mid), Changed(img, mid) PROVE Leaves(img, img', Apart)
  BY <1>1, <1>2, GrubEditLeaves, ApartFields, ChangedLeaves, ApartFields
<1>3. CASE hardResetBootLoader
  <2>1. PICK mode : Becomes(Written(configureDiskBootLoader(img, mode, Extra)))
    BY <1>3 DEF hardResetBootLoader
  <2> DEFINE mid == configureDiskBootLoader(img, mode, Extra)
  <2>2. Changed(img, mid)
    BY <2>1 DEF Changed, Becomes
  <2>3. Frame(img, mid, {"grub"})
    BY <1>1, HardResetEdit
  <2> HIDE DEF mid
  <2> QED
    BY <1>1, <2>2, <2>3, FrameLeaves, ChangedLeaves, ApartFields DEF Apart, Asked
<1>4. CASE AddKernelCommandLine
  <2> DEFINE edited == BootCustomizerAddKernelCommandLine(img, Extra)
             mid == WriteToFile(edited)
  <2>1. GrubEdit(img, edited)
    BY <1>1, AddKernelCommandLineEdit
  <2>2. GrubEdit(edited, mid)
    BY <1>1, <2>1, GrubEditHasGrub, WriteToFileEdit
  <2>3. GrubEdit(img, mid)
    BY <1>1, <2>1, <2>2, GrubEditThen
  <2>4. Changed(img, mid)
    BY <1>4 DEF Changed, AddKernelCommandLine, Becomes
  <2> QED
    BY <1>2, <2>3, <2>4
<1>5. CASE handleSELinux
  <2> DEFINE mode == resolveSeLinux(cfg)
             updated == UpdateKernelCommandLineArgs(img, selinuxArgNames, selinuxModeToArgs(mode))
             lines == IF Hard THEN img ELSE WriteToFile(updated)
             mid == UpdateSELinuxModeInConfigFile(lines, mode)
  <2>1. img' = Written(mid)
    BY <1>5 DEF handleSELinux
  <2>2. GrubEdit(img, lines)
    <3>1. GrubEdit(img, updated)
      BY <1>1, UpdateArgsEdit
    <3> HIDE DEF updated
    <3>2. GrubEdit(updated, WriteToFile(updated))
      BY <1>1, <3>1, GrubEditHasGrub, WriteToFileEdit
    <3>3. GrubEdit(img, WriteToFile(updated))
      BY <1>1, <3>1, <3>2, GrubEditThen
    <3> QED
      BY <3>3, GrubEditStays
  <2> HIDE DEF lines
  <2>3. DOMAIN lines = ImageFields /\ Leaves(img, lines, Apart)
    BY <1>1, <2>2, GrubEditLeaves, ApartFields
  <2>4. Frame(lines, mid, {"seConfig"})
    BY DEF UpdateSELinuxModeInConfigFile, Frame
  <2> HIDE DEF mid
  <2>5. DOMAIN mid = ImageFields /\ Leaves(lines, mid, Apart)
    BY <2>3, <2>4, FrameLeaves, ApartFields DEF Apart, Asked
  <2>6. Leaves(img, mid, Apart) /\ Changed(img, mid)
    BY <2>1, <2>3, <2>5 DEF Leaves, Changed
  <2> QED
    BY <2>5, <2>6, ChangedLeaves, ApartFields
<1>6. CASE enableVerityPartition
  <2> DEFINE verity == resolveStorage(cfg).verity
             booted == addDracutDriver(img, {"verity"})
             prepared == IF verity = "root" THEN PrepareForVerity(booted) ELSE booted
             lines == WriteToFile(prepared)
             mid == [lines EXCEPT !.verity = verity]
  <2>1. Changed(img, mid)
    BY <1>6 DEF Changed, enableVerityPartition
  <2>2. Frame(img, booted, {"dracut"})
    BY DEF Frame, addDracutDriver
  <2> HIDE DEF booted
  <2>3. DOMAIN booted = ImageFields /\ Leaves(img, booted, Apart) /\ HasGrub(booted)
    <3>1. booted.grub = img.grub
      BY <1>1, <2>2 DEF Frame, ImageFields
    <3> QED
      BY <1>1, <2>2, <3>1, FrameLeaves, ApartFields DEF Apart, Asked, HasGrub
  <2>4. GrubEdit(booted, prepared)
    BY <2>3, PrepareForVerityEdit, GrubEditStays
  <2> HIDE DEF prepared
  <2>5. GrubEdit(booted, lines)
    <3>1. GrubEdit(prepared, lines)
      BY <2>3, <2>4, GrubEditHasGrub, WriteToFileEdit
    <3> QED
      BY <2>3, <2>4, <3>1, GrubEditThen
  <2> HIDE DEF lines
  <2>6. DOMAIN lines = ImageFields /\ Leaves(booted, lines, Apart)
    BY <2>3, <2>5, GrubEditLeaves, ApartFields
  <2>7. Frame(lines, mid, {"verity"})
    BY DEF Frame
  <2> HIDE DEF mid
  <2>8. DOMAIN mid = ImageFields /\ Leaves(lines, mid, Apart)
    BY <2>6, <2>7, FrameLeaves, ApartFields DEF Apart, Asked
  <2>9. Leaves(img, mid, Apart)
    BY <2>3, <2>6, <2>8 DEF Leaves
  <2> QED
    BY <2>1, <2>8, <2>9, ChangedLeaves, ApartFields
<1>7. CASE prepareUki
  <2> DEFINE g == [img.grub EXCEPT !.kind = "none", !.lines = NoLines]
             mid == [img EXCEPT !.vmlinuz = {}, !.initramfs = NoLines, !.grub = g]
  <2>1. CleanBootDirectory(img) = mid
    BY <1>1 DEF CleanBootDirectory, ImageFields
  <2> HIDE DEF g
  <2>2. Frame(img, mid, {"vmlinuz", "initramfs", "grub"})
    BY DEF Frame
  <2>3. Changed(img, mid)
    BY <1>7, <2>1 DEF Changed, prepareUki
  <2> HIDE DEF mid
  <2> QED
    BY <1>1, <2>2, <2>3, FrameLeaves, ChangedLeaves, ApartFields DEF Apart, Asked
<1> QED
  BY <1>3, <1>4, <1>5, <1>6, <1>7

\* The package manager installs and removes kernels, with their hooks.
LEMMA PackagesKeep ==
    ASSUME Shape, PackageManagement \/ RunPackageOperation
    PROVE  Leaves(img, img', Apart)
<1>1. DOMAIN img = ImageFields /\ Leaves(img, img, Apart) /\ HasGrub(img)
  BY ImageHasGrub DEF Shape, Leaves
<1>2. ASSUME NEW im, DOMAIN im = ImageFields, Leaves(img, im, Apart)
      PROVE  Leaves(img, [im EXCEPT !.etcMounted = FALSE], Apart)
  <2> DEFINE new == [im EXCEPT !.etcMounted = FALSE]
  <2>1. Frame(im, new, {"etcMounted"})
    BY DEF Frame
  <2> HIDE DEF new
  <2>2. Leaves(im, new, Apart)
    BY <1>2, <2>1, FrameLeaves, ApartFields DEF Apart, Asked
  <2>3. Leaves(img, new, Apart)
    BY <1>2, <2>2 DEF Leaves
  <2> QED
    BY <2>3 DEF new
<1>3. CASE PackageManagement
  <2>1. img' = img \/ img' = [img EXCEPT !.etcMounted = FALSE]
    BY <1>3 DEF PackageManagement
  <2> QED
    BY <1>1, <1>2, <2>1
<1>4. CASE RunPackageOperation
  <2>1. PICK im \in KernelChanges(pkgStep) : img' = im \/ img' = [im EXCEPT !.etcMounted = FALSE]
    BY <1>4 DEF RunPackageOperation
  <2>2. \/ im = img
        \/ \E k : im = KernelRemoved(img, k)
        \/ \E k : im = KernelInstalled(img, k)
    BY <2>1 DEF KernelChanges
  <2>3. Frame(img, im, KernelFields)
    BY <1>1, <2>2, KernelInstalledEdit, KernelRemovedEdit, FrameStays
  <2>4. DOMAIN im = ImageFields /\ Leaves(img, im, Apart)
    BY <1>1, <2>3, FrameLeaves, ApartFields DEF Apart, Asked, KernelFields
  <2> QED
    BY <1>2, <2>1, <2>4
<1> QED
  BY <1>3, <1>4

\* The verity hash is written to grub.cfg or to uki-kernel-info.json.
LEMMA VerityImageKeeps ==
    ASSUME Shape, customizeVerityImage
    PROVE  Leaves(img, img', Kept \ {"grub", "hash"})
<1> DEFINE hash == RootHashes[runs]
           grubbed == updateGrubConfigForVerity(img, img.verity, hash)
           G == Kept \ {"grub", "hash"}
<1>1. img' \in {img, [img EXCEPT !.hash = hash], [grubbed EXCEPT !.hash = hash]}
  BY DEF customizeVerityImage
<1>2. GrubEdit(img, grubbed)
  BY ImageHasGrub, VerityEdit
<1> HIDE DEF grubbed, hash
<1>3. G \subseteq ImageFields \ {"grub"} /\ {"hash"} \intersect G = {}
  BY KeptFields
<1> HIDE DEF G
<1>4. Leaves(img, grubbed, G) /\ DOMAIN grubbed = ImageFields
  BY <1>2, <1>3, GrubEditLeaves DEF Shape
<1>5. Frame(grubbed, [grubbed EXCEPT !.hash = hash], {"hash"}) /\ Frame(img, [img EXCEPT !.hash = hash], {"hash"})
  BY DEF Frame
<1>6. Leaves(grubbed, [grubbed EXCEPT !.hash = hash], G) /\ Leaves(img, [img EXCEPT !.hash = hash], G)
  BY <1>3, <1>4, <1>5, FrameLeaves DEF Shape
<1>7. Leaves(img, img', G)
  BY <1>1, <1>4, <1>6 DEF Leaves
<1> QED
  BY <1>7 DEF G

\* The UKIs are all that the last step makes.
LEMMA CreateUkiKeeps ==
    ASSUME Shape, createUki
    PROVE  Leaves(img, img', Kept \ {"esp"})
<1> DEFINE ukis == [k \in DOMAIN ukiInfo.lines |-> [line |-> ukiInfo.lines[k], init |-> ukiInfo.staged[k]]]
           built == [img EXCEPT !.esp = ukis]
           named == [built EXCEPT !.addons = TRUE]
           relined == [k \in DOMAIN img.esp |-> [img.esp[k] EXCEPT !.line = ukiInfo.lines[k]]]
           modified == [img EXCEPT !.esp = relined]
           G == Kept \ {"esp"}
<1>1. img' \in {named, modified, img}
  BY DEF createUki, buildUkis, modifyUkiAddons
<1> HIDE DEF ukis, relined
<1>2. Frame(img, modified, {"esp"}) /\ Frame(img, built, {"esp"}) /\ Frame(built, named, {"addons"})
  BY DEF Frame
<1> HIDE DEF modified, built, named
<1>3. Frame(img, named, {"esp", "addons"}) /\ Frame(img, img, {})
  BY <1>2 DEF Frame
<1>4. G \subseteq ImageFields /\ {"esp", "addons"} \intersect G = {}
  BY DEF G, Kept, Asked, BootFields, ImageFields
<1> HIDE DEF G
<1>5. Leaves(img, named, G) /\ Leaves(img, modified, G) /\ Leaves(img, img, G)
  BY <1>2, <1>3, <1>4, FrameLeaves DEF Shape
<1>6. Leaves(img, img', G)
  BY <1>1, <1>5
<1> QED
  BY <1>6 DEF G

\* All steps but the three that apply the settings.
LEMMA OtherStepsAsked ==
    ASSUME Shape, OtherStep, ~UpdateHostname, ~EnableOrDisableServices, ~LoadOrDisableModules
    PROVE  Leaves(img, img', Asked)
<1>1. Asked \subseteq Kept /\ Asked \subseteq Apart /\ Asked \subseteq Kept \ {"grub", "hash"}
  BY DEF Asked, Kept, Apart, BootFields
<1>2. \/ Leaves(img, img', Kept) \/ Leaves(img, img', Apart) \/ Leaves(img, img', Kept \ {"grub", "hash"})
  BY FileStepsKeep, PlaceStepsKeep, GrubStepsKeep, VerityImageKeeps DEF OtherStep
<1> QED
  BY <1>1, <1>2, LeavesLess

-----------------------------------------------------------------------------
(* The steps that apply the requested settings.                             *)

\* The steps of other names are at other positions.
LEMMA OtherPosition ==
    ASSUME NEW s, AtStep(s), s \notin {"hostname", "services", "modules"}
    PROVE  step \notin {6, 10, 11} /\ result = "running"
BY StepsValues DEF AtStep

\* Each of these steps makes its own part true and leaves the others'.  The host name is that
\* of one file.
LEMMA HostnameRequested ==
    ASSUME ImageInv, RequestedInv, UpdateHostname
    PROVE  RequestedInv'
<1> DEFINE mid == [img EXCEPT !.hostname = resolveHostname(cfg)]
<1>1. Advance /\ AtStep(Steps[6])
  BY StepsValues DEF UpdateHostname, Becomes
<1>2. step = 6 /\ step' = 7 /\ UNCHANGED cfg
  BY <1>1, StepMadeAt DEF ImageInv, Advance
<1>3. resolveHostname(cfg) # "" => img' = Written(mid)
  BY Zenon DEF UpdateHostname, Becomes
<1>4. mid.hostname = resolveHostname(cfg) /\ DOMAIN mid = ImageFields
  BY DEF ImageInv, Shape, ImageFields
<1> HIDE DEF mid
<1>5. Frame(mid, Written(mid), {"unlabelled"})
  BY WrittenFrame
<1>6. Written(mid).hostname = resolveHostname(cfg)
  BY <1>4, <1>5 DEF Frame, ImageFields
<1>7. HostnameAsked'
  BY <1>2, <1>3, <1>6 DEF HostnameAsked
<1> QED
  BY <1>2, <1>7 DEF RequestedInv

\* Services are enabled and disabled file by file.
LEMMA ServicesRequested ==
    ASSUME ImageInv, RequestedInv, EnableOrDisableServices
    PROVE  RequestedInv'
<1> DEFINE mid == [img EXCEPT !.services = ServicesOfChain]
<1>1. Advance /\ AtStep(Steps[10]) /\ img' = Written(mid)
  BY StepsValues DEF EnableOrDisableServices, Becomes
<1>2. step = 10 /\ step' = 11 /\ UNCHANGED <<cfg, result>> /\ result = "running"
  BY <1>1, StepMadeAt DEF ImageInv, Advance, AtStep
<1>3. mid.services = ServicesOfChain /\ mid.hostname = img.hostname /\ DOMAIN mid = ImageFields
  BY DEF ImageInv, Shape, ImageFields
<1> HIDE DEF mid
<1>4. Frame(mid, Written(mid), {"unlabelled"})
  BY WrittenFrame
<1>5. img'.services = ServicesOfChain /\ img'.hostname = img.hostname
  BY <1>1, <1>3, <1>4 DEF Frame, ImageFields
<1>6. HostnameAsked'
  BY <1>2, <1>5, HostnameStays DEF RequestedInv
<1>7. ServicesAsked'
  <2>1. cfg \in Chains
    BY DEF ImageInv, Control
  <2>2. ASSUME NEW i \in 1..Len(cfg), NEW s \in cfg[i].enable \union cfg[i].disable,
               \A j \in 1..Len(cfg) : j > i => s \notin cfg[j].enable \union cfg[j].disable
        PROVE  s \in img'.services <=> s \notin cfg[i].disable
    BY <1>5, <2>1, <2>2, ServicesDecided
  <2> QED
    BY <1>2, <2>2 DEF ServicesAsked
<1> QED
  BY <1>2, <1>6, <1>7 DEF RequestedInv

\* Modules are loaded and disabled file by file.
LEMMA ModulesRequested ==
    ASSUME ImageInv, RequestedInv, LoadOrDisableModules
    PROVE  RequestedInv'
<1> DEFINE loaded == img.loadedModules \union UNION {ModulesWith(cfg[i], {"always"}) : i \in 1..Len(cfg)}
           mid == [img EXCEPT !.disabledModules = DisabledBefore(Len(cfg) + 1), !.loadedModules = loaded]
<1>1. Advance /\ AtStep(Steps[11]) /\ img' = Written(mid)
  BY StepsValues DEF LoadOrDisableModules, Becomes
<1>2. step = 11 /\ step' = 12 /\ UNCHANGED <<cfg, result>> /\ result = "running"
  BY <1>1, StepMadeAt DEF ImageInv, Advance, AtStep
<1> HIDE DEF loaded
<1>3. /\ mid.disabledModules = DisabledBefore(Len(cfg) + 1) /\ mid.hostname = img.hostname
      /\ mid.services = img.services /\ DOMAIN mid = ImageFields
  BY DEF ImageInv, Shape, ImageFields
<1> HIDE DEF mid
<1>4. Frame(mid, Written(mid), {"unlabelled"})
  BY WrittenFrame
<1>5. /\ img'.disabledModules = DisabledBefore(Len(cfg) + 1) /\ img'.hostname = img.hostname
      /\ img'.services = img.services
  BY <1>1, <1>3, <1>4 DEF Frame, ImageFields
<1>6. HostnameAsked' /\ ServicesAsked'
  BY <1>2, <1>5, HostnameStays DEF RequestedInv, ServicesAsked
<1>7. ModulesAsked'
  <2>1. cfg \in Chains
    BY DEF ImageInv, Control
  <2>2. ASSUME NEW i \in 1..Len(cfg), NEW m \in DOMAIN cfg[i].modules, cfg[i].modules[m].mode # "inherit",
               \A j \in 1..Len(cfg) : j > i => ~(m \in DOMAIN cfg[j].modules /\ cfg[j].modules[m].mode # "inherit")
        PROVE  m \in img'.disabledModules <=> cfg[i].modules[m].mode = "disable"
    BY <1>5, <2>1, <2>2, DisabledDecided
  <2> QED
    BY <1>2, <2>2 DEF ModulesAsked
<1> QED
  BY <1>2, <1>6, <1>7 DEF RequestedInv

-----------------------------------------------------------------------------
(* Every step.                                                              *)

\* A step of another name.
LEMMA OtherStepsRequested ==
    ASSUME ImageInv, RequestedInv, OtherStep, ~UpdateHostname, ~EnableOrDisableServices, ~LoadOrDisableModules
    PROVE  RequestedInv'
<1>1. Advance /\ Leaves(img, img', Asked)
  BY OtherStepsAdvance, OtherStepsAsked DEF ImageInv
<1>2. \E s : AtStep(s) /\ s \notin {"hostname", "services", "modules"}
  <2>1. CASE SetupEtcOverlay \/ overrideResolvConf \/ ExtractUkis \/ PackagesDone \/ KernelCheck
             \/ AddOrUpdateUsers \/ copyAdditionalDirs \/ copyAdditionalFiles
    BY <2>1 DEF SetupEtcOverlay, overrideResolvConf, ExtractUkis, PackagesDone, KernelCheck, AddOrUpdateUsers,
                copyAdditionalDirs, copyAdditionalFiles
  <2>2. CASE addCustomizerRelease \/ addImageHistory \/ hardResetBootLoader \/ AddKernelCommandLine
    <3>1. AtStep("release") \/ AtStep("history") \/ AtStep("bootLoader")
      BY <2>2, Zenon DEF addCustomizerRelease, addImageHistory, hardResetBootLoader, AddKernelCommandLine
    <3> QED
      BY <3>1
  <2>6. CASE keepSELinux \/ handleSELinux
    <3>1. AtStep("selinux")
      BY <2>6, Zenon DEF keepSELinux, handleSELinux
    <3> QED
      BY <3>1
  <2>3. CASE enableOverlays \/ enableVerityPartition \/ regenerateInitramfs \/ runUserScripts
    BY <2>3 DEF enableOverlays, enableVerityPartition, regenerateInitramfs, runUserScripts
  <2>4. CASE prepareUki \/ removeOsPackageManager \/ restoreResolvConf \/ selinuxSetFiles
    BY <2>4 DEF prepareUki, removeOsPackageManager, restoreResolvConf, selinuxSetFiles
  <2>5. CASE FinalizeEtcOverlay \/ CheckForInstalledKernel \/ customizeVerityImage
    BY <2>5 DEF FinalizeEtcOverlay, CheckForInstalledKernel, customizeVerityImage
  <2> QED
    BY <2>1, <2>2, <2>3, <2>4, <2>5, <2>6 DEF OtherStep
<1>3. step \notin {6, 10, 11} /\ result = "running"
  BY <1>2, OtherPosition
<1> QED
  BY <1>1, <1>3, RequestedKept DEF Advance, ImageInv

\* The last step, which ends the run.
LEMMA CreateUkiRequested ==
    ASSUME ImageInv, RequestedInv, createUki
    PROVE  RequestedInv'
<1>1. step \notin {6, 10, 11} /\ result = "running"
  BY OtherPosition DEF createUki
<1>2. Leaves(img, img', Asked)
  <2>1. Asked \subseteq Kept \ {"esp"}
    BY DEF Asked, Kept, BootFields
  <2> QED
    BY <2>1, CreateUkiKeeps, LeavesLess DEF ImageInv
<1> QED
  BY <1>1, <1>2, RequestedKept DEF createUki, ImageInv

\* Every step keeps the invariant.
LEMMA RequestedNext == ImageInv /\ RequestedInv /\ [Next]_vars => RequestedInv'
<1> SUFFICES ASSUME ImageInv, RequestedInv, [Next]_vars PROVE RequestedInv'
  OBVIOUS
<1>1. CASE OtherStep
  BY <1>1, OtherStepsRequested, HostnameRequested, ServicesRequested, ModulesRequested
<1>2. CASE createUki
  BY <1>2, CreateUkiRequested
<1>3. CASE StartPackages
  <2>1. step \notin {6, 10, 11} /\ result = "running"
    BY <1>3, OtherPosition DEF StartPackages
  <2>2. UNCHANGED <<img, cfg, step>>
    BY <1>3 DEF StartPackages
  <2> QED
    BY <2>1, <2>2, RequestedKept DEF Leaves, ImageInv
<1>4. CASE PackageManagement \/ RunPackageOperation
  <2>1. step = 4 /\ result = "running" /\ UNCHANGED <<cfg, step>>
    BY <1>4, PackageStepsAtPackages DEF PackageManagement, RunPackageOperation, ImageInv
  <2> QED
    BY <2>1 DEF RequestedInv
<1>5. CASE StepFails
  BY <1>5 DEF StepFails, Abort, RequestedInv
<1>6. CASE \E chain \in Chains : NextRun(chain)
  BY <1>6 DEF NextRun, StartRun, RequestedInv
<1>7. CASE Finished \/ UNCHANGED vars
  <2>1. UNCHANGED <<img, cfg, step, result>>
    BY <1>7 DEF Finished, vars, osVars
  <2>2. HostnameAsked => HostnameAsked'
    BY <2>1, HostnameStays
  <2> QED
    BY <2>1, <2>2 DEF RequestedInv, ServicesAsked, ModulesAsked
<1> QED
  BY <1>1, <1>2, <1>3, <1>4, <1>5, <1>6, <1>7 DEF Next, OtherStep

-----------------------------------------------------------------------------
(* The theorem.                                                             *)

\* The last of some positions.
LEMMA LastIs ==
    ASSUME NEW n \in Nat, NEW S \in SUBSET (1..n), NEW i \in S, \A j \in S : j <= i
    PROVE  (CHOOSE k \in S : \A j \in S : j <= k) = i
<1> DEFINE last == CHOOSE k \in S : \A j \in S : j <= k
<1>1. last \in S /\ \A j \in S : j <= last
  OBVIOUS
<1> HIDE DEF last
<1>2. last <= i /\ i <= last /\ last \in Nat /\ i \in Nat
  BY <1>1
<1>3. last = i
  BY <1>2
<1> QED
  BY <1>3 DEF last

\* The file that the host name is taken from is the last that has one.
LEMMA HostnameOfLast ==
    ASSUME cfg \in Chains, NEW i \in 1..Len(cfg), cfg[i].hostname # "",
           \A j \in 1..Len(cfg) : cfg[j].hostname # "" => j <= i
    PROVE  resolveHostname(cfg) = cfg[i].hostname
<1> DEFINE set == {j \in 1..Len(cfg) : cfg[j].hostname # ""}
<1>1. i \in set /\ (\A j \in set : j <= i) /\ set \in SUBSET (1..Len(cfg)) /\ Len(cfg) \in Nat
  BY LenChain, Zenon
<1>2. (CHOOSE k \in set : \A j \in set : j <= k) = i
  <2> HIDE DEF set
  <2> QED
    BY <1>1, LastIs, Zenon
<1> QED
  BY <1>1, <1>2, Zenon DEF resolveHostname, LastSet

\* os.hostname, os.services and os.modules of a chain of configurations: however the files
\* before the last one that names a host name, a service or a module set it, and whatever the
\* later steps of the run do, the image has what that last file says.
THEOREM LastFileDecides == Spec => []LaterFileWins
<1>1. Init => RequestedInv
  BY DEF Init, RequestedInv
<1>2. OsInv /\ RequestedInv /\ [Next]_vars => RequestedInv'
  BY RequestedNext DEF OsInv
<1>3. OsInv /\ RequestedInv => LaterFileWins
  <2> SUFFICES ASSUME ImageInv, RequestedInv, result = "ok" PROVE LaterFileWins
    BY DEF OsInv, LaterFileWins
  <2>1. cfg \in Chains /\ HostnameAsked /\ ServicesAsked /\ ModulesAsked
    BY DEF ImageInv, Control, RequestedInv
  <2>2. Len(cfg) \in Nat
    BY <2>1, LenChain
  <2>3. ASSUME NEW i \in 1..Len(cfg), cfg[i].hostname # "",
               \A j \in 1..Len(cfg) : cfg[j].hostname # "" => j <= i
        PROVE  img.hostname = cfg[i].hostname
    BY <2>1, <2>3, HostnameOfLast, Zenon DEF HostnameAsked
  <2>4. ASSUME NEW i \in 1..Len(cfg), NEW m \in DOMAIN cfg[i].modules, cfg[i].modules[m].mode # "inherit",
               \A j \in 1..Len(cfg) : m \in DOMAIN cfg[j].modules /\ cfg[j].modules[m].mode # "inherit" => j <= i
        PROVE  m \in img.disabledModules <=> cfg[i].modules[m].mode = "disable"
    BY <2>1, <2>2, <2>4 DEF ModulesAsked
  <2>5. ASSUME NEW i \in 1..Len(cfg), NEW s \in cfg[i].enable \union cfg[i].disable,
               \A j \in 1..Len(cfg) : s \in cfg[j].enable \union cfg[j].disable => j <= i
        PROVE  s \in img.services <=> s \notin cfg[i].disable
    BY <2>1, <2>2, <2>5 DEF ServicesAsked
  <2> QED
    <3>1. ASSUME NEW f \in {cfg[i] : i \in {j \in {i \in 1..Len(cfg) : cfg[i].hostname # ""} :
                                           \A l \in {i \in 1..Len(cfg) : cfg[i].hostname # ""} : l <= j}}
          PROVE  img.hostname = f.hostname
      <4>1. PICK i \in 1..Len(cfg) : /\ f = cfg[i] /\ cfg[i].hostname # ""
                                    /\ \A j \in 1..Len(cfg) : cfg[j].hostname # "" => j <= i
        BY <3>1, Zenon
      <4> QED
        BY <2>3, <4>1, Zenon
    <3> QED
      BY <2>4, <2>5, <3>1, ZenonT(60) DEF LaterFileWins
<1> QED
  BY <1>1, <1>2, <1>3, OsAlways, PTL DEF Spec

-----------------------------------------------------------------------------
(* Sets of command lines, and what the edits of grub's configuration make   *)
(* of them.                                                                 *)

Lines == Seq(Args)

\* Every kernel has a command line of a set.
LinesIn(lines, L) == \A k \in DOMAIN lines : lines[k] \in L

\* grub's configuration: D for GRUB_CMDLINE_LINUX_DEFAULT, X for GRUB_CMDLINE_LINUX or the
\* command of a legacy file, L for the commands of the kernels.
GrubIn(g, D, X, L) == g.dflt \in D /\ g.linux \in X /\ g.device \in STRING /\ LinesIn(g.lines, L)

\* What grub2-mkconfig writes is in a set.
MkconfigIn(D, X, L) == \A dev \in STRING, x \in X, d \in D : (<<Arg("root", dev)>> \o x) \o d \in L

\* An edit in place leads from one set to another.
EditsTo(names, args, L, M) == \A x \in L : updateKernelCommandLineArgsHelper(x, names, args) \in M

\* grub's configuration after grub2-mkconfig.
LEMMA MkconfigLines ==
    ASSUME NEW im, HasGrub(im), NEW D, NEW X, NEW L, MkconfigIn(D, X, L),
           im.grub.dflt \in D, im.grub.linux \in X, im.grub.device \in STRING
    PROVE  GrubIn(CallGrubMkconfig(im).grub, D, X, L)
<1> DEFINE line == (<<Arg("root", im.grub.device)>> \o im.grub.linux) \o im.grub.dflt
           lines == [k \in im.vmlinuz |-> line]
           g == [im.grub EXCEPT !.kind = "mkconfig", !.lines = lines]
<1>1. CallGrubMkconfig(im) = [im EXCEPT !.grub = g]
  BY DEF CallGrubMkconfig
<1>2. line \in L
  BY DEF MkconfigIn
<1> HIDE DEF line
<1>3. LinesIn(lines, L)
  BY <1>2 DEF LinesIn
<1> HIDE DEF lines
<1>4. g.dflt = im.grub.dflt /\ g.linux = im.grub.linux /\ g.device = im.grub.device /\ g.lines = lines
  BY DEF HasGrub, GrubFields
<1> HIDE DEF g
<1>5. CallGrubMkconfig(im).grub = g
  BY <1>1 DEF HasGrub, ImageFields
<1> QED
  BY <1>3, <1>4, <1>5 DEF GrubIn

\* WriteToFile brings the commands of the kernels up to date, where they are generated.
LEMMA WriteToFileLines ==
    ASSUME NEW im, HasGrub(im), NEW D, NEW X, NEW L,
           im.grub.dflt \in D, im.grub.linux \in X, im.grub.device \in STRING,
           im.grub.kind = "mkconfig" => MkconfigIn(D, X, L),
           im.grub.kind # "mkconfig" => LinesIn(im.grub.lines, L)
    PROVE  GrubIn(WriteToFile(im).grub, D, X, L)
BY MkconfigLines DEF WriteToFile, GrubIn

\* An edit of grub.cfg itself.
LEMMA EditGrubCfgLines ==
    ASSUME NEW im, HasGrub(im), NEW names, NEW args, NEW D, NEW X, NEW Y, NEW L, NEW M,
           GrubIn(im.grub, D, X, L), EditsTo(names, args, L, M),
           IF im.grub.kind = "legacy" THEN EditsTo(names, args, X, Y) ELSE X \subseteq Y
    PROVE  GrubIn(EditGrubCfg(im, names, args).grub, D, Y, M)
<1> DEFINE linux == IF im.grub.kind = "legacy" THEN updateKernelCommandLineArgsHelper(im.grub.linux, names, args)
                    ELSE im.grub.linux
           lines == [k \in DOMAIN im.grub.lines |-> updateKernelCommandLineArgsHelper(im.grub.lines[k], names, args)]
           g == EditedGrub(im.grub, names, args)
<1>1. EditGrubCfg(im, names, args) = [im EXCEPT !.grub = g]
  BY DEF EditGrubCfg
<1>2. linux \in Y
  BY DEF GrubIn, EditsTo
<1>3. LinesIn(lines, M)
  BY DEF GrubIn, EditsTo, LinesIn
<1>4. g = [im.grub EXCEPT !.linux = linux, !.lines = lines]
  BY DEF EditedGrub, EveryKernel, HasGrub, GrubFields
<1> HIDE DEF linux, lines, g
<1>5. g.dflt = im.grub.dflt /\ g.linux = linux /\ g.device = im.grub.device /\ g.lines = lines
  BY <1>4 DEF HasGrub, GrubFields
<1>6. EditGrubCfg(im, names, args).grub = g
  BY <1>1 DEF HasGrub, ImageFields
<1> QED
  BY <1>2, <1>3, <1>5, <1>6 DEF GrubIn

\* BootCustomizer.AddKernelCommandLine and WriteToFile.
LEMMA AddedLines ==
    ASSUME NEW im, HasGrub(im), NEW extra, NEW D, NEW E, NEW X, NEW Y, NEW L, NEW M, GrubIn(im.grub, D, X, L),
           im.grub.kind = "mkconfig" => /\ \A d \in D : appendKernelCommandLineArgs(d, extra) \in E
                                        /\ X \subseteq Y /\ MkconfigIn(E, Y, M),
           im.grub.kind = "legacy" => D \subseteq E /\ EditsTo({}, extra, X, Y) /\ EditsTo({}, extra, L, M),
           im.grub.kind = "none" => D \subseteq E /\ X \subseteq Y /\ L \subseteq M
    PROVE  GrubIn(WriteToFile(BootCustomizerAddKernelCommandLine(im, extra)).grub, E, Y, M)
<1> DEFINE new == BootCustomizerAddKernelCommandLine(im, extra)
<1>1. HasGrub(new) /\ new.grub.kind = im.grub.kind
  BY AddKernelCommandLineEdit, GrubEditHasGrub DEF GrubEdit, GrubKept
<1>2. CASE im.grub.kind = "mkconfig"
  <2> DEFINE dflt == appendKernelCommandLineArgs(im.grub.dflt, extra)
             g == [im.grub EXCEPT !.dflt = dflt]
  <2>1. new = [im EXCEPT !.grub = g]
    BY <1>2 DEF BootCustomizerAddKernelCommandLine
  <2>2. dflt \in E
    BY <1>2 DEF GrubIn
  <2> HIDE DEF dflt
  <2>3. g.dflt = dflt /\ g.linux = im.grub.linux /\ g.device = im.grub.device
    BY DEF HasGrub, GrubFields
  <2> HIDE DEF g
  <2>4. new.grub = g
    BY <2>1 DEF HasGrub, ImageFields
  <2> HIDE DEF new
  <2>5. new.grub.dflt \in E /\ new.grub.linux \in Y /\ new.grub.device \in STRING
    BY <1>2, <2>2, <2>3, <2>4 DEF GrubIn
  <2> QED
    BY <1>1, <1>2, <2>5, WriteToFileLines DEF new
<1>3. CASE im.grub.kind = "legacy"
  <2>1. new = EditGrubCfg(im, {}, extra)
    BY <1>3 DEF BootCustomizerAddKernelCommandLine
  <2>2. GrubIn(new.grub, D, Y, M)
    BY <1>3, <2>1, EditGrubCfgLines
  <2> HIDE DEF new
  <2> QED
    BY <1>1, <1>3, <2>2 DEF GrubIn, WriteToFile, new
<1>4. CASE im.grub.kind = "none"
  <2>1. new = im
    BY <1>4 DEF BootCustomizerAddKernelCommandLine
  <2> HIDE DEF new
  <2> QED
    BY <1>4, <2>1 DEF GrubIn, WriteToFile, LinesIn, new
<1> QED
  BY <1>2, <1>3, <1>4 DEF HasGrub, GrubKinds

\* UpdateKernelCommandLineArgs and WriteToFile.
LEMMA UpdatedLines ==
    ASSUME NEW im, HasGrub(im), NEW names, NEW args, NEW D, NEW X, NEW Y, NEW L, NEW M, GrubIn(im.grub, D, X, L),
           im.grub.kind # "none" => EditsTo(names, args, X, Y),
           im.grub.kind = "mkconfig" => MkconfigIn(D, Y, M),
           im.grub.kind = "legacy" => EditsTo(names, args, L, M),
           im.grub.kind = "none" => X \subseteq Y /\ L \subseteq M
    PROVE  GrubIn(WriteToFile(UpdateKernelCommandLineArgs(im, names, args)).grub, D, Y, M)
<1> DEFINE new == UpdateKernelCommandLineArgs(im, names, args)
<1>1. HasGrub(new) /\ new.grub.kind = im.grub.kind
  BY UpdateArgsEdit, GrubEditHasGrub DEF GrubEdit, GrubKept
<1>2. CASE im.grub.kind = "mkconfig"
  <2> DEFINE linux == updateKernelCommandLineArgsHelper(im.grub.linux, names, args)
             g == [im.grub EXCEPT !.linux = linux]
  <2>1. new = [im EXCEPT !.grub = g]
    BY <1>2 DEF UpdateKernelCommandLineArgs
  <2>2. linux \in Y
    BY <1>2 DEF GrubIn, EditsTo
  <2> HIDE DEF linux
  <2>3. g.dflt = im.grub.dflt /\ g.linux = linux /\ g.device = im.grub.device
    BY DEF HasGrub, GrubFields
  <2> HIDE DEF g
  <2>4. new.grub = g
    BY <2>1 DEF HasGrub, ImageFields
  <2> HIDE DEF new
  <2>5. new.grub.dflt \in D /\ new.grub.linux \in Y /\ new.grub.device \in STRING
    BY <1>2, <2>2, <2>3, <2>4 DEF GrubIn
  <2> QED
    BY <1>1, <1>2, <2>5, WriteToFileLines DEF new
<1>3. CASE im.grub.kind = "legacy"
  <2>1. new = EditGrubCfg(im, names, args)
    BY <1>3 DEF UpdateKernelCommandLineArgs
  <2>2. GrubIn(new.grub, D, Y, M)
    BY <1>3, <2>1, EditGrubCfgLines
  <2> HIDE DEF new
  <2> QED
    BY <1>1, <1>3, <2>2 DEF GrubIn, WriteToFile, new
<1>4. CASE im.grub.kind = "none"
  <2>1. new = im
    BY <1>4 DEF UpdateKernelCommandLineArgs
  <2> HIDE DEF new
  <2> QED
    BY <1>4, <2>1 DEF GrubIn, WriteToFile, LinesIn, new
<1> QED
  BY <1>2, <1>3, <1>4 DEF HasGrub, GrubKinds

\* PrepareForVerity and WriteToFile.
LEMMA PreparedLines ==
    ASSUME NEW im, HasGrub(im), NEW D, NEW X, NEW L, GrubIn(im.grub, D, X, L),
           im.grub.kind = "mkconfig" => MkconfigIn(D, X, L)
    PROVE  /\ GrubIn(WriteToFile(im).grub, D, X, L)
           /\ GrubIn(WriteToFile(PrepareForVerity(im)).grub, D, X, L)
<1> DEFINE new == PrepareForVerity(im)
<1>1. GrubIn(WriteToFile(im).grub, D, X, L)
  BY WriteToFileLines DEF GrubIn
<1>2. CASE im.grub.kind = "mkconfig"
  <2> DEFINE g == [im.grub EXCEPT !.device = "mapper"]
  <2>1. new = [im EXCEPT !.grub = g]
    BY <1>2 DEF PrepareForVerity
  <2>2. "mapper" \in STRING
    BY StringLiterals, Zenon
  <2>3. g.dflt = im.grub.dflt /\ g.linux = im.grub.linux /\ g.device = "mapper"
    BY DEF HasGrub, GrubFields
  <2> HIDE DEF g
  <2>4. new.grub = g
    BY <2>1 DEF HasGrub, ImageFields
  <2>5. HasGrub(new) /\ new.grub.kind = im.grub.kind
    BY PrepareForVerityEdit, GrubEditHasGrub DEF GrubEdit, GrubKept
  <2> HIDE DEF new
  <2>6. new.grub.dflt \in D /\ new.grub.linux \in X /\ new.grub.device \in STRING
    BY <2>2, <2>3, <2>4 DEF GrubIn
  <2>7. GrubIn(WriteToFile(new).grub, D, X, L)
    BY <1>2, <2>5, <2>6, WriteToFileLines
  <2> QED
    BY <1>1, <2>7 DEF new
<1>3. CASE im.grub.kind # "mkconfig"
  BY <1>1, <1>3 DEF PrepareForVerity
<1> QED
  BY <1>2, <1>3

\* updateGrubConfigForVerity.
LEMMA VerityLines ==
    ASSUME NEW im, HasGrub(im), NEW verity, NEW hash, NEW D, NEW X, NEW Y, NEW L, NEW M, GrubIn(im.grub, D, X, L),
           EditsTo(verityKernelArgsToRemove, constructVerityKernelCmdlineArgs(verity, hash), L, M),
           verity = "root" => EditsTo({"root"}, <<Arg("root", "mapper")>>, M, M),
           IF im.grub.kind = "legacy"
           THEN /\ EditsTo(verityKernelArgsToRemove, constructVerityKernelCmdlineArgs(verity, hash), X, Y)
                /\ verity = "root" => EditsTo({"root"}, <<Arg("root", "mapper")>>, Y, Y)
           ELSE X \subseteq Y
    PROVE  GrubIn(updateGrubConfigForVerity(im, verity, hash).grub, D, Y, M)
<1> DEFINE hashed == EditGrubCfg(im, verityKernelArgsToRemove, constructVerityKernelCmdlineArgs(verity, hash))
           mapped == EditGrubCfg(hashed, {"root"}, <<Arg("root", "mapper")>>)
<1>1. HasGrub(hashed) /\ hashed.grub.kind = im.grub.kind
  BY EditGrubCfgEdit, GrubEditHasGrub DEF GrubEdit, GrubKept
<1>2. GrubIn(hashed.grub, D, Y, M)
  BY EditGrubCfgLines
<1>3. updateGrubConfigForVerity(im, verity, hash) = IF verity = "root" THEN mapped ELSE hashed
  BY DEF updateGrubConfigForVerity
<1> HIDE DEF hashed
<1>4. verity = "root" => GrubIn(mapped.grub, D, Y, M)
  BY <1>1, <1>2, EditGrubCfgLines
<1> HIDE DEF mapped
<1> QED
  BY <1>2, <1>3, <1>4

\* The hard reset writes every command line anew.
LEMMA ResetLines ==
    ASSUME NEW im, HasGrub(im), NEW mode, NEW extra, NEW D, NEW X, NEW L, MkconfigIn(D, X, L), MkconfigIn(D, X, X),
           extra \o <<KernelOpts>> \in D, getCommonSELinuxArgs(mode) \in X
    PROVE  GrubIn(configureDiskBootLoader(im, mode, extra).grub, D, X, L)
<1> DEFINE fresh == [Grub("mkconfig", getCommonSELinuxArgs(mode), "partition", NoLines)
                       EXCEPT !.dflt = extra \o <<KernelOpts>>]
           line == (<<Arg("root", "partition")>> \o fresh.linux) \o fresh.dflt
           lines == [k \in im.vmlinuz |-> line]
           legacy == [fresh EXCEPT !.kind = "legacy", !.linux = line, !.lines = lines]
           reset == [im EXCEPT !.grub = fresh]
           new == configureDiskBootLoader(im, mode, extra)
<1>1. new = [im EXCEPT !.grub = legacy] \/ new = CallGrubMkconfig(reset)
  BY DEF configureDiskBootLoader
<1>2. /\ DOMAIN fresh = GrubFields /\ fresh.kind = "mkconfig" /\ fresh.device = "partition"
      /\ fresh.linux = getCommonSELinuxArgs(mode) /\ fresh.dflt = extra \o <<KernelOpts>>
  BY DEF Grub, GrubFields
<1>3. "partition" \in STRING
  BY StringLiterals, Zenon
<1> HIDE DEF fresh, new
<1>4. line \in L /\ line \in X
  BY <1>2, <1>3 DEF MkconfigIn
<1> HIDE DEF line
<1>5. LinesIn(lines, L)
  BY <1>4 DEF LinesIn
<1> HIDE DEF lines
<1>6. CASE new = [im EXCEPT !.grub = legacy]
  <2>1. legacy.dflt = fresh.dflt /\ legacy.linux = line /\ legacy.device = fresh.device /\ legacy.lines = lines
    BY <1>2 DEF GrubFields
  <2> HIDE DEF legacy
  <2>2. new.grub = legacy
    BY <1>6 DEF HasGrub, ImageFields
  <2>3. GrubIn(new.grub, D, X, L)
    BY <1>2, <1>3, <1>4, <1>5, <2>1, <2>2 DEF GrubIn
  <2> QED
    BY <2>3 DEF new
<1>7. CASE new = CallGrubMkconfig(reset)
  <2>1. DOMAIN reset = ImageFields /\ reset.grub = fresh
    BY DEF HasGrub, ImageFields
  <2> HIDE DEF reset
  <2>2. HasGrub(reset)
    BY <1>2, <2>1 DEF HasGrub, GrubKinds
  <2>3. GrubIn(CallGrubMkconfig(reset).grub, D, X, L)
    BY <1>2, <1>3, <2>1, <2>2, MkconfigLines
  <2> QED
    BY <1>7, <2>3 DEF new
<1> QED
  BY <1>1, <1>6, <1>7

\* A kernel that comes gets the command line of the others.
LEMMA InstalledLines ==
    ASSUME NEW im, HasGrub(im), NEW k, NEW D, NEW X, NEW L, GrubIn(im.grub, D, X, L), MkconfigIn(D, X, L),
           im.grub.kind = "legacy" => X \subseteq L
    PROVE  GrubIn(KernelInstalled(im, k).grub, D, X, L)
<1> DEFINE init == Merge(im.initramfs, [x \in {k} |-> im.dracut])
           mid == [im EXCEPT !.libModules = @ \union {k}, !.vmlinuz = @ \union {k}, !.initramfs = init]
           lines == Merge(im.grub.lines, [x \in {k} |-> im.grub.linux])
           new == KernelInstalled(im, k)
<1>1. new = CASE im.grub.kind = "mkconfig" -> CallGrubMkconfig(mid)
              [] im.grub.kind = "legacy" -> [mid EXCEPT !.grub.lines = Merge(@, [x \in {k} |-> im.grub.linux])]
              [] OTHER -> mid
  BY DEF KernelInstalled
<1>2. im.grub.kind = "legacy" => LinesIn(lines, L)
  BY DEF LinesIn, Merge, GrubIn
<1> HIDE DEF init, new
<1>3. DOMAIN mid = ImageFields /\ mid.grub = im.grub
  BY DEF HasGrub, ImageFields
<1> HIDE DEF mid
<1>4. HasGrub(mid)
  BY <1>3 DEF HasGrub
<1>5. CASE im.grub.kind = "mkconfig"
  <2>1. GrubIn(CallGrubMkconfig(mid).grub, D, X, L)
    BY <1>3, <1>4, MkconfigLines DEF GrubIn
  <2> QED
    BY <1>1, <1>5, <2>1 DEF new
<1>6. CASE im.grub.kind = "legacy"
  <2> DEFINE g == [im.grub EXCEPT !.lines = lines]
  <2>1. new = [mid EXCEPT !.grub = g]
    BY <1>1, <1>3, <1>6
  <2> HIDE DEF lines
  <2>2. g.dflt = im.grub.dflt /\ g.linux = im.grub.linux /\ g.device = im.grub.device /\ g.lines = lines
    BY DEF HasGrub, GrubFields
  <2> HIDE DEF g
  <2>3. new.grub = g
    BY <1>3, <2>1 DEF ImageFields
  <2>4. GrubIn(new.grub, D, X, L)
    BY <1>2, <1>6, <2>2, <2>3 DEF GrubIn
  <2> QED
    BY <2>4 DEF new
<1>7. CASE im.grub.kind = "none"
  <2>1. new = mid
    BY <1>1, <1>7
  <2> QED
    BY <1>3, <2>1 DEF new
<1> QED
  BY <1>5, <1>6, <1>7 DEF HasGrub, GrubKinds

\* A kernel that goes leaves the others theirs.
LEMMA RemovedLines ==
    ASSUME NEW im, HasGrub(im), NEW k, NEW D, NEW X, NEW L, GrubIn(im.grub, D, X, L)
    PROVE  GrubIn(KernelRemoved(im, k).grub, D, X, L)
<1> DEFINE init == [x \in DOMAIN im.initramfs \ {k} |-> im.initramfs[x]]
           lines == [x \in DOMAIN im.grub.lines \ {k} |-> im.grub.lines[x]]
           g == [im.grub EXCEPT !.lines = lines]
           new == KernelRemoved(im, k)
<1>1. LinesIn(lines, L)
  BY DEF LinesIn, GrubIn
<1>2. new = [im EXCEPT !.libModules = im.libModules \ {k}, !.vmlinuz = im.vmlinuz \ {k},
                       !.initramfs = init, !.grub = g]
  BY DEF KernelRemoved, HasGrub, ImageFields
<1> HIDE DEF init, lines, new
<1>3. g.dflt = im.grub.dflt /\ g.linux = im.grub.linux /\ g.device = im.grub.device /\ g.lines = lines
  BY DEF HasGrub, GrubFields
<1> HIDE DEF g
<1>4. new.grub = g
  BY <1>2 DEF HasGrub, ImageFields
<1>5. GrubIn(new.grub, D, X, L)
  BY <1>1, <1>3, <1>4 DEF GrubIn
<1> QED
  BY <1>5 DEF new

-----------------------------------------------------------------------------
(* What the steps do to grub's configuration and to uki-kernel-info.json.   *)

\* Written files leave grub alone.
LEMMA WrittenKeepsGrub ==
    ASSUME NEW im, DOMAIN im = ImageFields PROVE Written(im).grub = im.grub
BY WrittenFrame DEF Frame, ImageFields

\* hardResetBootLoader writes grub's configuration anew.
LEMMA HardResetGrub ==
    ASSUME Shape, hardResetBootLoader
    PROVE  /\ UNCHANGED ukiInfo /\ Hard
           /\ \E mode : /\ img'.grub = configureDiskBootLoader(img, mode, Extra).grub
                        /\ img'.grub.kind # "none"
                        /\ resolveSeLinux(cfg) # "" => mode = resolveSeLinux(cfg)
<1>1. PICK current : Becomes(Written(configureDiskBootLoader(img,
                       IF resolveSeLinux(cfg) = "" THEN current ELSE resolveSeLinux(cfg), Extra)))
  BY Zenon DEF hardResetBootLoader
<1> DEFINE mode == IF resolveSeLinux(cfg) = "" THEN current ELSE resolveSeLinux(cfg)
           new == configureDiskBootLoader(img, mode, Extra)
<1>2. resolveSeLinux(cfg) # "" => mode = resolveSeLinux(cfg)
  BY Zenon
<1>3. img' = Written(new) /\ UNCHANGED ukiInfo
  BY <1>1, Zenon DEF Becomes
<1> HIDE DEF mode
<1>4. HasGrub(new) /\ new.grub.kind # "none"
  BY ImageHasGrub, HardResetEdit
<1>5. img'.grub = new.grub
  BY <1>3, <1>4, WrittenKeepsGrub DEF HasGrub
<1> QED
  BY <1>2, <1>3, <1>4, <1>5, Zenon DEF hardResetBootLoader

\* Command lines are added to grub's configuration or to uki-kernel-info.json.
AddedTo(extra) ==
    /\ img'.grub = WriteToFile(BootCustomizerAddKernelCommandLine(img, extra)).grub
    /\ ukiInfo' = IF determineBootConfigType(img) = "uki" THEN appendToUkiCmdlineFile(ukiInfo, extra) ELSE ukiInfo
    /\ determineBootConfigType(img) = "uki" => Uki \in {"modify", "create"}

\* AddKernelCommandLine adds the extra arguments there, or has none to add.
LEMMA AddKernelCommandLineGrub ==
    ASSUME Shape, AddKernelCommandLine
    PROVE  /\ ~Hard /\ determineBootConfigType(img) = "notFound" => Extra = <<>>
           /\ (Extra = <<>> /\ img'.grub = img.grub /\ UNCHANGED ukiInfo) \/ AddedTo(Extra)
<1> DEFINE edited == BootCustomizerAddKernelCommandLine(img, Extra)
<1>0. HasGrub(img)
  BY ImageHasGrub
<1>1. HasGrub(edited) /\ HasGrub(WriteToFile(edited))
  BY <1>0, AddKernelCommandLineEdit, WriteToFileEdit, GrubEditHasGrub
<1>2. Written(WriteToFile(edited)).grub = WriteToFile(edited).grub
  BY <1>1, WrittenKeepsGrub DEF HasGrub
<1>3. CASE Extra = <<>>
  BY <1>3 DEF AddKernelCommandLine, Becomes
<1>4. CASE Extra # <<>>
  <2>1. /\ CanAddKernelCommandLine(img, Uki, ukiInfo)
        /\ img' = Written(WriteToFile(edited))
        /\ ukiInfo' = IF determineBootConfigType(img) = "uki"
                      THEN appendToUkiCmdlineFile(ukiInfo, Extra) ELSE ukiInfo
    BY <1>4 DEF AddKernelCommandLine
  <2>2. /\ determineBootConfigType(img) # "notFound"
        /\ determineBootConfigType(img) = "uki" => Uki \in {"modify", "create"}
    BY <2>1 DEF CanAddKernelCommandLine
  <2> QED
    BY <1>2, <2>1, <2>2 DEF AddedTo
<1> QED
  BY <1>3, <1>4

\* And the SELinux arguments are replaced there.
ReplacedIn(args) ==
    /\ img'.grub = WriteToFile(UpdateKernelCommandLineArgs(img, selinuxArgNames, args)).grub
    /\ ukiInfo' = IF determineBootConfigType(img) = "uki" THEN updateUkiCmdlineFile(ukiInfo, selinuxArgNames, args)
                  ELSE ukiInfo
    /\ determineBootConfigType(img) = "uki" => Uki = "modify"
    /\ determineBootConfigType(img) # "notFound"

\* handleSELinux leaves a hard reset what it wrote.
LEMMA HandleSELinuxGrub ==
    ASSUME Shape, handleSELinux
    PROVE  IF Hard THEN img'.grub = img.grub /\ UNCHANGED ukiInfo
           ELSE ReplacedIn(selinuxModeToArgs(resolveSeLinux(cfg)))
<1> DEFINE mode == resolveSeLinux(cfg)
           args == selinuxModeToArgs(mode)
           updated == UpdateKernelCommandLineArgs(img, selinuxArgNames, args)
           lines == IF Hard THEN img ELSE WriteToFile(updated)
           new == UpdateSELinuxModeInConfigFile(lines, mode)
<1>0. HasGrub(img)
  BY ImageHasGrub
<1>1. img' = Written(new)
  BY DEF handleSELinux
<1>2. /\ ~Hard => CanUpdateKernelCommandLineArgs(img, Uki, ukiInfo)
      /\ ukiInfo' = IF ~Hard /\ determineBootConfigType(img) = "uki"
                    THEN updateUkiCmdlineFile(ukiInfo, selinuxArgNames, args) ELSE ukiInfo
  BY DEF handleSELinux
<1>3. HasGrub(lines)
  BY <1>0, UpdateArgsEdit, WriteToFileEdit, GrubEditHasGrub
<1>4. lines = IF Hard THEN img ELSE WriteToFile(updated)
  OBVIOUS
<1> HIDE DEF lines, args
<1>5. DOMAIN new = ImageFields /\ new.grub = lines.grub
  BY <1>3 DEF UpdateSELinuxModeInConfigFile, HasGrub, ImageFields
<1> HIDE DEF new
<1>6. img'.grub = lines.grub
  BY <1>1, <1>5, WrittenKeepsGrub
<1>7. CanUpdateKernelCommandLineArgs(img, Uki, ukiInfo) =>
          /\ determineBootConfigType(img) = "uki" => Uki = "modify"
          /\ determineBootConfigType(img) # "notFound"
  BY DEF CanUpdateKernelCommandLineArgs
<1>8. CASE Hard
  BY <1>2, <1>4, <1>6, <1>8
<1>9. CASE ~Hard
  <2>1. ReplacedIn(args)
    BY <1>2, <1>4, <1>6, <1>7, <1>9 DEF ReplacedIn
  <2> QED
    BY <1>9, <2>1 DEF args
<1> QED
  BY <1>8, <1>9

\* New verity devices: grub's configuration is written again, for another root device maybe.
LEMMA EnableVerityGrub ==
    ASSUME Shape, enableVerityPartition
    PROVE  /\ UNCHANGED ukiInfo
           /\ \/ img'.grub = img.grub
              \/ \E im : /\ HasGrub(im) /\ im.grub = img.grub
                         /\ img'.grub \in {WriteToFile(im).grub, WriteToFile(PrepareForVerity(im)).grub}
<1> DEFINE verity == resolveStorage(cfg).verity
           booted == addDracutDriver(img, {"verity"})
           prepared == IF verity = "root" THEN PrepareForVerity(booted) ELSE booted
           lines == WriteToFile(prepared)
           mid == [lines EXCEPT !.verity = verity]
<1>1. img' = img \/ img' = Written(mid)
  BY DEF enableVerityPartition
<1>2. HasGrub(booted) /\ booted.grub = img.grub
  BY ImageHasGrub DEF addDracutDriver, HasGrub, ImageFields
<1> HIDE DEF booted
<1>3. lines \in {WriteToFile(booted), WriteToFile(PrepareForVerity(booted))} /\ HasGrub(lines)
  <2>1. HasGrub(prepared)
    BY <1>2, PrepareForVerityEdit, GrubEditHasGrub
  <2> QED
    BY <2>1, WriteToFileEdit, GrubEditHasGrub
<1> HIDE DEF lines
<1>4. DOMAIN mid = ImageFields /\ mid.grub = lines.grub
  BY <1>3 DEF HasGrub, ImageFields
<1> HIDE DEF mid
<1>5. Written(mid).grub = lines.grub
  BY <1>4, WrittenKeepsGrub
<1>6. img'.grub = img.grub \/ img'.grub = lines.grub
  BY <1>1, <1>5
<1>7. UNCHANGED ukiInfo
  BY DEF enableVerityPartition
<1> QED
  BY <1>2, <1>3, <1>6, <1>7

\* The UKIs have command lines of a set.
UkisIn(esp, L) == \A k \in DOMAIN esp : "line" \in DOMAIN esp[k] /\ esp[k].line \in L

\* From prepareUki on there is no grub.cfg.
GrubGone == img'.grub.kind = "none" /\ DOMAIN img'.grub.lines = {} /\ img'.grub.dflt = img.grub.dflt
            /\ img'.grub.linux = img.grub.linux /\ img'.grub.device = img.grub.device

\* The new UKIs get the lines that were saved, or else grub's without what holds a variable.
LinesResolved ==
    \A k \in DOMAIN ukiInfo'.lines :
        \/ \E j \in DOMAIN ukiInfo.lines : ukiInfo'.lines[k] = ukiInfo.lines[j]
        \/ /\ DOMAIN ukiInfo.lines = {}
           /\ \E j \in DOMAIN img.grub.lines : ukiInfo'.lines[k] = Without(img.grub.lines[j], {KernelOpts.name})

\* prepareUki takes the boot configuration over to uki-kernel-info.json.
LEMMA PrepareUkiGrub ==
    ASSUME Shape, prepareUki
    PROVE  IF Uki = "create" THEN GrubGone /\ LinesResolved ELSE UNCHANGED <<img, ukiInfo>>
<1>1. CASE Uki # "create"
  BY <1>1 DEF prepareUki
<1>2. CASE Uki = "create"
  <2> DEFINE known == KnownCmdlines(img, ukiInfo)
             fallback == getFallbackKernelArgs(known)
             any == CHOOSE line \in fallback : TRUE
             lines == [k \in img.vmlinuz |-> IF k \in DOMAIN known THEN known[k] ELSE any]
             g == [img.grub EXCEPT !.kind = "none", !.lines = NoLines]
  <2>1. /\ CanResolveCmdlines(img, known)
        /\ ukiInfo' = ResolvedUkiInfo(img, known) /\ img' = CleanBootDirectory(img)
    BY <1>2 DEF prepareUki
  <2>2. ukiInfo'.lines = lines
    BY <2>1 DEF ResolvedUkiInfo
  <2>3. img.vmlinuz \subseteq DOMAIN known \/ any \in fallback
    <3>1. ASSUME Cardinality(fallback) = 1 PROVE any \in fallback
      <4>1. fallback # {}
        BY <3>1, FS_EmptySet
      <4> QED
        BY <4>1
    <3> QED
      BY <2>1, <3>1 DEF CanResolveCmdlines
  <2>4. \A k \in DOMAIN lines : \E j \in DOMAIN known : lines[k] = known[j]
    <3> TAKE k \in DOMAIN lines
    <3>1. lines[k] = IF k \in DOMAIN known THEN known[k] ELSE any
      OBVIOUS
    <3>2. fallback = {known[j] : j \in DOMAIN known} \ {<<>>}
      BY DEF getFallbackKernelArgs
    <3> HIDE DEF known, fallback, any
    <3> QED
      BY <2>3, <3>1, <3>2
  <2>5. IF DOMAIN ukiInfo.lines # {} THEN known = ukiInfo.lines
        ELSE /\ DOMAIN known = DOMAIN img.grub.lines
             /\ \A j \in DOMAIN known : known[j] = Without(img.grub.lines[j], {KernelOpts.name})
    BY DEF KnownCmdlines, extractKernelToArgs, EveryKernel
  <2> HIDE DEF known, lines
  <2>6. LinesResolved
    BY <2>2, <2>4, <2>5 DEF LinesResolved
  <2>7. img' = [img EXCEPT !.vmlinuz = {}, !.initramfs = NoLines, !.grub = g]
    BY <2>1 DEF CleanBootDirectory, Shape, ImageFields
  <2>8. g.kind = "none" /\ g.lines = NoLines /\ g.dflt = img.grub.dflt /\ g.linux = img.grub.linux
        /\ g.device = img.grub.device
    BY GrubDomain DEF Shape, GrubFields
  <2>9. DOMAIN NoLines = {}
    BY DEF NoLines
  <2> HIDE DEF g
  <2>10. img'.grub = g
    BY <2>7 DEF Shape, ImageFields
  <2>11. GrubGone
    BY <2>8, <2>9, <2>10 DEF GrubGone
  <2> QED
    BY <1>2, <2>6, <2>11
<1> QED
  BY <1>1, <1>2

\* The verity partition is hashed again: its hash is written to grub.cfg or to
\* uki-kernel-info.json.
HashWritten(hash) ==
    /\ img'.hash = hash
    /\ resolveStorage(cfg).reinit \/ loc.verityUpdated
    /\ img.verity # "none"
    /\ IF Uki \in {"unset", "passthrough"}
       THEN /\ img'.grub = updateGrubConfigForVerity(img, img.verity, hash).grub
            /\ UNCHANGED ukiInfo
       ELSE /\ img'.grub = img.grub
            /\ ukiInfo' = appendKernelArgsToUkiCmdlineFile(ukiInfo, constructVerityKernelCmdlineArgs(img.verity, hash))

\* customizeVerityImage writes the hash of this run, or nothing.
LEMMA VerityImageGrub ==
    ASSUME Shape, customizeVerityImage
    PROVE  UNCHANGED <<img, ukiInfo>> \/ HashWritten(RootHashes[runs])
<1> DEFINE updated == img.verity # "none" /\ (resolveStorage(cfg).reinit \/ loc.verityUpdated)
           isUki == Uki \notin {"unset", "passthrough"}
           hash == RootHashes[runs]
           new == IF isUki THEN img ELSE updateGrubConfigForVerity(img, img.verity, hash)
<1>1. /\ img' = IF ~updated THEN img ELSE [new EXCEPT !.hash = hash]
      /\ ukiInfo' = IF updated /\ isUki
                    THEN appendKernelArgsToUkiCmdlineFile(ukiInfo, constructVerityKernelCmdlineArgs(img.verity, hash))
                    ELSE ukiInfo
  BY DEF customizeVerityImage
<1>2. HasGrub(new)
  BY ImageHasGrub, VerityEdit, GrubEditHasGrub
<1>3. new.grub = IF isUki THEN img.grub ELSE updateGrubConfigForVerity(img, img.verity, hash).grub
  OBVIOUS
<1> HIDE DEF new, hash
<1>4. [new EXCEPT !.hash = hash].grub = new.grub /\ [new EXCEPT !.hash = hash].hash = hash
  BY <1>2 DEF HasGrub, ImageFields
<1>5. CASE ~updated
  BY <1>1, <1>5
<1>6. CASE updated
  <2>1. img'.grub = new.grub /\ img'.hash = hash
    BY <1>1, <1>4, <1>6
  <2>2. HashWritten(hash)
    BY <1>1, <1>3, <1>6, <2>1 DEF HashWritten
  <2> QED
    BY <2>2 DEF hash
<1> QED
  BY <1>5, <1>6

\* The last step.
LEMMA CreateUkiLines ==
    ASSUME Shape, createUki, NEW E, NEW U, UkisIn(img.esp, E), LinesIn(ukiInfo.lines, U)
    PROVE  /\ Uki \in {"create", "modify"} => UkisIn(img'.esp, U)
           /\ Uki \notin {"create", "modify"} => img'.esp = img.esp
           /\ Uki # "create" => UNCHANGED ukiInfo
           /\ Uki = "create" => ukiInfo' = NoUkiInfo
           /\ DOMAIN img'.esp = IF Uki = "create" THEN DOMAIN ukiInfo.lines ELSE DOMAIN img.esp
<1> DEFINE ukis == [k \in DOMAIN ukiInfo.lines |-> [line |-> ukiInfo.lines[k], init |-> ukiInfo.staged[k]]]
           built == [img EXCEPT !.esp = ukis]
           named == [built EXCEPT !.addons = TRUE]
           relined == [k \in DOMAIN img.esp |-> [img.esp[k] EXCEPT !.line = ukiInfo.lines[k]]]
           modified == [img EXCEPT !.esp = relined]
<1>1. img' = CASE Uki = "create" -> named [] Uki = "modify" -> modified [] OTHER -> img
  BY DEF createUki, buildUkis, modifyUkiAddons, Shape, ImageFields
<1>2. /\ ukiInfo' = IF Uki = "create" THEN NoUkiInfo ELSE ukiInfo
      /\ Uki = "modify" => DOMAIN img.esp \subseteq DOMAIN ukiInfo.lines
  BY DEF createUki
<1>3. DOMAIN ukis = DOMAIN ukiInfo.lines /\ DOMAIN relined = DOMAIN img.esp
  OBVIOUS
<1>4. UkisIn(ukis, U)
  BY DEF UkisIn, LinesIn
<1>5. Uki = "modify" => UkisIn(relined, U)
  <2>1. ASSUME NEW k \in DOMAIN img.esp, k \in DOMAIN ukiInfo.lines
        PROVE  "line" \in DOMAIN relined[k] /\ relined[k].line \in U
    <3>1. "line" \in DOMAIN img.esp[k] /\ ukiInfo.lines[k] \in U
      BY <2>1 DEF UkisIn, LinesIn
    <3> QED
      BY <3>1
  <2> QED
    BY <1>2, <1>3, <2>1 DEF UkisIn
<1> HIDE DEF ukis, relined
<1>6. built.esp = ukis /\ modified.esp = relined /\ DOMAIN built = ImageFields
  BY DEF Shape, ImageFields
<1> HIDE DEF built, modified
<1>7. named.esp = ukis
  BY <1>6 DEF ImageFields
<1> HIDE DEF named
<1> QED
  BY <1>1, <1>2, <1>3, <1>4, <1>5, <1>6, <1>7

\* The package manager.
LEMMA PackagesGrub ==
    ASSUME Shape, PackageManagement \/ RunPackageOperation
    PROVE  /\ UNCHANGED ukiInfo
           /\ \/ img'.grub = img.grub
              \/ \E k : img'.grub \in {KernelInstalled(img, k).grub, KernelRemoved(img, k).grub}
<1>1. HasGrub(img)
  BY ImageHasGrub
<1>2. ASSUME NEW im, HasGrub(im) PROVE [im EXCEPT !.etcMounted = FALSE].grub = im.grub
  BY <1>2 DEF HasGrub, ImageFields
<1>3. CASE PackageManagement
  <2>1. (img' = img \/ img' = [img EXCEPT !.etcMounted = FALSE]) /\ UNCHANGED ukiInfo
    BY <1>3 DEF PackageManagement
  <2> QED
    BY <1>1, <1>2, <2>1
<1>4. CASE RunPackageOperation
  <2>1. PICK im \in KernelChanges(pkgStep) : img' = im \/ img' = [im EXCEPT !.etcMounted = FALSE]
    BY <1>4 DEF RunPackageOperation
  <2>2. im = img \/ (\E k : im = KernelRemoved(img, k)) \/ (\E k : im = KernelInstalled(img, k))
    BY <2>1 DEF KernelChanges
  <2>3. HasGrub(im)
    BY <1>1, <2>2, KernelInstalledEdit, KernelRemovedEdit
  <2>4. img'.grub = im.grub
    BY <1>2, <2>1, <2>3
  <2>5. UNCHANGED ukiInfo
    BY <1>4 DEF RunPackageOperation
  <2> QED
    BY <2>2, <2>4, <2>5
<1> QED
  BY <1>3, <1>4

-----------------------------------------------------------------------------
(* The extra command line of a chain.                                       *)

\* The arguments of all files are put one after the other.
LEMMA ExtraSeq ==
    ASSUME cfg \in Chains, NEW S, \A i \in 1..Len(cfg) : cfg[i].extra \in Seq(S)
    PROVE  Extra \in Seq(S)
<1> DEFINE n == Len(cfg)
           move == [i \in 1..n |-> [x \in Seq(S) |-> x \o cfg[i].extra]]
<1>0. n \in Nat
  BY LenChain
<1>1. \A i \in 1..n, x \in Seq(S) : move[i][x] \in Seq(S) /\ move[i][x] = x \o cfg[i].extra
  <2> TAKE i \in 1..n, x \in Seq(S)
  <2>1. cfg[i].extra \in Seq(S)
    OBVIOUS
  <2> QED
    BY <2>1
<1>2. <<>> \in Seq(S)
  OBVIOUS
<1> HIDE DEF n, move
<1>3. PICK f : StepByStep(f, Seq(S), <<>>, move, n)
  BY <1>0, <1>1, <1>2, RecursionExists
<1>4. DOMAIN f = 0..n /\ f = [i \in 0..n |-> f[i]] /\ f[0] = <<>>
  BY <1>3 DEF StepByStep
<1>5. \A i \in 1..n : f[i] = f[i - 1] \o cfg[i].extra
  <2> TAKE i \in 1..n
  <2>1. i - 1 \in 0..n
    BY <1>0
  <2>2. f[i - 1] \in Seq(S) /\ f[i] = move[i][f[i - 1]]
    BY <1>3, <2>1 DEF StepByStep
  <2> QED
    BY <1>1, <2>2, Zenon
<1> DEFINE h == [i \in 0..n |-> IF i = 0 THEN <<>> ELSE f[i - 1] \o cfg[i].extra]
<1>6. \A i \in 0..n : f[i] = IF i = 0 THEN <<>> ELSE f[i - 1] \o cfg[i].extra
  <2> TAKE i \in 0..n
  <2>1. i # 0 => i \in 1..n
    BY <1>0
  <2> QED
    BY <1>4, <1>5, <2>1, Zenon
<1>7. f = h
  BY <1>4, <1>6, Zenon
<1>8. PICK g : g = [i \in 0..n |-> IF i = 0 THEN <<>> ELSE g[i - 1] \o cfg[i].extra] /\ Extra = g[n]
  BY <1>7, Zenon DEF Extra, resolveOsKernelCommandLine, mergeKernelCommandLine, n
<1> DEFINE T == {k \in Nat : k <= n => g[k] \in Seq(S)}
<1>9. \A i \in 1..n : g[i] = g[i - 1] \o cfg[i].extra
  <2> TAKE i \in 1..n
  <2>1. i \in 0..n /\ i # 0
    BY <1>0
  <2>2. g[i] = IF i = 0 THEN <<>> ELSE g[i - 1] \o cfg[i].extra
    BY <1>8, <2>1, Zenon
  <2> QED
    BY <2>1, <2>2, Zenon
<1>10. 0 \in T
  <2>1. g[0] = <<>>
    <3>1. 0 \in 0..n
      BY <1>0
    <3> QED
      BY <1>8, <3>1
  <2>2. g[0] \in Seq(S)
    BY <1>2, <2>1, Zenon
  <2> QED
    BY <2>2
<1>11. ASSUME NEW k \in Nat, k \in T PROVE k + 1 \in T
  <2> SUFFICES ASSUME k + 1 <= n PROVE g[k + 1] \in Seq(S)
    OBVIOUS
  <2>1. k + 1 \in 1..n /\ (k + 1) - 1 = k /\ g[k] \in Seq(S)
    BY <1>0, <1>11
  <2>2. g[k + 1] = g[k] \o cfg[k + 1].extra
    BY <1>9, <2>1
  <2>3. cfg[k + 1].extra \in Seq(S)
    BY <2>1 DEF n
  <2> QED
    BY <2>1, <2>2, <2>3
<1>12. Nat \subseteq T
  <2> HIDE DEF T
  <2> QED
    BY <1>10, <1>11, NatSet
<1>13. n \in T
  BY <1>0, <1>12
<1> QED
  BY <1>8, <1>13

\* It is a command line.
LEMMA ExtraTyped ==
    ASSUME cfg \in Chains PROVE Extra \in Lines
<1>1. \A i \in 1..Len(cfg) : cfg[i].extra \in Seq(Args)
  BY FilesTyped
<1> QED
  BY <1>1, ExtraSeq DEF Lines

-----------------------------------------------------------------------------
(* The other steps.                                                         *)

\* The steps that leave alone what an image boots with, and uki-kernel-info.json.
KeptStep ==
    \/ PackagesDone \/ KernelCheck \/ AddOrUpdateUsers \/ copyAdditionalDirs \/ copyAdditionalFiles
    \/ addCustomizerRelease \/ addImageHistory \/ runUserScripts \/ removeOsPackageManager
    \/ CheckForInstalledKernel \/ keepSELinux
    \/ SetupEtcOverlay \/ overrideResolvConf \/ restoreResolvConf \/ selinuxSetFiles \/ FinalizeEtcOverlay
    \/ regenerateInitramfs \/ enableOverlays
    \/ UpdateHostname \/ EnableOrDisableServices \/ LoadOrDisableModules \/ StartPackages

\* None of them changes any of it.
LEMMA KeptStepsKeep ==
    ASSUME Shape, KeptStep
    PROVE  UNCHANGED ukiInfo /\ Leaves(img, img', BootFields)
<1>1. DOMAIN img = ImageFields /\ Leaves(img, img, BootFields) /\ BootFields \subseteq ImageFields \ {"unlabelled"}
  BY DEF Shape, Leaves, BootFields, ImageFields
<1>2. BootFields \subseteq Kept
  BY DEF Kept
<1>3. CASE \/ PackagesDone \/ KernelCheck \/ AddOrUpdateUsers \/ copyAdditionalDirs \/ copyAdditionalFiles
           \/ addCustomizerRelease \/ addImageHistory \/ runUserScripts \/ removeOsPackageManager
           \/ CheckForInstalledKernel \/ keepSELinux
  <2>1. Leaves(img, img', Kept)
    BY <1>3, FileStepsKeep
  <2>2. UNCHANGED ukiInfo
    BY <1>3 DEF PackagesDone, KernelCheck, AddOrUpdateUsers, copyAdditionalDirs, copyAdditionalFiles,
                addCustomizerRelease, addImageHistory, runUserScripts, removeOsPackageManager,
                CheckForInstalledKernel, keepSELinux, Becomes
  <2> QED
    BY <1>2, <2>1, <2>2, LeavesLess
<1>4. CASE \/ SetupEtcOverlay \/ overrideResolvConf \/ restoreResolvConf \/ selinuxSetFiles \/ FinalizeEtcOverlay
           \/ regenerateInitramfs \/ enableOverlays
  <2>1. Leaves(img, img', Kept)
    BY <1>4, PlaceStepsKeep
  <2>2. UNCHANGED ukiInfo
    BY <1>4 DEF SetupEtcOverlay, overrideResolvConf, restoreResolvConf, selinuxSetFiles, FinalizeEtcOverlay,
                regenerateInitramfs, enableOverlays, Becomes
  <2> QED
    BY <1>2, <2>1, <2>2, LeavesLess
<1>5. CASE UpdateHostname
  <2> DEFINE mid == [img EXCEPT !.hostname = resolveHostname(cfg)]
  <2>1. Frame(img, mid, {"hostname"})
    BY DEF Frame
  <2>2. Changed(img, mid) /\ UNCHANGED ukiInfo
    BY <1>5, Zenon DEF Changed, UpdateHostname, Becomes
  <2> HIDE DEF mid
  <2> QED
    BY <1>1, <2>1, <2>2, FrameLeaves, ChangedLeaves DEF BootFields
<1>6. CASE EnableOrDisableServices
  <2> DEFINE mid == [img EXCEPT !.services = ServicesOfChain]
  <2>1. Frame(img, mid, {"services"})
    BY DEF Frame
  <2>2. Changed(img, mid) /\ UNCHANGED ukiInfo
    BY <1>6, Zenon DEF Changed, EnableOrDisableServices, Becomes
  <2> HIDE DEF mid
  <2> QED
    BY <1>1, <2>1, <2>2, FrameLeaves, ChangedLeaves DEF BootFields
<1>7. CASE LoadOrDisableModules
  <2> DEFINE loaded == img.loadedModules \union UNION {ModulesWith(cfg[i], {"always"}) : i \in 1..Len(cfg)}
             mid == [img EXCEPT !.disabledModules = DisabledBefore(Len(cfg) + 1), !.loadedModules = loaded]
  <2>1. Changed(img, mid) /\ UNCHANGED ukiInfo
    BY <1>7 DEF Changed, LoadOrDisableModules, Becomes
  <2> HIDE DEF loaded
  <2>2. Frame(img, mid, {"disabledModules", "loadedModules"})
    BY DEF Frame
  <2> HIDE DEF mid
  <2> QED
    BY <1>1, <2>1, <2>2, FrameLeaves, ChangedLeaves DEF BootFields
<1>8. CASE StartPackages
  BY <1>1, <1>8 DEF StartPackages
<1> QED
  BY <1>3, <1>4, <1>5, <1>6, <1>7, <1>8 DEF KeptStep

\* Saved command lines are those of the UKIs.
LEMMA ExtractUkisLines ==
    ASSUME Shape, ExtractUkis
    PROVE  /\ Leaves(img, img', BootFields)
           /\ IF Uki = "modify" \/ (Uki = "create" /\ DOMAIN img.esp # {} /\ ~Hard)
              THEN /\ ukiInfo'.exists /\ DOMAIN ukiInfo'.lines = DOMAIN img.esp
                   /\ \A k \in DOMAIN img.esp : ukiInfo'.lines[k] = img.esp[k].line
              ELSE UNCHANGED ukiInfo
<1>1. Leaves(img, img', BootFields)
  <2>1. Leaves(img, img', Kept) /\ BootFields \subseteq Kept
    BY PlaceStepsKeep DEF Kept
  <2> QED
    BY <2>1, LeavesLess
<1> DEFINE lines == [k \in DOMAIN img.esp |-> img.esp[k].line]
           saved == [ukiInfo EXCEPT !.exists = TRUE, !.lines = lines]
<1>2. ukiInfo' = IF Uki = "modify" \/ (Uki = "create" /\ DOMAIN img.esp # {} /\ ~Hard) THEN saved ELSE ukiInfo
  BY DEF ExtractUkis, SavedUkiCmdlines
<1>3. DOMAIN lines = DOMAIN img.esp /\ \A k \in DOMAIN img.esp : lines[k] = img.esp[k].line
  OBVIOUS
<1> HIDE DEF lines
<1>4. saved.exists /\ saved.lines = lines
  BY DEF Shape, NoUkiInfo
<1> QED
  BY <1>1, <1>2, <1>3, <1>4

-----------------------------------------------------------------------------
(* Edits of uki-kernel-info.json.                                           *)

\* The command lines of the file are edited one by one.
Relined(new, U, V) ==
    /\ DOMAIN new.lines = DOMAIN ukiInfo.lines /\ new.exists = ukiInfo.exists
    /\ LinesIn(ukiInfo.lines, U) => LinesIn(new.lines, V)

\* appendToUkiCmdlineFile.
LEMMA AppendedRelined ==
    ASSUME Shape, NEW extra, NEW U, NEW V, \A u \in U : u \o extra \in V
    PROVE  Relined(appendToUkiCmdlineFile(ukiInfo, extra), U, V)
<1> DEFINE lines == [k \in DOMAIN ukiInfo.lines |-> ukiInfo.lines[k] \o extra]
<1>1. appendToUkiCmdlineFile(ukiInfo, extra) = [ukiInfo EXCEPT !.lines = lines]
  BY DEF appendToUkiCmdlineFile, EveryKernel
<1>2. DOMAIN lines = DOMAIN ukiInfo.lines /\ (LinesIn(ukiInfo.lines, U) => LinesIn(lines, V))
  BY DEF LinesIn
<1> HIDE DEF lines
<1> QED
  BY <1>1, <1>2 DEF Relined, Shape, NoUkiInfo

\* updateUkiCmdlineFile.
LEMMA UpdatedRelined ==
    ASSUME Shape, NEW names, NEW args, NEW U, NEW V, \A u \in U : Without(u, names) \o args \in V
    PROVE  Relined(updateUkiCmdlineFile(ukiInfo, names, args), U, V)
<1> DEFINE lines == [k \in DOMAIN ukiInfo.lines |-> Without(ukiInfo.lines[k], names) \o args]
<1>1. updateUkiCmdlineFile(ukiInfo, names, args) = [ukiInfo EXCEPT !.lines = lines]
  BY DEF updateUkiCmdlineFile, EveryKernel, updateUkiCmdline
<1>2. DOMAIN lines = DOMAIN ukiInfo.lines /\ (LinesIn(ukiInfo.lines, U) => LinesIn(lines, V))
  BY DEF LinesIn
<1> HIDE DEF lines
<1> QED
  BY <1>1, <1>2 DEF Relined, Shape, NoUkiInfo

\* What goes when verity's arguments are written.
VerityDropped == verityKernelArgsToRemove \union {KernelOpts.name}

\* appendKernelArgsToUkiCmdlineFile, for verity's arguments.
LEMMA VerityRelined ==
    ASSUME Shape, NEW args, NEW U, NEW V, \A u \in U : Without(u, VerityDropped) \o args \in V
    PROVE  Relined(appendKernelArgsToUkiCmdlineFile(ukiInfo, args), U, V)
<1> DEFINE lines == [k \in DOMAIN ukiInfo.lines |-> Without(ukiInfo.lines[k], VerityDropped) \o args]
<1>1. appendKernelArgsToUkiCmdlineFile(ukiInfo, args) = [ukiInfo EXCEPT !.lines = lines]
  BY DEF appendKernelArgsToUkiCmdlineFile, EveryKernel, VerityDropped
<1>2. DOMAIN lines = DOMAIN ukiInfo.lines /\ (LinesIn(ukiInfo.lines, U) => LinesIn(lines, V))
  BY DEF LinesIn
<1> HIDE DEF lines
<1> QED
  BY <1>1, <1>2 DEF Relined, Shape, NoUkiInfo

-----------------------------------------------------------------------------
(* Command lines are sequences of arguments.                                *)

\* The arguments that the code writes itself.
LEMMA OwnArgs ==
    /\ KernelOpts \in Args /\ <<KernelOpts>> \in Lines
    /\ Arg("root", "mapper") \in Args /\ <<Arg("root", "mapper")>> \in Lines
    /\ \A dev \in STRING : Arg("root", dev) \in Args /\ <<Arg("root", dev)>> \in Lines
<1>1. "$kernelopts" \in STRING /\ "" \in STRING /\ "root" \in STRING /\ "mapper" \in STRING
  BY StringLiterals, Zenon
<1>2. \A n \in STRING, v \in STRING : Arg(n, v) \in Args
  BY DEF Arg, Args
<1>3. /\ KernelOpts \in Args /\ Arg("root", "mapper") \in Args
      /\ \A dev \in STRING : Arg("root", dev) \in Args
  BY <1>1, <1>2, Zenon DEF KernelOpts
<1>4. \A a \in Args : <<a>> \in Seq(Args)
  OBVIOUS
<1> QED
  BY <1>3, <1>4, Zenon DEF Lines

\* The SELinux arguments of a mode.
LEMMA SELinuxArgsTyped ==
    ASSUME NEW mode PROVE getCommonSELinuxArgs(mode) \in Lines
<1>1. "selinux" \in STRING /\ "security" \in STRING /\ "enforcing" \in STRING /\ "0" \in STRING /\ "1" \in STRING
  BY StringLiterals, Zenon
<1>2. \A n \in STRING, v \in STRING : Arg(n, v) \in Args
  BY DEF Arg, Args
<1>3. /\ Arg("selinux", "0") \in Args /\ Arg("selinux", "1") \in Args /\ Arg("security", "selinux") \in Args
      /\ Arg("enforcing", "1") \in Args
  BY <1>1, <1>2, Zenon
<1>4. \A a, b, c \in Args : <<a>> \in Seq(Args) /\ <<a, b>> \in Seq(Args) /\ <<a, b, c>> \in Seq(Args)
  OBVIOUS
<1>5. getCommonSELinuxArgs(mode) \in {<<Arg("selinux", "0")>>,
          <<Arg("security", "selinux"), Arg("selinux", "1"), Arg("enforcing", "1")>>,
          <<Arg("security", "selinux"), Arg("selinux", "1")>>}
  BY DEF getCommonSELinuxArgs
<1> QED
  BY <1>3, <1>4, <1>5, Zenon DEF Lines

\* Verity's arguments.
LEMMA VerityArgsTyped ==
    ASSUME NEW verity, NEW hash \in STRING PROVE constructVerityKernelCmdlineArgs(verity, hash) \in Lines
<1>1. "rd.systemd.verity" \in STRING /\ "1" \in STRING /\ "roothash" \in STRING /\ "usrhash" \in STRING
  BY StringLiterals, Zenon
<1>2. HashArgName(verity) \in STRING
  BY <1>1, Zenon DEF HashArgName
<1>3. \A n \in STRING, v \in STRING : Arg(n, v) \in Args
  BY DEF Arg, Args
<1>4. Arg("rd.systemd.verity", "1") \in Args /\ Arg(HashArgName(verity), hash) \in Args
  BY <1>1, <1>2, <1>3, Zenon
<1>5. \A a, b \in Args : <<a, b>> \in Seq(Args)
  OBVIOUS
<1> QED
  BY <1>4, <1>5, Zenon DEF Lines, constructVerityKernelCmdlineArgs

\* Command lines one after the other.
LEMMA ConcatTyped ==
    ASSUME NEW s \in Lines, NEW t \in Lines PROVE s \o t \in Lines
BY DEF Lines

\* What grub2-mkconfig and the edits write are command lines again.
LEMMA LinesClosed ==
    /\ MkconfigIn(Lines, Lines, Lines)
    /\ \A args \in Lines : \A names : EditsTo(names, args, Lines, Lines)
    /\ \A args \in Lines, d \in Lines : appendKernelCommandLineArgs(d, args) \in Lines
    /\ \A args \in Lines, d \in Lines : d \o args \in Lines
    /\ \A d \in Lines : \A names : Without(d, names) \in Lines
    /\ \A args \in Lines, d \in Lines : \A names : Without(d, names) \o args \in Lines
<1>1. MkconfigIn(Lines, Lines, Lines)
  BY OwnArgs, ConcatTyped DEF MkconfigIn
<1>2. \A args \in Lines : \A names : EditsTo(names, args, Lines, Lines)
  BY UpdateSeq DEF EditsTo, Lines
<1>3. \A args \in Lines, d \in Lines : appendKernelCommandLineArgs(d, args) \in Lines
  BY InsertSeq DEF Lines
<1>4. \A d \in Lines : \A names : Without(d, names) \in Lines
  BY WithoutSeq DEF Lines
<1> QED
  BY <1>1, <1>2, <1>3, <1>4, ConcatTyped

\* The command lines of the image and of uki-kernel-info.json are sequences of arguments.
TypedLines ==
    /\ GrubIn(img.grub, Lines, Lines, Lines)
    /\ UkisIn(img.esp, Lines)
    /\ LinesIn(ukiInfo.lines, Lines)

\* The hash of a run is a string.
LEMMA HashTyped ==
    ASSUME Control PROVE RootHashes[runs] \in STRING
BY OsAssumption DEF Control

\* The steps that edit command lines, or make them.
LEMMA EditStepsTyped ==
    ASSUME Shape, Control, TypedLines,
           hardResetBootLoader \/ AddKernelCommandLine \/ handleSELinux \/ enableVerityPartition
    PROVE  TypedLines'
<1>1. HasGrub(img) /\ Extra \in Lines
  BY ImageHasGrub, ExtraTyped DEF Control
<1>2. img'.esp = img.esp
  <2>1. Leaves(img, img', Apart)
    BY GrubStepsKeep
  <2> QED
    BY <2>1 DEF Leaves, Apart
<1>3. CASE hardResetBootLoader
  <2>1. PICK mode : img'.grub = configureDiskBootLoader(img, mode, Extra).grub
    BY <1>3, HardResetGrub
  <2>2. UNCHANGED ukiInfo
    BY <1>3, HardResetGrub
  <2>3. Extra \o <<KernelOpts>> \in Lines /\ getCommonSELinuxArgs(mode) \in Lines
    BY <1>1, OwnArgs, ConcatTyped, SELinuxArgsTyped
  <2>4. GrubIn(configureDiskBootLoader(img, mode, Extra).grub, Lines, Lines, Lines)
    BY <1>1, <2>3, LinesClosed, ResetLines
  <2> QED
    BY <1>2, <2>1, <2>2, <2>4 DEF TypedLines
<1>4. CASE AddKernelCommandLine
  <2>1. CASE img'.grub = img.grub /\ UNCHANGED ukiInfo
    BY <1>2, <2>1 DEF TypedLines
  <2>2. CASE AddedTo(Extra)
    <3>1. GrubIn(WriteToFile(BootCustomizerAddKernelCommandLine(img, Extra)).grub, Lines, Lines, Lines)
      BY <1>1, LinesClosed, AddedLines DEF TypedLines
    <3>2. Relined(appendToUkiCmdlineFile(ukiInfo, Extra), Lines, Lines)
      BY <1>1, LinesClosed, AppendedRelined
    <3> QED
      BY <1>2, <2>2, <3>1, <3>2 DEF TypedLines, AddedTo, Relined
  <2> QED
    BY <1>4, <2>1, <2>2, AddKernelCommandLineGrub
<1>5. CASE handleSELinux
  <2> DEFINE args == selinuxModeToArgs(resolveSeLinux(cfg))
  <2>1. args \in Lines
    BY SELinuxArgsTyped DEF selinuxModeToArgs
  <2>2. (img'.grub = img.grub /\ UNCHANGED ukiInfo) \/ ReplacedIn(args)
    BY <1>5, HandleSELinuxGrub
  <2> HIDE DEF args
  <2>3. CASE img'.grub = img.grub /\ UNCHANGED ukiInfo
    BY <1>2, <2>3 DEF TypedLines
  <2>4. CASE ReplacedIn(args)
    <3>1. GrubIn(WriteToFile(UpdateKernelCommandLineArgs(img, selinuxArgNames, args)).grub, Lines, Lines, Lines)
      BY <1>1, <2>1, LinesClosed, UpdatedLines DEF TypedLines
    <3>2. Relined(updateUkiCmdlineFile(ukiInfo, selinuxArgNames, args), Lines, Lines)
      BY <2>1, LinesClosed, UpdatedRelined
    <3> QED
      BY <1>2, <2>4, <3>1, <3>2 DEF TypedLines, ReplacedIn, Relined
  <2> QED
    BY <2>2, <2>3, <2>4
<1>6. CASE enableVerityPartition
  <2>1. UNCHANGED ukiInfo
    BY <1>6, EnableVerityGrub
  <2>2. CASE img'.grub = img.grub
    BY <1>2, <2>1, <2>2 DEF TypedLines
  <2>3. CASE \E im : /\ HasGrub(im) /\ im.grub = img.grub
                     /\ img'.grub \in {WriteToFile(im).grub, WriteToFile(PrepareForVerity(im)).grub}
    <3>1. PICK im : /\ HasGrub(im) /\ im.grub = img.grub
                    /\ img'.grub \in {WriteToFile(im).grub, WriteToFile(PrepareForVerity(im)).grub}
      BY <2>3
    <3>2. GrubIn(im.grub, Lines, Lines, Lines)
      BY <3>1 DEF TypedLines
    <3>3. GrubIn(img'.grub, Lines, Lines, Lines)
      BY <3>1, <3>2, LinesClosed, PreparedLines
    <3> QED
      BY <1>2, <2>1, <3>3 DEF TypedLines
  <2> QED
    BY <1>6, <2>2, <2>3, EnableVerityGrub
<1> QED
  BY <1>3, <1>4, <1>5, <1>6

\* The steps after them.
LEMMA UkiStepsTyped ==
    ASSUME Shape, Control, TypedLines, prepareUki \/ customizeVerityImage \/ createUki
    PROVE  TypedLines'
<1>1. HasGrub(img)
  BY ImageHasGrub
<1>2. CASE prepareUki
  <2>1. img'.esp = img.esp
    <3>1. Leaves(img, img', Apart)
      BY <1>2, GrubStepsKeep
    <3> QED
      BY <3>1 DEF Leaves, Apart
  <2>2. CASE UNCHANGED <<img, ukiInfo>>
    BY <2>2 DEF TypedLines
  <2>3. CASE GrubGone /\ LinesResolved
    <3>1. GrubIn(img'.grub, Lines, Lines, Lines)
      BY <2>3 DEF TypedLines, GrubGone, GrubIn, LinesIn
    <3>2. LinesIn(ukiInfo'.lines, Lines)
      BY <2>3, LinesClosed DEF TypedLines, LinesResolved, GrubIn, LinesIn
    <3> QED
      BY <2>1, <3>1, <3>2 DEF TypedLines
  <2> QED
    BY <1>2, <2>2, <2>3, PrepareUkiGrub
<1>3. CASE customizeVerityImage
  <2> DEFINE hash == RootHashes[runs]
             args == constructVerityKernelCmdlineArgs(img.verity, hash)
  <2>1. UNCHANGED <<img, ukiInfo>> \/ HashWritten(hash)
    BY <1>3, VerityImageGrub
  <2>2. args \in Lines
    BY HashTyped, VerityArgsTyped
  <2>3. img'.esp = img.esp
    <3>1. Leaves(img, img', Kept \ {"grub", "hash"}) /\ "esp" \in Kept \ {"grub", "hash"}
      BY <1>3, VerityImageKeeps DEF Kept, BootFields
    <3> QED
      BY <3>1 DEF Leaves
  <2>4. GrubIn(updateGrubConfigForVerity(img, img.verity, hash).grub, Lines, Lines, Lines)
    BY <1>1, <2>2, LinesClosed, OwnArgs, VerityLines DEF TypedLines
  <2>5. Relined(appendKernelArgsToUkiCmdlineFile(ukiInfo, args), Lines, Lines)
    BY <2>2, LinesClosed, VerityRelined
  <2> HIDE DEF hash
  <2>6. CASE UNCHANGED <<img, ukiInfo>>
    BY <2>6 DEF TypedLines
  <2>7. CASE HashWritten(hash)
    BY <2>3, <2>4, <2>5, <2>7 DEF TypedLines, HashWritten, Relined
  <2> QED
    BY <2>1, <2>6, <2>7
<1>4. CASE createUki
  <2>1. UkisIn(img.esp, Lines) /\ LinesIn(ukiInfo.lines, Lines)
    BY DEF TypedLines
  <2>2. /\ Uki \in {"create", "modify"} => UkisIn(img'.esp, Lines)
        /\ Uki \notin {"create", "modify"} => img'.esp = img.esp
        /\ Uki # "create" => UNCHANGED ukiInfo
        /\ Uki = "create" => ukiInfo' = NoUkiInfo
    BY <1>4, <2>1, CreateUkiLines
  <2>3. img'.grub = img.grub
    <3>1. Leaves(img, img', Kept \ {"esp"}) /\ "grub" \in Kept \ {"esp"}
      BY <1>4, CreateUkiKeeps DEF Kept, BootFields
    <3> QED
      BY <3>1 DEF Leaves
  <2>4. LinesIn(ukiInfo'.lines, Lines)
    BY <2>1, <2>2 DEF NoUkiInfo, NoLines, LinesIn
  <2> QED
    BY <2>1, <2>2, <2>3, <2>4 DEF TypedLines
<1> QED
  BY <1>2, <1>3, <1>4

\* The packages, and what leaves the boot configuration alone.
LEMMA OtherStepsTyped ==
    ASSUME Shape, TypedLines, KeptStep \/ ExtractUkis \/ PackageManagement \/ RunPackageOperation
    PROVE  TypedLines'
<1>1. HasGrub(img)
  BY ImageHasGrub
<1>2. CASE KeptStep
  BY <1>2, KeptStepsKeep DEF Leaves, BootFields, TypedLines
<1>3. CASE ExtractUkis
  <2>1. img'.grub = img.grub /\ img'.esp = img.esp
    BY <1>3, ExtractUkisLines DEF Leaves, BootFields
  <2>2. LinesIn(ukiInfo'.lines, Lines)
    BY <1>3, ExtractUkisLines DEF TypedLines, LinesIn, UkisIn
  <2> QED
    BY <2>1, <2>2 DEF TypedLines
<1>4. CASE PackageManagement \/ RunPackageOperation
  <2>1. img'.esp = img.esp /\ UNCHANGED ukiInfo
    BY <1>4, PackagesKeep, PackagesGrub DEF Leaves, Apart
  <2>2. \/ img'.grub = img.grub
        \/ \E k : img'.grub \in {KernelInstalled(img, k).grub, KernelRemoved(img, k).grub}
    BY <1>4, PackagesGrub
  <2>3. ASSUME NEW k
        PROVE  /\ GrubIn(KernelInstalled(img, k).grub, Lines, Lines, Lines)
               /\ GrubIn(KernelRemoved(img, k).grub, Lines, Lines, Lines)
    BY <1>1, LinesClosed, InstalledLines, RemovedLines DEF TypedLines
  <2>4. GrubIn(img'.grub, Lines, Lines, Lines)
    BY <2>2, <2>3 DEF TypedLines
  <2> QED
    BY <2>1, <2>4 DEF TypedLines
<1> QED
  BY <1>2, <1>3, <1>4

\* New partitions get the same boot configuration.
LEMMA PartitionsLeave ==
    ASSUME NEW im, DOMAIN im = ImageFields, NEW chain
    PROVE  Leaves(im, customizePartitionsUsingFileCopy(im, chain), BootFields \ {"verity"})
BY DEF customizePartitionsUsingFileCopy, Leaves, BootFields, ImageFields

\* The image of a base image that a run starts from.
LEMMA BaseImageLines ==
    ASSUME NEW im \in BaseImages
    PROVE  /\ DOMAIN im = ImageFields
           /\ GrubIn(im.grub, Lines, Lines, Lines) /\ UkisIn(im.esp, Lines)
<1>1. "partition" \in STRING /\ "mapper" \in STRING
  BY StringLiterals, Zenon
<1>2. Devices \subseteq STRING
  BY <1>1 DEF Devices
<1>3. DOMAIN im = ImageFields
  BY BaseImagesAssumption, Zenon
<1>4. im.grub.linux \in Lines /\ im.grub.dflt \in Lines /\ im.grub.device \in Devices
  BY BaseImagesAssumption, Zenon DEF Lines
<1>5. LinesIn(im.grub.lines, Lines)
  BY BaseImagesAssumption, Zenon DEF Lines, LinesIn
<1>6. ASSUME NEW k \in DOMAIN im.esp PROVE DOMAIN im.esp[k] = {"line", "init"} /\ im.esp[k].line \in Lines
  BY BaseImagesAssumption, Zenon DEF Lines
<1>7. UkisIn(im.esp, Lines)
  BY <1>6 DEF UkisIn
<1> QED
  BY <1>2, <1>3, <1>4, <1>5, <1>7 DEF GrubIn

\* A step that fails leaves what an image boots with.
LEMMA StepFailsLeaves ==
    ASSUME Shape, StepFails
    PROVE  Leaves(img, img', BootFields) /\ UNCHANGED ukiInfo /\ result' = "failed"
BY DEF StepFails, Abort, Leaves, BootFields, Shape, ImageFields

\* A run starts from an image that the one before made, or from a base image.
Starts(im, chain) ==
    /\ im \in IF result = "ok" THEN {img} ELSE BaseImages
    /\ img' = customizePartitionsUsingFileCopy(im, chain) /\ DOMAIN im = ImageFields
    /\ Accepted(img', chain) /\ cfg' = chain /\ step' = 1 /\ result' = "running" /\ runs' = runs + 1
    /\ UNCHANGED ukiInfo /\ runs < MaxRuns /\ result # "running"
    /\ loc'.leftover = ukiInfo.exists
    /\ loc'.split <=> (SplitChain(chain) \/ (result = "ok" /\ loc.split))
    /\ Leaves(im, img', BootFields \ {"verity"})

\* NextRun is such a start.
LEMMA NextRunStarts ==
    ASSUME Shape, NEW chain \in Chains, NextRun(chain)
    PROVE  \E im : Starts(im, chain)
<1>1. PICK im : (im \in IF result = "ok" THEN {img} ELSE BaseImages) /\ StartRun(im, chain)
  BY DEF NextRun
<1>2. DOMAIN im = ImageFields
  BY <1>1, BaseImageLines DEF Shape
<1> DEFINE leftover == ukiInfo.exists
           orphans == DOMAIN im.esp \ im.libModules
           split == SplitChain(chain) \/ (result = "ok" /\ loc.split)
<1>3. /\ img' = customizePartitionsUsingFileCopy(im, chain) /\ Accepted(img', chain)
      /\ cfg' = chain /\ step' = 1 /\ result' = "running"
      /\ loc' = [NoLocals EXCEPT !.leftover = leftover, !.orphans = orphans, !.split = split]
  BY <1>1 DEF StartRun
<1>4. UNCHANGED ukiInfo /\ runs' = runs + 1 /\ runs < MaxRuns /\ result # "running"
  BY DEF NextRun
<1>5. Leaves(im, img', BootFields \ {"verity"})
  BY <1>2, <1>3, PartitionsLeave
<1> HIDE DEF leftover, orphans, split
<1>6. loc'.leftover = leftover /\ loc'.split = split
  BY <1>3 DEF NoLocals
<1> QED
  BY <1>1, <1>2, <1>3, <1>4, <1>5, <1>6 DEF Starts, leftover, split

\* Every step keeps the command lines sequences of arguments.
LEMMA TypedLinesNext == ImageInv /\ TypedLines /\ [Next]_vars => TypedLines'
<1> SUFFICES ASSUME ImageInv, TypedLines, [Next]_vars PROVE TypedLines'
  OBVIOUS
<1> USE DEF ImageInv
<1>1. CASE hardResetBootLoader \/ AddKernelCommandLine \/ handleSELinux \/ enableVerityPartition
  BY <1>1, EditStepsTyped
<1>2. CASE prepareUki \/ customizeVerityImage \/ createUki
  BY <1>2, UkiStepsTyped
<1>3. CASE KeptStep \/ ExtractUkis \/ PackageManagement \/ RunPackageOperation
  BY <1>3, OtherStepsTyped
<1>4. CASE StepFails
  BY <1>4, StepFailsLeaves DEF Leaves, BootFields, TypedLines
<1>5. CASE \E chain \in Chains : NextRun(chain)
  <2>1. PICK chain, im : Starts(im, chain)
    BY <1>5, NextRunStarts
  <2>2. GrubIn(im.grub, Lines, Lines, Lines) /\ UkisIn(im.esp, Lines)
    BY <2>1, BaseImageLines DEF Starts, TypedLines
  <2> QED
    BY <2>1, <2>2 DEF Starts, Leaves, BootFields, TypedLines
<1>6. CASE Finished \/ UNCHANGED vars
  BY <1>6 DEF Finished, vars, osVars, TypedLines
<1> QED
  BY <1>1, <1>2, <1>3, <1>4, <1>5, <1>6 DEF Next, KeptStep

\* Initially they are.
LEMMA TypedLinesInit == Init => TypedLines
<1> SUFFICES ASSUME Init PROVE TypedLines
  OBVIOUS
<1>1. PICK im \in BaseImages : img = customizePartitionsUsingFileCopy(im, cfg)
  BY DEF Init
<1>2. /\ DOMAIN im = ImageFields
      /\ GrubIn(im.grub, Lines, Lines, Lines) /\ UkisIn(im.esp, Lines)
  BY BaseImageLines
<1>3. Leaves(im, img, BootFields \ {"verity"})
  BY <1>1, <1>2, PartitionsLeave
<1>4. LinesIn(ukiInfo.lines, Lines)
  BY DEF Init, NoUkiInfo, NoLines, LinesIn
<1> QED
  BY <1>2, <1>3, <1>4 DEF Leaves, BootFields, TypedLines

-----------------------------------------------------------------------------
(* The root hash.                                                           *)

\* The command lines with one root hash, this one.
Hashed(verity, hash) ==
    {l \in Lines : findMatchingCommandLineArgs(l, {HashArgName(verity)}) = <<Arg(HashArgName(verity), hash)>>}

\* The arguments for a hash have it once.
LEMMA ConstructHashed ==
    ASSUME NEW verity, NEW hash \in STRING
    PROVE  /\ constructVerityKernelCmdlineArgs(verity, hash) \in Hashed(verity, hash)
           /\ HashArgName(verity) \in verityKernelArgsToRemove
           /\ HashArgName(verity) \in STRING /\ HashArgName(verity) # "root"
<1> DEFINE name == HashArgName(verity)
           a == Arg("rd.systemd.verity", "1")
           b == Arg(name, hash)
           s == <<a>>
           t == <<b>>
<1>1. name \in {"roothash", "usrhash"}
  BY DEF HashArgName
<1>2. "rd.systemd.verity" \in STRING /\ "1" \in STRING /\ "roothash" \in STRING /\ "usrhash" \in STRING
  BY StringLiterals, Zenon
<1>3. a \in Args /\ b \in Args /\ a.name \notin {name} /\ b.name = name
  BY <1>1, <1>2 DEF Arg, Args
<1>4. constructVerityKernelCmdlineArgs(verity, hash) = <<a>> \o <<b>>
  BY DEF constructVerityKernelCmdlineArgs
<1> HIDE DEF a, b, name
<1>5. s \in Seq(Args) /\ t \in Seq(Args)
  BY <1>3
<1>6. findMatchingCommandLineArgs(s, {name}) = <<>> /\ findMatchingCommandLineArgs(t, {name}) = t
  BY <1>3, MatchingOne
<1> HIDE DEF s, t
<1>7. findMatchingCommandLineArgs(s \o t, {name}) = <<>> \o t
  <2>1. findMatchingCommandLineArgs(s \o t, {name}) =
            findMatchingCommandLineArgs(s, {name}) \o findMatchingCommandLineArgs(t, {name})
    BY <1>5, ConcatArgs, Zenon
  <2> QED
    BY <1>6, <2>1, Zenon
<1>8. <<>> \o t = t /\ s \o t \in Lines
  BY <1>5, ConcatTyped DEF Lines
<1>9. constructVerityKernelCmdlineArgs(verity, hash) \in Hashed(verity, hash)
  <2>1. constructVerityKernelCmdlineArgs(verity, hash) = s \o t
    BY <1>4 DEF s, t
  <2>2. t = <<Arg(HashArgName(verity), hash)>>
    BY DEF t, b, name
  <2>3. findMatchingCommandLineArgs(s \o t, {HashArgName(verity)}) = t
    BY <1>7, <1>8 DEF name
  <2> QED
    BY <1>8, <2>1, <2>2, <2>3 DEF Hashed
<1> QED
  BY <1>1, <1>2, <1>9 DEF name, verityKernelArgsToRemove

\* Whatever hash a line had, it has the new one after an edit.
LEMMA EditsHash ==
    ASSUME NEW verity, NEW hash \in STRING
    PROVE  LET args == constructVerityKernelCmdlineArgs(verity, hash)
               new == Hashed(verity, hash)
           IN /\ EditsTo(verityKernelArgsToRemove, args, Lines, new)
              /\ EditsTo({"root"}, <<Arg("root", "mapper")>>, new, new)
              /\ \A u \in Lines : Without(u, VerityDropped) \o args \in new
<1> DEFINE name == HashArgName(verity)
           args == constructVerityKernelCmdlineArgs(verity, hash)
           new == Hashed(verity, hash)
           root == <<Arg("root", "mapper")>>
<1>1. /\ args \in new /\ name \in verityKernelArgsToRemove /\ name \in STRING /\ name # "root"
      /\ \A l : l \in new <=> l \in Lines /\ findMatchingCommandLineArgs(l, {name}) = <<Arg(name, hash)>>
  BY ConstructHashed DEF Hashed
<1>2. root \in Lines /\ findMatchingCommandLineArgs(root, {name}) = <<>>
  <2>1. Arg("root", "mapper") \in Args /\ Arg("root", "mapper").name \notin {name} /\ root \in Lines
    BY <1>1, OwnArgs DEF Arg
  <2> QED
    BY <2>1, MatchingOne
<1>3. {name} \subseteq verityKernelArgsToRemove /\ {name} \subseteq VerityDropped /\ {name} \in SUBSET STRING
      /\ {name} \intersect {"root"} = {}
  BY <1>1 DEF VerityDropped
<1> HIDE DEF name, args, new, root
<1>4. ASSUME NEW l \in Lines
      PROVE  updateKernelCommandLineArgsHelper(l, verityKernelArgsToRemove, args) \in new
  BY <1>1, <1>3, MatchingUpdated, UpdateSeq DEF Lines
<1>5. ASSUME NEW l \in new
      PROVE  updateKernelCommandLineArgsHelper(l, {"root"}, root) \in new
  <2>1. Untouched({name}, {"root"}, root)
    BY <1>2, <1>3, Zenon DEF Untouched
  <2> QED
    BY <1>1, <1>2, <2>1, MatchingUntouched, UpdateSeq DEF Lines
<1>6. ASSUME NEW l \in Lines
      PROVE  Without(l, VerityDropped) \o args \in new
  <2>1. l \in Seq(Args) /\ args \in Seq(Args)
    BY <1>1 DEF Lines, new, Hashed
  <2> DEFINE edited == Without(l, VerityDropped) \o args
  <2>2. findMatchingCommandLineArgs(edited, {name}) = findMatchingCommandLineArgs(args, {name})
    <3> DEFINE names == {name}
    <3>1. names \subseteq VerityDropped /\ names \in SUBSET STRING
      BY <1>3
    <3> HIDE DEF names
    <3>2. findMatchingCommandLineArgs(edited, names) = findMatchingCommandLineArgs(args, names)
      <4> DEFINE left == Without(l, VerityDropped)
      <4>1. left \in Seq(Args) /\ findMatchingCommandLineArgs(left, names) = <<>>
        BY <2>1, <3>1, WithoutSeq, MatchingDropped
      <4>2. findMatchingCommandLineArgs(args, names) \in Seq(Args)
        BY <2>1, MatchingSeq
      <4> HIDE DEF left
      <4>3. findMatchingCommandLineArgs(left \o args, names) = <<>> \o findMatchingCommandLineArgs(args, names)
        <5>1. findMatchingCommandLineArgs(left \o args, names) =
                  findMatchingCommandLineArgs(left, names) \o findMatchingCommandLineArgs(args, names)
          BY <2>1, <4>1, ConcatArgs, Zenon
        <5> QED
          BY <4>1, <5>1
      <4>4. \A x \in Seq(Args) : <<>> \o x = x
        OBVIOUS
      <4> QED
        BY <4>2, <4>3, <4>4 DEF left
    <3> QED
      BY <3>2 DEF names
  <2>3. edited \in Lines
    <3>1. Without(l, VerityDropped) \in Seq(Args)
      BY <2>1, WithoutSeq
    <3> QED
      BY <2>1, <3>1, ConcatTyped DEF Lines
  <2> HIDE DEF edited
  <2>4. edited \in new
    BY <1>1, <2>2, <2>3
  <2> QED
    BY <2>4 DEF edited
<1> QED
  BY <1>4, <1>5, <1>6 DEF EditsTo, args, new, root

\* What the property says of a line is that it is one of these.
LEMMA HashedValues ==
    ASSUME NEW verity, NEW hash, NEW line \in Hashed(verity, hash)
    PROVE  /\ ValuesOf(line, HashArgName(verity)) = {hash}
           /\ Len(findMatchingCommandLineArgs(line, {HashArgName(verity)})) = 1
<1> DEFINE name == HashArgName(verity)
           found == findMatchingCommandLineArgs(line, {name})
           a == Arg(name, hash)
<1>1. line \in Seq(Args) /\ found = <<a>>
  BY DEF Hashed, Lines
<1>2. a.value = hash
  BY DEF Arg
<1> HIDE DEF name, a
<1>3. Len(found) = 1 /\ (\A j \in 1..Len(found) : found[j] = a) /\ found # <<>>
  <2> HIDE DEF found
  <2> QED
    BY <1>1
<1>4. \A i \in 1..Len(line) : line[i].name \in {name} => line[i] = a
  BY <1>1, <1>3, MatchingAll
<1>5. \E i \in 1..Len(line) : line[i].name \in {name}
  BY <1>1, <1>3, MatchingNone
<1> HIDE DEF found
<1>6. ValuesOf(line, name) = {hash}
  BY <1>2, <1>4, <1>5 DEF ValuesOf, IndicesOf
<1> QED
  BY <1>3, <1>6 DEF name, found

\* The root hash of a run appears in the image when its hash tree is made; the image has UKIs
\* where they are kept.
HashInv ==
    result # "failed" =>
        /\ \A n \in runs..MaxRuns : (n = runs /\ step = 28) \/ img.hash # RootHashes[n]
        /\ Uki \in {"passthrough", "modify"} => DOMAIN img.esp # {}

\* From that step on, what the image will boot with has the hash.
HashLines ==
    result # "failed" /\ step = 28 /\ img.hash = RootHashes[runs] /\ ~SplitChain(cfg) =>
        /\ Uki # "passthrough"
        /\ Uki = "unset" => LinesIn(img.grub.lines, Hashed(img.verity, img.hash))
        /\ Uki \in {"create", "modify"} =>
              IF result = "running" THEN LinesIn(ukiInfo.lines, Hashed(img.verity, img.hash))
              ELSE UkisIn(img.esp, Hashed(img.verity, img.hash))

VerityInv == TypedLines /\ HashInv /\ HashLines

\* A step that leaves the hash and the UKIs alone, before the last one.
LEMMA HashStays ==
    ASSUME HashInv, Control, result = "running", UNCHANGED <<cfg, runs>>, step' \in {step, step + 1},
           step < 27, img'.hash = img.hash, img'.esp = img.esp
    PROVE  HashInv' /\ HashLines'
<1>1. step' # 28 /\ step # 28
  BY DEF Control
<1> QED
  BY <1>1 DEF HashInv, HashLines, Uki

\* A step of a run that goes on.
Moves == result = "running" /\ UNCHANGED <<result, cfg, runs>> /\ step' \in {step, step + 1}

\* Where a step is not, by its name.
LEMMA StepElsewhere ==
    ASSUME NEW s, AtStep(s),
           s \notin {"extractUkis", "bootLoader", "selinux", "verity", "prepareUki", "verityImage", "createUki"}
    PROVE  step \notin {3, 14, 15, 17, 20, 27, 28} /\ result = "running"
BY StepsValues DEF AtStep

\* The steps that keep the boot configuration are not where it is edited, but for keepSELinux.
LEMMA KeptStepAt ==
    ASSUME Control, KeptStep
    PROVE  /\ Moves /\ step \notin {3, 14, 17, 20, 27, 28}
           /\ keepSELinux <=> step = 15
           /\ keepSELinux \/ loc'.selinuxMode = loc.selinuxMode
<1>1. CASE keepSELinux
  <2>1. AtStep(Steps[15]) /\ Advance
    BY <1>1, StepsValues DEF keepSELinux
  <2>2. StepMade /\ step = 15
    BY <2>1, StepMadeAt
  <2> QED
    BY <1>1, <2>2 DEF StepMade, Moves
<1> DEFINE names == {"extractUkis", "bootLoader", "selinux", "verity", "prepareUki", "verityImage", "createUki"}
           Named == \E s : AtStep(s) /\ s \notin names
           GoesOn == UNCHANGED <<result, cfg, runs>> /\ step' \in {step, step + 1}
           Same == loc'.selinuxMode = loc.selinuxMode
<1>2. ASSUME \/ PackagesDone \/ KernelCheck \/ AddOrUpdateUsers \/ copyAdditionalDirs \/ copyAdditionalFiles
             \/ addCustomizerRelease \/ addImageHistory
      PROVE  Named /\ GoesOn /\ Same
  <2>1. Named
    BY <1>2 DEF PackagesDone, KernelCheck, AddOrUpdateUsers, copyAdditionalDirs, copyAdditionalFiles,
                addCustomizerRelease, addImageHistory
  <2>2. Advance /\ UNCHANGED loc
    BY <1>2 DEF PackagesDone, KernelCheck, AddOrUpdateUsers, copyAdditionalDirs, copyAdditionalFiles,
                addCustomizerRelease, addImageHistory, Becomes
  <2>3. GoesOn /\ Same
    BY <2>2, Zenon DEF Advance
  <2> QED
    BY <2>1, <2>3
<1>3. ASSUME \/ runUserScripts \/ removeOsPackageManager \/ CheckForInstalledKernel \/ SetupEtcOverlay
             \/ selinuxSetFiles \/ FinalizeEtcOverlay
      PROVE  Named /\ GoesOn /\ Same
  <2>1. Named
    BY <1>3 DEF runUserScripts, removeOsPackageManager, CheckForInstalledKernel, SetupEtcOverlay, selinuxSetFiles,
                FinalizeEtcOverlay
  <2>2. Advance /\ UNCHANGED loc
    BY <1>3, Zenon DEF runUserScripts, removeOsPackageManager, CheckForInstalledKernel, SetupEtcOverlay, selinuxSetFiles,
                FinalizeEtcOverlay, Becomes
  <2>3. GoesOn /\ Same
    BY <2>2, Zenon DEF Advance
  <2> QED
    BY <2>1, <2>3
<1>4. ASSUME restoreResolvConf \/ regenerateInitramfs \/ UpdateHostname \/ EnableOrDisableServices \/ LoadOrDisableModules
      PROVE  Named /\ GoesOn /\ Same
  <2>1. Named
    <3>1. \/ AtStep("restoreResolvConf") \/ AtStep("initramfs") \/ AtStep("hostname") \/ AtStep("services")
          \/ AtStep("modules")
      BY <1>4, Zenon DEF restoreResolvConf, regenerateInitramfs, UpdateHostname, EnableOrDisableServices,
                         LoadOrDisableModules
    <3> QED
      BY <3>1
  <2>2. Advance /\ UNCHANGED loc
    BY <1>4, Zenon DEF restoreResolvConf, regenerateInitramfs, UpdateHostname, EnableOrDisableServices,
                LoadOrDisableModules, Becomes
  <2>3. GoesOn /\ Same
    BY <2>2, Zenon DEF Advance
  <2> QED
    BY <2>1, <2>3
<1>5. ASSUME overrideResolvConf \/ enableOverlays
      PROVE  Named /\ GoesOn /\ Same
  <2>1. Named
    BY <1>5 DEF overrideResolvConf, enableOverlays
  <2>2. Advance
    BY <1>5 DEF overrideResolvConf, enableOverlays
  <2>3. Same
    <3>1. CASE overrideResolvConf
      BY <3>1 DEF overrideResolvConf
    <3>2. CASE enableOverlays
      BY <3>2 DEF enableOverlays
    <3> QED
      BY <1>5, <3>1, <3>2
  <2>4. GoesOn
    BY <2>2, Zenon DEF Advance
  <2> QED
    BY <2>1, <2>3, <2>4
<1>6. ASSUME StartPackages
      PROVE  Named /\ GoesOn /\ Same
  <2>1. Named
    BY <1>6 DEF StartPackages
  <2>2. GoesOn /\ Same
    BY <1>6 DEF StartPackages
  <2> QED
    BY <2>1, <2>2
<1>7. Named => step \notin {3, 14, 15, 17, 20, 27, 28} /\ result = "running"
  BY StepElsewhere
<1>8. keepSELinux \/ (Named /\ GoesOn /\ Same)
  <2> HIDE DEF Named, GoesOn, Same
  <2> QED
    BY <1>2, <1>3, <1>4, <1>5, <1>6, Zenon DEF KeptStep
<1> QED
  BY <1>1, <1>7, <1>8 DEF Moves

\* The positions of the steps that edit what an image boots with.
LEMMA EditStepsAt ==
    ASSUME Control
    PROVE  /\ ExtractUkis => Moves /\ step = 3 /\ step' = 4
           /\ hardResetBootLoader \/ AddKernelCommandLine => Moves /\ step = 14 /\ step' = 15
           /\ handleSELinux => Moves /\ step = 15 /\ step' = 16
           /\ enableVerityPartition => Moves /\ step = 17 /\ step' = 18
           /\ prepareUki => Moves /\ step = 20 /\ step' = 21
           /\ customizeVerityImage => Moves /\ step = 27 /\ step' = 28
           /\ createUki => step = 28 /\ step' = 28 /\ result = "running" /\ result' = "ok" /\ UNCHANGED <<cfg, runs>>
<1>1. ASSUME NEW n \in 1..27, AtStep(Steps[n]), Advance
      PROVE  Moves /\ step = n /\ step' = n + 1
  BY <1>1, StepMadeAt DEF StepMade, Moves
<1>2. ExtractUkis => AtStep(Steps[3]) /\ Advance
  BY StepsValues DEF ExtractUkis
<1>3. hardResetBootLoader \/ AddKernelCommandLine => AtStep(Steps[14]) /\ Advance
  BY StepsValues, Zenon DEF hardResetBootLoader, AddKernelCommandLine, Becomes
<1>4. handleSELinux => AtStep(Steps[15]) /\ Advance
  BY StepsValues, Zenon DEF handleSELinux
<1>5. enableVerityPartition => AtStep(Steps[17]) /\ Advance
  BY StepsValues, Zenon DEF enableVerityPartition
<1>6. prepareUki => AtStep(Steps[20]) /\ Advance
  BY StepsValues, Zenon DEF prepareUki
<1>7. customizeVerityImage => AtStep(Steps[27]) /\ Advance
  BY StepsValues, Zenon DEF customizeVerityImage
<1>8. createUki => step = 28 /\ step' = 28 /\ result = "running" /\ result' = "ok" /\ UNCHANGED <<cfg, runs>>
  <2>1. createUki => AtStep(Steps[28]) /\ result' = "ok" /\ UNCHANGED <<cfg, runs, step>>
    BY StepsValues DEF createUki
  <2>2. AtStep(Steps[28]) => step = 28 /\ result = "running"
    <3>1. SUFFICES ASSUME AtStep(Steps[28]) PROVE step = 28 /\ result = "running"
      OBVIOUS
    <3>2. step \in 1..28 /\ 28 \in 1..28 /\ Steps[step] = Steps[28]
      BY <3>1 DEF AtStep, Control
    <3>3. step = 28
      BY <3>2, StepPosition
    <3> QED
      BY <3>1, <3>3 DEF AtStep
  <2> QED
    BY <2>1, <2>2
<1> QED
  BY <1>1, <1>2, <1>3, <1>4, <1>5, <1>6, <1>7, <1>8

\* The steps before customizeVerityImage leave the hash and the UKIs alone, and so do those
\* that come where nothing is edited.
LEMMA OtherStepsHash ==
    ASSUME Shape, Control, HashInv,
           \/ KeptStep \/ ExtractUkis \/ hardResetBootLoader \/ AddKernelCommandLine \/ handleSELinux
           \/ enableVerityPartition \/ prepareUki
    PROVE  HashInv' /\ HashLines'
<1>1. Moves /\ step \notin {27, 28}
  BY KeptStepAt, EditStepsAt
<1>2. step \in 1..26
  BY <1>1 DEF Control
<1>3. img'.hash = img.hash /\ img'.esp = img.esp
  <2>1. CASE KeptStep
    BY <2>1, KeptStepsKeep DEF Leaves, BootFields
  <2>2. CASE ExtractUkis
    BY <2>2, ExtractUkisLines DEF Leaves, BootFields
  <2>3. CASE hardResetBootLoader \/ AddKernelCommandLine \/ handleSELinux \/ enableVerityPartition \/ prepareUki
    BY <2>3, GrubStepsKeep DEF Leaves, Apart
  <2> QED
    BY <2>1, <2>2, <2>3
<1> QED
  BY <1>1, <1>2, <1>3, HashStays DEF Moves

\* No file of a chain that keeps the UKIs and is not split makes verity anew.
LEMMA PassthroughKeepsHash ==
    ASSUME Control, ChainAccepted, KeptUkiInv, result = "running", Uki = "passthrough", ~SplitChain(cfg)
    PROVE  ~resolveStorage(cfg).reinit /\ ~loc.verityUpdated
<1>1. \A i \in 1..Len(cfg) : ~cfg[i].reinit
  BY DEF Uki, SplitChain, AnyFile, validateUkiPassthroughMode
<1>2. ~loc.verityUpdated
  BY DEF KeptUkiInv
<1> DEFINE with == {i \in 1..Len(cfg) : HasStorage(cfg[i])}
<1>3. CASE with = {}
  BY <1>2, <1>3 DEF resolveStorage, EmptyFile
<1>4. CASE with # {}
  <2>1. PICK i \in 1..Len(cfg) : with = {i}
    BY <1>4 DEF ChainAccepted, StorageMoreThanOne
  <2>2. i \in Int
    OBVIOUS
  <2> HIDE DEF with
  <2>3. LastOf(with) = i
    <3>1. \E l \in with : \A j \in with : j <= l
      BY <2>1, <2>2
    <3>2. LastOf(with) \in with
      BY <3>1 DEF LastOf
    <3> QED
      BY <2>1, <3>2
  <2>4. resolveStorage(cfg) = cfg[i]
    BY <1>4, <2>3 DEF resolveStorage, with
  <2> QED
    BY <1>1, <1>2, <2>4
<1> QED
  BY <1>3, <1>4

\* customizeVerityImage writes the hash where the image will boot from.
LEMMA VerityImageHash ==
    ASSUME ImageInv, TypedLines, HashInv, customizeVerityImage
    PROVE  HashInv' /\ HashLines'
<1> USE DEF ImageInv
<1> DEFINE hash == RootHashes[runs]
           args == constructVerityKernelCmdlineArgs(img.verity, hash)
<1>1. /\ step = 27 /\ step' = 28 /\ result = "running" /\ result' = "running" /\ UNCHANGED <<cfg, runs>>
      /\ runs \in 1..MaxRuns
  BY EditStepsAt DEF Moves, Control
<1>2. img'.esp = img.esp /\ img'.verity = img.verity
  <2>1. Leaves(img, img', Kept \ {"grub", "hash"}) /\ {"esp", "verity"} \subseteq Kept \ {"grub", "hash"}
    BY VerityImageKeeps DEF Kept, BootFields
  <2> QED
    BY <2>1 DEF Leaves
<1>3. UNCHANGED <<img, ukiInfo>> \/ HashWritten(hash)
  BY VerityImageGrub
<1>4. hash \in STRING /\ \A n \in runs..MaxRuns : img.hash # RootHashes[n]
  BY <1>1, HashTyped DEF HashInv
<1>5. \A n \in runs..MaxRuns : n = runs \/ hash # RootHashes[n]
  BY <1>1, OsAssumption
<1> HIDE DEF hash
<1>6. HashInv'
  <2>1. img'.hash = img.hash \/ img'.hash = hash
    BY <1>3 DEF HashWritten
  <2> QED
    BY <1>1, <1>2, <1>4, <1>5, <2>1 DEF HashInv, Uki
<1>7. CASE UNCHANGED <<img, ukiInfo>>
  <2>1. img'.hash # RootHashes[runs]'
    BY <1>1, <1>4, <1>7
  <2> QED
    BY <1>6, <2>1 DEF HashLines
<1>8. CASE HashWritten(hash)
  <2> DEFINE new == Hashed(img.verity, hash)
  <2>1. img'.hash = hash /\ (resolveStorage(cfg).reinit \/ loc.verityUpdated)
    BY <1>8 DEF HashWritten
  <2>2. ~SplitChain(cfg) => Uki # "passthrough"
    BY <1>1, <2>1, PassthroughKeepsHash
  <2>3. /\ EditsTo(verityKernelArgsToRemove, args, Lines, new)
        /\ EditsTo({"root"}, <<Arg("root", "mapper")>>, new, new)
        /\ \A u \in Lines : Without(u, VerityDropped) \o args \in new
    BY <1>4, EditsHash
  <2>4. args \in Lines /\ <<Arg("root", "mapper")>> \in Lines
    BY <1>4, VerityArgsTyped, OwnArgs
  <2>5. HasGrub(img) /\ GrubIn(img.grub, Lines, Lines, Lines) /\ LinesIn(ukiInfo.lines, Lines)
    BY ImageHasGrub DEF TypedLines
  <2> HIDE DEF args, new
  <2>6. EditsTo(verityKernelArgsToRemove, args, Lines, Lines) /\ EditsTo({"root"}, <<Arg("root", "mapper")>>, Lines, Lines)
    BY <2>4, LinesClosed
  <2>7. GrubIn(updateGrubConfigForVerity(img, img.verity, hash).grub, Lines, Lines, new)
    BY <2>3, <2>5, <2>6, VerityLines DEF args
  <2>8. Relined(appendKernelArgsToUkiCmdlineFile(ukiInfo, args), Lines, new)
    BY <2>3, VerityRelined
  <2>9. Uki = "unset" => LinesIn(img'.grub.lines, new)
    BY <1>8, <2>7 DEF HashWritten, GrubIn
  <2>10. Uki \in {"create", "modify"} => LinesIn(ukiInfo'.lines, new)
    BY <1>8, <2>5, <2>8 DEF HashWritten, Relined, args
  <2>11. new = Hashed(img'.verity, img'.hash) /\ Uki' = Uki /\ SplitChain(cfg)' = SplitChain(cfg)
    BY <1>1, <1>2, <2>1 DEF new, Uki
  <2> QED
    BY <1>1, <1>6, <2>2, <2>9, <2>10, <2>11 DEF HashLines
<1> QED
  BY <1>3, <1>7, <1>8

\* The last step gives the UKIs what uki-kernel-info.json has.
LEMMA CreateUkiHash ==
    ASSUME ImageInv, TypedLines, HashInv, HashLines, createUki
    PROVE  HashInv' /\ HashLines'
<1> USE DEF ImageInv
<1>1. step = 28 /\ step' = 28 /\ result = "running" /\ result' = "ok" /\ UNCHANGED <<cfg, runs>>
  BY EditStepsAt
<1>2. img'.hash = img.hash /\ img'.verity = img.verity /\ img'.grub = img.grub
  <2>1. Leaves(img, img', Kept \ {"esp"}) /\ {"hash", "verity", "grub"} \subseteq Kept \ {"esp"}
    BY CreateUkiKeeps DEF Kept, BootFields
  <2> QED
    BY <2>1 DEF Leaves
<1> DEFINE new == Hashed(img.verity, img.hash)
<1>3. UkisIn(img.esp, Lines)
  BY DEF TypedLines
<1>4. DOMAIN img'.esp = IF Uki = "create" THEN DOMAIN ukiInfo.lines ELSE DOMAIN img.esp
  BY <1>3, CreateUkiLines DEF TypedLines
<1>5. LinesIn(ukiInfo.lines, new) /\ Uki \in {"create", "modify"} => UkisIn(img'.esp, new)
  BY <1>3, CreateUkiLines
<1> HIDE DEF new
<1>6. HashInv'
  BY <1>1, <1>2, <1>4 DEF HashInv, Uki
<1>7. HashLines'
  <2>1. SUFFICES ASSUME result' # "failed", step' = 28, img'.hash = RootHashes[runs'], ~SplitChain(cfg')
                 PROVE  /\ Uki # "passthrough"
                        /\ Uki = "unset" => LinesIn(img'.grub.lines, new)
                        /\ Uki \in {"create", "modify"} => UkisIn(img'.esp, new)
    BY <1>1, <1>2 DEF HashLines, Uki, new
  <2> QED
    BY <1>1, <1>2, <1>5, <2>1 DEF HashLines, new
<1> QED
  BY <1>6, <1>7

\* A run starts with another hash than those that it and the later runs will make.
LEMMA StartsHash ==
    ASSUME Control, HashInv, NEW im, NEW chain, Starts(im, chain)
    PROVE  HashInv' /\ HashLines'
<1>1. /\ step' = 1 /\ cfg' = chain /\ runs' = runs + 1 /\ result # "running" /\ Accepted(img', chain)
      /\ img'.hash = im.hash /\ img'.esp = im.esp /\ im \in IF result = "ok" THEN {img} ELSE BaseImages
  BY DEF Starts, Leaves, BootFields
<1>2. runs \in 1..MaxRuns /\ MaxRuns \in Nat
  BY OsAssumption DEF Control
<1>3. \A n \in (runs + 1)..MaxRuns : im.hash # RootHashes[n]
  <2>1. CASE result = "ok"
    BY <1>1, <1>2, <2>1 DEF HashInv
  <2>2. CASE result # "ok"
    <3>1. \A n \in 1..MaxRuns : im.hash # RootHashes[n]
      BY <1>1, <2>2, BaseImagesAssumption, Zenon
    <3> QED
      BY <1>2, <3>1
  <2> QED
    BY <2>1, <2>2
<1>4. resolveUki(chain) \in {"passthrough", "modify"} => DOMAIN img'.esp # {}
  BY <1>1 DEF Accepted, validateUkiMode
<1> QED
  BY <1>1, <1>3, <1>4 DEF HashInv, HashLines, Uki

\* Every step keeps the invariant.
LEMMA VerityNext == ImageInv /\ VerityInv /\ [Next]_vars => VerityInv'
<1> SUFFICES ASSUME ImageInv, VerityInv, [Next]_vars PROVE HashInv' /\ HashLines'
  BY TypedLinesNext DEF VerityInv
<1> USE DEF ImageInv, VerityInv
<1>1. CASE \/ KeptStep \/ ExtractUkis \/ hardResetBootLoader \/ AddKernelCommandLine \/ handleSELinux
           \/ enableVerityPartition \/ prepareUki
  BY <1>1, OtherStepsHash
<1>2. CASE customizeVerityImage
  BY <1>2, VerityImageHash
<1>3. CASE createUki
  BY <1>3, CreateUkiHash
<1>4. CASE PackageManagement \/ RunPackageOperation
  <2>1. step = 4 /\ result = "running" /\ UNCHANGED <<cfg, runs, step>>
    BY <1>4, PackageStepsAtPackages DEF PackageManagement, RunPackageOperation
  <2>2. img'.hash = img.hash /\ img'.esp = img.esp
    BY <1>4, PackagesKeep DEF Leaves, Apart
  <2> QED
    BY <2>1, <2>2, HashStays
<1>5. CASE StepFails
  BY <1>5, StepFailsLeaves DEF HashInv, HashLines
<1>6. CASE \E chain \in Chains : NextRun(chain)
  BY <1>6, NextRunStarts, StartsHash
<1>7. CASE Finished \/ UNCHANGED vars
  <2>1. UNCHANGED osVars
    BY <1>7 DEF Finished, vars
  <2> QED
    BY <2>1 DEF osVars, HashInv, HashLines, Uki
<1> QED
  BY <1>1, <1>2, <1>3, <1>4, <1>5, <1>6, <1>7 DEF Next, KeptStep

\* No base image has a hash that a run will make.
LEMMA VerityInit == Init => VerityInv
<1> SUFFICES ASSUME Init PROVE HashInv /\ HashLines
  BY TypedLinesInit DEF VerityInv
<1>1. PICK im \in BaseImages : img = customizePartitionsUsingFileCopy(im, cfg)
  BY DEF Init
<1>2. Leaves(im, img, BootFields \ {"verity"})
  BY <1>1, BaseImageLines, PartitionsLeave
<1>3. /\ step = 1 /\ runs = 1 /\ Accepted(img, cfg) /\ img.hash = im.hash
      /\ \A n \in 1..MaxRuns : im.hash # RootHashes[n]
  <2>1. \A n \in 1..MaxRuns : im.hash # RootHashes[n]
    BY BaseImagesAssumption, Zenon
  <2> QED
    BY <1>2, <2>1 DEF Init, Leaves, BootFields
<1>4. Uki \in {"passthrough", "modify"} => DOMAIN img.esp # {}
  BY <1>3 DEF Accepted, validateUkiMode, Uki
<1> QED
  BY <1>3, <1>4 DEF HashInv, HashLines

\* customizeVerityImage, updateGrubConfigForVerity and updateUkiForVerity: when a run has made
\* a hash tree, every kernel that the image can boot with is given the tree's root hash, once,
\* whatever hash an earlier run left and whether the command lines are grub's or the UKIs'.
THEOREM VerityHashReachesBoot == Spec => []VerityHashBooted
<1>1. OsInv /\ VerityInv /\ [Next]_vars => VerityInv'
  BY VerityNext DEF OsInv
<1>2. OsInv /\ VerityInv => VerityHashBooted
  <2> SUFFICES ASSUME ImageInv, VerityInv, result = "ok", img.hash = RootHashes[runs], ~SplitChain(cfg),
                      NEW k \in Booted
               PROVE  CmdlineFor(k) \in Hashed(img.verity, img.hash)
    BY HashedValues DEF OsInv, VerityHashBooted
  <2>1. step = 28 /\ Uki \in UkiModes
    BY UkiTyped DEF ImageInv, Control
  <2>2. CASE Uki = "unset"
    <3>1. DOMAIN img.esp = {} /\ LinesIn(img.grub.lines, Hashed(img.verity, img.hash))
      BY <2>1, <2>2 DEF ImageInv, GrubInv, VerityInv, HashLines
    <3> QED
      BY <3>1 DEF Booted, CmdlineFor, BootedLines, LinesIn
  <2>3. CASE Uki \in {"create", "modify"}
    <3>1. DOMAIN img.esp # {}
      BY <2>1, <2>3 DEF ImageInv, CreateUkiInv, VerityInv, HashInv
    <3>2. UkisIn(img.esp, Hashed(img.verity, img.hash))
      BY <2>1, <2>3 DEF VerityInv, HashLines
    <3> QED
      BY <3>1, <3>2 DEF Booted, CmdlineFor, BootedLines, UkisIn
  <2> QED
    BY <2>1, <2>2, <2>3 DEF VerityInv, HashLines, UkiModes
<1> QED
  BY <1>1, <1>2, VerityInit, OsAlways, PTL DEF Spec

-----------------------------------------------------------------------------
(* What an image boots from.                                                *)

\* The run goes on with the chains and the directories it has.
SameRun == loc'.leftover = loc.leftover /\ loc'.split = loc.split

\* Only a new run changes that.
LEMMA SameRunKept ==
    ASSUME Shape, Next, \A chain \in Chains : ~NextRun(chain)
    PROVE  SameRun
<1>1. SUFFICES ASSUME ~UNCHANGED loc PROVE \E v \in {"cf", "resolv", "selinuxMode", "overlayUpdated", "verityUpdated"} :
                                               \E value : loc' = [loc EXCEPT ![v] = value]
  BY DEF SameRun, Shape, NoLocals
<1>2. \/ StartPackages \/ overrideResolvConf \/ keepSELinux \/ handleSELinux \/ enableOverlays \/ enableVerityPartition
  <2>1. CASE \/ PackagesDone \/ KernelCheck \/ AddOrUpdateUsers \/ copyAdditionalDirs \/ copyAdditionalFiles
             \/ addCustomizerRelease \/ addImageHistory \/ SetupEtcOverlay \/ ExtractUkis
    BY <1>1, <2>1 DEF PackagesDone, KernelCheck, AddOrUpdateUsers, copyAdditionalDirs, copyAdditionalFiles,
                      addCustomizerRelease, addImageHistory, SetupEtcOverlay, ExtractUkis, Becomes
  <2>2. CASE \/ runUserScripts \/ removeOsPackageManager \/ CheckForInstalledKernel \/ selinuxSetFiles
             \/ FinalizeEtcOverlay
    BY <1>1, <2>2, Zenon DEF runUserScripts, removeOsPackageManager, CheckForInstalledKernel, selinuxSetFiles,
                             FinalizeEtcOverlay, Becomes
  <2>3. CASE restoreResolvConf \/ regenerateInitramfs \/ UpdateHostname \/ EnableOrDisableServices \/ LoadOrDisableModules
    BY <1>1, <2>3, Zenon DEF restoreResolvConf, regenerateInitramfs, UpdateHostname, EnableOrDisableServices,
                             LoadOrDisableModules, Becomes
  <2>4. CASE hardResetBootLoader \/ AddKernelCommandLine
    BY <1>1, <2>4, Zenon DEF hardResetBootLoader, AddKernelCommandLine, Becomes
  <2>5. CASE prepareUki \/ customizeVerityImage \/ createUki
    BY <1>1, <2>5, Zenon DEF prepareUki, customizeVerityImage, createUki
  <2>6. CASE PackageManagement \/ RunPackageOperation
    BY <1>1, <2>6, Zenon DEF PackageManagement, RunPackageOperation
  <2>7. CASE StepFails \/ Finished
    BY <1>1, <2>7, Zenon DEF StepFails, Abort, Finished, vars, osVars
  <2> QED
    BY <2>1, <2>2, <2>3, <2>4, <2>5, <2>6, <2>7, Zenon DEF Next
<1>3. CASE StartPackages
  BY <1>3 DEF StartPackages
<1>4. CASE overrideResolvConf
  BY <1>4 DEF overrideResolvConf
<1>5. CASE keepSELinux
  BY <1>5, Zenon DEF keepSELinux
<1>6. CASE handleSELinux
  BY <1>6, Zenon DEF handleSELinux
<1>7. CASE enableOverlays
  BY <1>7 DEF enableOverlays
<1>8. CASE enableVerityPartition
  BY <1>8, Zenon DEF enableVerityPartition
<1> QED
  BY <1>2, <1>3, <1>4, <1>5, <1>6, <1>7, <1>8

\* The edits of grub's configuration leave its kind.
LEMMA KindsKept ==
    ASSUME NEW im, HasGrub(im)
    PROVE  /\ \A extra : WriteToFile(BootCustomizerAddKernelCommandLine(im, extra)).grub.kind = im.grub.kind
           /\ \A names, args : WriteToFile(UpdateKernelCommandLineArgs(im, names, args)).grub.kind = im.grub.kind
           /\ WriteToFile(im).grub.kind = im.grub.kind
           /\ WriteToFile(PrepareForVerity(im)).grub.kind = im.grub.kind
           /\ \A verity, hash : updateGrubConfigForVerity(im, verity, hash).grub.kind = im.grub.kind
           /\ \A k : KernelInstalled(im, k).grub.kind = im.grub.kind /\ KernelRemoved(im, k).grub.kind = im.grub.kind
<1>1. ASSUME NEW new, GrubEdit(im, new) PROVE WriteToFile(new).grub.kind = im.grub.kind
  BY <1>1, GrubEditHasGrub, WriteToFileEdit DEF GrubEdit, GrubKept
<1>2. \A extra : WriteToFile(BootCustomizerAddKernelCommandLine(im, extra)).grub.kind = im.grub.kind
  BY <1>1, AddKernelCommandLineEdit
<1>3. \A names, args : WriteToFile(UpdateKernelCommandLineArgs(im, names, args)).grub.kind = im.grub.kind
  BY <1>1, UpdateArgsEdit
<1>4. WriteToFile(im).grub.kind = im.grub.kind /\ WriteToFile(PrepareForVerity(im)).grub.kind = im.grub.kind
  BY <1>1, GrubEditStays, PrepareForVerityEdit
<1>5. \A verity, hash : updateGrubConfigForVerity(im, verity, hash).grub.kind = im.grub.kind
  BY VerityEdit DEF GrubEdit, GrubKept
<1>6. \A k : KernelInstalled(im, k).grub.kind = im.grub.kind /\ KernelRemoved(im, k).grub.kind = im.grub.kind
  BY KernelInstalledEdit, KernelRemovedEdit
<1> QED
  BY <1>2, <1>3, <1>4, <1>5, <1>6

\* What the image boots from is neither made nor removed by most steps.
BootStays ==
    /\ img'.grub.kind = img.grub.kind /\ img'.esp = img.esp
    /\ DOMAIN ukiInfo'.lines = DOMAIN ukiInfo.lines /\ ukiInfo'.exists = ukiInfo.exists

OrdinaryStep ==
    \/ KeptStep \/ AddKernelCommandLine \/ handleSELinux \/ enableVerityPartition \/ customizeVerityImage
    \/ PackageManagement \/ RunPackageOperation
    \/ prepareUki /\ Uki # "create"

\* These are the steps that do neither.
LEMMA OrdinaryStepsKeep ==
    ASSUME Shape, OrdinaryStep
    PROVE  BootStays
<1>1. HasGrub(img)
  BY ImageHasGrub
<1>2. img'.esp = img.esp
  <2>1. CASE KeptStep
    BY <2>1, KeptStepsKeep DEF Leaves, BootFields
  <2>2. CASE AddKernelCommandLine \/ handleSELinux \/ enableVerityPartition \/ prepareUki
    BY <2>2, GrubStepsKeep DEF Leaves, Apart
  <2>3. CASE customizeVerityImage
    <3>1. Leaves(img, img', Kept \ {"grub", "hash"}) /\ "esp" \in Kept \ {"grub", "hash"}
      BY <2>3, VerityImageKeeps DEF Kept, BootFields
    <3> QED
      BY <3>1 DEF Leaves
  <2>4. CASE PackageManagement \/ RunPackageOperation
    BY <2>4, PackagesKeep DEF Leaves, Apart
  <2> QED
    BY <2>1, <2>2, <2>3, <2>4 DEF OrdinaryStep
<1>3. \A extra : Relined(appendToUkiCmdlineFile(ukiInfo, extra), {}, {})
  BY AppendedRelined
<1>4. \A names, args : Relined(updateUkiCmdlineFile(ukiInfo, names, args), {}, {})
  BY UpdatedRelined
<1>5. \A args : Relined(appendKernelArgsToUkiCmdlineFile(ukiInfo, args), {}, {})
  BY VerityRelined
<1>6. CASE KeptStep
  BY <1>2, <1>6, KeptStepsKeep DEF Leaves, BootFields, BootStays
<1>7. CASE AddKernelCommandLine
  BY <1>1, <1>2, <1>3, <1>7, KindsKept, AddKernelCommandLineGrub DEF AddedTo, Relined, BootStays
<1>8. CASE handleSELinux
  BY <1>1, <1>2, <1>4, <1>8, KindsKept, HandleSELinuxGrub DEF ReplacedIn, Relined, BootStays
<1>9. CASE enableVerityPartition
  BY <1>1, <1>2, <1>9, KindsKept, EnableVerityGrub DEF BootStays
<1>10. CASE customizeVerityImage
  BY <1>1, <1>2, <1>5, <1>10, KindsKept, VerityImageGrub DEF HashWritten, Relined, BootStays
<1>11. CASE PackageManagement \/ RunPackageOperation
  BY <1>1, <1>2, <1>11, KindsKept, PackagesGrub DEF BootStays
<1>12. CASE prepareUki /\ Uki # "create"
  BY <1>12, PrepareUkiGrub DEF BootStays
<1> QED
  BY <1>6, <1>7, <1>8, <1>9, <1>10, <1>11, <1>12 DEF OrdinaryStep

\* An image boots from grub or from UKIs; both are there only between the hard reset, which
\* installs grub, and prepareUki, which removes it for the new UKIs.
BootShape ==
    result # "failed" =>
        /\ ~loc.split /\ DOMAIN img.esp # {} /\ img.grub.kind # "none" => Uki = "create" /\ Hard /\ step \in 15..20
        /\ Uki = "create" /\ step > 20 => img.grub.kind = "none"
        /\ Hard /\ step > 14 /\ ~(Uki = "create" /\ step > 20) => img.grub.kind # "none"
        /\ Uki \in {"passthrough", "modify"} => DOMAIN img.esp # {}

\* uki-kernel-info.json has the command lines of the UKIs that a create run has found, and
\* those alone.
InfoShape ==
    /\ ukiInfo.exists \/ DOMAIN ukiInfo.lines = {}
    /\ result = "running" /\ ~loc.leftover /\ Uki = "create" /\ step < 21 =>
          DOMAIN ukiInfo.lines = IF step > 3 /\ DOMAIN img.esp # {} /\ ~Hard THEN DOMAIN img.esp ELSE {}

\* Where a step can be that leaves this.
LEMMA OrdinaryStepAt ==
    ASSUME Shape, Control, OrdinaryStep
    PROVE  /\ result = "running" /\ UNCHANGED <<cfg, runs>> /\ step' \in {step, step + 1}
           /\ step # 3 /\ (step = 14 => ~Hard \/ step' = 14) /\ (step = 20 => Uki # "create" \/ step' = 20)
           /\ SameRun
<1>1. SameRun
  <2>1. Next /\ \A chain \in Chains : ~NextRun(chain)
    <3>1. Next
      BY DEF OrdinaryStep, KeptStep, Next
    <3>2. result = "running"
      BY KeptStepAt, EditStepsAt DEF OrdinaryStep, Moves, PackageManagement, RunPackageOperation
    <3> QED
      BY <3>1, <3>2 DEF NextRun
  <2> QED
    BY <2>1, SameRunKept
<1>2. CASE KeptStep
  BY <1>1, <1>2, KeptStepAt DEF Moves
<1>3. CASE AddKernelCommandLine
  BY <1>1, <1>3, EditStepsAt, AddKernelCommandLineGrub DEF Moves, AddKernelCommandLine
<1>4. CASE handleSELinux \/ enableVerityPartition \/ customizeVerityImage \/ (prepareUki /\ Uki # "create")
  BY <1>1, <1>4, EditStepsAt DEF Moves
<1>5. CASE PackageManagement \/ RunPackageOperation
  BY <1>1, <1>5, PackageStepsAtPackages DEF PackageManagement, RunPackageOperation
<1> QED
  BY <1>2, <1>3, <1>4, <1>5 DEF OrdinaryStep

\* A chain that keeps the UKIs and is not split does not reset the boot loader, and one that
\* passes them through has no command lines of its own.
LEMMA NotSplitBoot ==
    ASSUME Control, ~SplitChain(cfg)
    PROVE  /\ Uki \in {"passthrough", "modify"} => ~Hard
           /\ Uki = "passthrough" => \A i \in 1..Len(cfg) : cfg[i].extra = <<>> /\ cfg[i].selinux \notin SELinuxModes
<1>1. ASSUME Uki \in {"passthrough", "modify"} PROVE \A i \in 1..Len(cfg) : ~cfg[i].hard
  BY <1>1 DEF Uki, SplitChain, AnyFile, validateUkiModifyMode, validateUkiPassthroughMode
<1>2. ASSUME Uki = "passthrough" PROVE \A i \in 1..Len(cfg) : cfg[i].extra = <<>> /\ cfg[i].selinux \notin SELinuxModes
  BY <1>2, Zenon DEF Uki, SplitChain, AnyFile, validateUkiPassthroughMode, SELinuxModes
<1> QED
  BY <1>1, <1>2 DEF Hard, resolveBootLoaderResetType, AnyFile

\* Every step keeps what the image boots from.
LEMMA BootShapeNext == ImageInv /\ TypedLines /\ BootShape /\ UkisWithoutGrub /\ [Next]_vars => BootShape'
<1> SUFFICES ASSUME ImageInv, TypedLines, BootShape, UkisWithoutGrub, [Next]_vars PROVE BootShape'
  OBVIOUS
<1> USE DEF ImageInv
<1>1. CASE OrdinaryStep
  <2>1. BootStays
    BY <1>1, OrdinaryStepsKeep
  <2>2. /\ result = "running" /\ UNCHANGED <<cfg, runs>> /\ step' \in {step, step + 1}
        /\ step # 3 /\ (step = 14 => ~Hard \/ step' = 14) /\ (step = 20 => Uki # "create" \/ step' = 20)
        /\ SameRun
    BY <1>1, OrdinaryStepAt
  <2>3. step \in 1..28 /\ Uki' = Uki /\ Hard' = Hard
    BY <2>2 DEF Control, Uki, Hard
  <2> QED
    BY <2>1, <2>2, <2>3 DEF BootShape, BootStays, SameRun
<1>2. CASE ExtractUkis
  <2>1. Moves /\ step = 3 /\ step' = 4
    BY <1>2, EditStepsAt
  <2>2. img'.grub = img.grub /\ img'.esp = img.esp
    BY <1>2, ExtractUkisLines DEF Leaves, BootFields
  <2>3. Uki' = Uki /\ Hard' = Hard
    BY <2>1 DEF Moves, Uki, Hard
  <2>4. UNCHANGED loc
    BY <1>2 DEF ExtractUkis
  <2> QED
    BY <2>1, <2>2, <2>3, <2>4 DEF BootShape, Moves
<1>3. CASE hardResetBootLoader
  <2>1. Moves /\ step = 14 /\ step' = 15
    BY <1>3, EditStepsAt
  <2>2. img'.grub.kind # "none" /\ Hard
    BY <1>3, HardResetGrub
  <2>3. img'.esp = img.esp
    BY <1>3, GrubStepsKeep DEF Leaves, Apart
  <2>4. Uki' = Uki /\ Hard' = Hard
    BY <2>1 DEF Moves, Uki, Hard
  <2>5. UNCHANGED loc
    BY <1>3, Zenon DEF hardResetBootLoader, Becomes
  <2>6. ~loc.split /\ DOMAIN img.esp # {} => Uki = "create"
    BY <2>1, <2>2, UkiTyped, NotSplitBoot DEF DriversInv, GrubInv, UkiModes, Moves
  <2> QED
    BY <2>1, <2>2, <2>3, <2>4, <2>5, <2>6 DEF BootShape, Moves
<1>4. CASE prepareUki /\ Uki = "create"
  <2>1. Moves /\ step = 20 /\ step' = 21
    BY <1>4, EditStepsAt
  <2>2. img'.grub.kind = "none"
    BY <1>4, PrepareUkiGrub DEF GrubGone
  <2>3. Uki' = Uki /\ Hard' = Hard
    BY <2>1 DEF Moves, Uki, Hard
  <2> QED
    BY <1>4, <2>1, <2>2, <2>3 DEF BootShape, Moves
<1>5. CASE createUki
  <2>1. step = 28 /\ step' = 28 /\ result = "running" /\ result' = "ok" /\ UNCHANGED <<cfg, runs>>
    BY <1>5, EditStepsAt
  <2>2. img'.grub = img.grub
    <3>1. Leaves(img, img', Kept \ {"esp"}) /\ "grub" \in Kept \ {"esp"}
      BY <1>5, CreateUkiKeeps DEF Kept, BootFields
    <3> QED
      BY <3>1 DEF Leaves
  <2>3. DOMAIN img'.esp = IF Uki = "create" THEN DOMAIN ukiInfo.lines ELSE DOMAIN img.esp
    BY <1>5, CreateUkiLines DEF TypedLines
  <2>4. Uki' = Uki /\ Hard' = Hard /\ UNCHANGED loc
    BY <1>5, <2>1, Zenon DEF Uki, Hard, createUki
  <2> QED
    BY <2>1, <2>2, <2>3, <2>4 DEF BootShape
<1>6. CASE StepFails
  BY <1>6, StepFailsLeaves DEF BootShape
<1>7. CASE \E chain \in Chains : NextRun(chain)
  <2>1. PICK chain, im : Starts(im, chain)
    BY <1>7, NextRunStarts
  <2>2. /\ step' = 1 /\ cfg' = chain /\ result # "running" /\ Accepted(img', chain)
        /\ img'.grub = im.grub /\ img'.esp = im.esp /\ im \in IF result = "ok" THEN {img} ELSE BaseImages
        /\ loc'.split <=> (SplitChain(chain) \/ (result = "ok" /\ loc.split))
    BY <2>1 DEF Starts, Leaves, BootFields
  <2>3. ~loc'.split /\ DOMAIN im.esp # {} => im.grub.kind = "none"
    <3>1. CASE result = "ok"
      BY <2>2, <3>1 DEF BootShape, Control
    <3>2. CASE result # "ok"
      BY <2>2, <3>2 DEF UkisWithoutGrub
    <3> QED
      BY <3>1, <3>2
  <2>4. Uki' \in {"passthrough", "modify"} => DOMAIN img'.esp # {}
    BY <2>2 DEF Accepted, validateUkiMode, Uki
  <2> QED
    BY <2>2, <2>3, <2>4 DEF BootShape
<1>8. CASE Finished \/ UNCHANGED vars
  <2>1. UNCHANGED osVars
    BY <1>8 DEF Finished, vars
  <2> QED
    BY <2>1 DEF osVars, BootShape, Uki, Hard
<1> QED
  BY <1>1, <1>2, <1>3, <1>4, <1>5, <1>6, <1>7, <1>8 DEF Next, OrdinaryStep, KeptStep

\* At the start of a first run.
LEMMA BootShapeInit == Init /\ UkisWithoutGrub => BootShape /\ InfoShape
<1> SUFFICES ASSUME Init, UkisWithoutGrub PROVE BootShape /\ InfoShape
  OBVIOUS
<1>1. PICK im \in BaseImages : img = customizePartitionsUsingFileCopy(im, cfg)
  BY DEF Init
<1>2. Leaves(im, img, BootFields \ {"verity"})
  BY <1>1, BaseImageLines, PartitionsLeave
<1>3. /\ step = 1 /\ Accepted(img, cfg) /\ img.esp = im.esp /\ img.grub = im.grub
      /\ DOMAIN ukiInfo.lines = {}
  BY <1>2 DEF Init, Leaves, BootFields, NoUkiInfo, NoLines
<1>4. Uki \in {"passthrough", "modify"} => DOMAIN img.esp # {}
  BY <1>3 DEF Accepted, validateUkiMode, Uki
<1> QED
  BY <1>3, <1>4 DEF BootShape, InfoShape, UkisWithoutGrub

\* Every step keeps uki-kernel-info.json so.
LEMMA InfoShapeNext == ImageInv /\ InfoShape /\ [Next]_vars => InfoShape'
<1> SUFFICES ASSUME ImageInv, InfoShape, [Next]_vars PROVE InfoShape'
  OBVIOUS
<1> USE DEF ImageInv
<1>1. CASE OrdinaryStep
  <2>1. BootStays
    BY <1>1, OrdinaryStepsKeep
  <2>2. /\ result = "running" /\ UNCHANGED <<cfg, runs>> /\ step' \in {step, step + 1}
        /\ step # 3 /\ SameRun
    BY <1>1, OrdinaryStepAt
  <2>3. step \in 1..28 /\ Uki' = Uki /\ Hard' = Hard
    BY <2>2 DEF Control, Uki, Hard
  <2>4. step' < 21 => step < 21 /\ (step' > 3 <=> step > 3)
    BY <2>2, <2>3
  <2> QED
    BY <2>1, <2>2, <2>3, <2>4 DEF InfoShape, BootStays, SameRun
<1>2. CASE ExtractUkis
  <2>1. Moves /\ step = 3 /\ step' = 4
    BY <1>2, EditStepsAt
  <2>2. img'.esp = img.esp
    BY <1>2, ExtractUkisLines DEF Leaves, BootFields
  <2>3. Uki' = Uki /\ Hard' = Hard
    BY <2>1 DEF Moves, Uki, Hard
  <2>4. UNCHANGED loc
    BY <1>2 DEF ExtractUkis
  <2>5. IF Uki = "modify" \/ (Uki = "create" /\ DOMAIN img.esp # {} /\ ~Hard)
        THEN ukiInfo'.exists /\ DOMAIN ukiInfo'.lines = DOMAIN img.esp
        ELSE UNCHANGED ukiInfo
    BY <1>2, ExtractUkisLines
  <2> QED
    BY <2>1, <2>2, <2>3, <2>4, <2>5 DEF InfoShape, Moves
<1>3. CASE hardResetBootLoader
  <2>1. Moves /\ step = 14 /\ step' = 15
    BY <1>3, EditStepsAt
  <2>2. img'.esp = img.esp /\ UNCHANGED ukiInfo
    BY <1>3, GrubStepsKeep, HardResetGrub DEF Leaves, Apart
  <2>3. Uki' = Uki /\ Hard' = Hard
    BY <2>1 DEF Moves, Uki, Hard
  <2>4. UNCHANGED loc
    BY <1>3, Zenon DEF hardResetBootLoader, Becomes
  <2> QED
    BY <2>1, <2>2, <2>3, <2>4 DEF InfoShape, Moves
<1>4. CASE prepareUki /\ Uki = "create"
  <2>1. step' = 21
    BY <1>4, EditStepsAt
  <2>2. ukiInfo'.exists
    BY <1>4 DEF prepareUki, ResolvedUkiInfo
  <2> QED
    BY <2>1, <2>2 DEF InfoShape
<1>5. CASE createUki
  <2>1. result' = "ok"
    BY <1>5, EditStepsAt
  <2>2. ukiInfo' \in {ukiInfo, NoUkiInfo}
    BY <1>5, Zenon DEF createUki
  <2> QED
    BY <2>1, <2>2 DEF InfoShape, NoUkiInfo, NoLines
<1>6. CASE StepFails
  BY <1>6, StepFailsLeaves DEF InfoShape
<1>7. CASE \E chain \in Chains : NextRun(chain)
  <2>1. PICK chain, im : Starts(im, chain)
    BY <1>7, NextRunStarts
  <2> QED
    BY <2>1 DEF Starts, InfoShape
<1>8. CASE Finished \/ UNCHANGED vars
  <2>1. UNCHANGED osVars
    BY <1>8 DEF Finished, vars
  <2> QED
    BY <2>1 DEF osVars, InfoShape, Uki, Hard
<1> QED
  BY <1>1, <1>2, <1>3, <1>4, <1>5, <1>6, <1>7, <1>8 DEF Next, OrdinaryStep, KeptStep

-----------------------------------------------------------------------------
(* The extra arguments.                                                     *)

\* The command lines with all of these arguments.
With(extra) == {l \in Lines : \A i \in 1..Len(extra) : HasArg(l, extra[i])}

\* An argument of one part of a line is in the line.
LEMMA WithParts ==
    ASSUME NEW extra \in Lines, NEW l \in With(extra), NEW x \in Lines
    PROVE  l \o x \in With(extra) /\ x \o l \in With(extra)
<1>1. l \o x \in Lines /\ x \o l \in Lines
  BY ConcatTyped DEF With
<1>2. ASSUME NEW i \in 1..Len(extra) PROVE HasArg(l \o x, extra[i]) /\ HasArg(x \o l, extra[i])
  BY HasConcat DEF With, Lines
<1> QED
  BY <1>1, <1>2 DEF With

\* The extra arguments have themselves.
LEMMA WithItself ==
    ASSUME NEW extra \in Lines
    PROVE  extra \in With(extra)
BY DEF With, HasArg

\* What has them is a command line; every command line has none.
LEMMA WithTyped ==
    ASSUME NEW extra
    PROVE  With(extra) \subseteq Lines /\ (extra = <<>> => With(extra) = Lines)
BY DEF With

\* They can be put anywhere.
LEMMA WithAdded ==
    ASSUME NEW extra \in Lines, NEW d \in Lines
    PROVE  /\ appendKernelCommandLineArgs(d, extra) \in With(extra)
           /\ d \o extra \in With(extra)
           /\ updateKernelCommandLineArgsHelper(d, {}, extra) \in With(extra)
<1>1. \A i \in 1..Len(extra) : HasArg(extra, extra[i])
  BY DEF HasArg
<1>2. appendKernelCommandLineArgs(d, extra) \in Lines /\ updateKernelCommandLineArgsHelper(d, {}, extra) \in Lines
  BY LinesClosed DEF EditsTo
<1>3. \A i \in 1..Len(extra) : HasArg(appendKernelCommandLineArgs(d, extra), extra[i])
  BY <1>1, HasInsert DEF Lines
<1>4. \A i \in 1..Len(extra) : HasArg(updateKernelCommandLineArgsHelper(d, {}, extra), extra[i])
  BY <1>1, HasUpdate DEF Lines
<1> QED
  BY <1>2, <1>3, <1>4, WithItself, WithParts DEF With

\* They stay when others are rewritten.
LEMMA WithRewritten ==
    ASSUME NEW extra \in Seq(PlainArgs), NEW l \in With(extra), NEW args \in Lines,
           NEW names, names \subseteq RewrittenNames
    PROVE  /\ updateKernelCommandLineArgsHelper(l, names, args) \in With(extra)
           /\ Without(l, names) \in With(extra)
           /\ Without(l, names) \o args \in With(extra)
<1>1. l \in Seq(Args) /\ args \in Seq(Args) /\ \A i \in 1..Len(extra) : HasArg(l, extra[i])
  BY DEF With, Lines
<1>2. \A i \in 1..Len(extra) : extra[i].name \notin names
  BY DEF PlainArgs
<1>3. /\ updateKernelCommandLineArgsHelper(l, names, args) \in Lines
      /\ Without(l, names) \in Lines
      /\ Without(l, names) \o args \in Lines
  BY <1>1, LinesClosed DEF EditsTo, Lines
<1>4. \A i \in 1..Len(extra) : HasArg(updateKernelCommandLineArgsHelper(l, names, args), extra[i])
  BY <1>1, <1>2, HasUpdate
<1>5. \A i \in 1..Len(extra) : HasArg(Without(l, names), extra[i])
  BY <1>1, <1>2, HasWithout
<1>6. \A i \in 1..Len(extra) : HasArg(Without(l, names) \o args, extra[i])
  BY <1>1, <1>2, HasReplaced
<1> QED
  BY <1>3, <1>4, <1>5, <1>6 DEF With

\* What grub2-mkconfig writes has them when GRUB_CMDLINE_LINUX_DEFAULT does.
LEMMA WithMkconfig ==
    ASSUME NEW extra \in Lines, NEW D, NEW L, D \subseteq Lines, D \subseteq L, L \in {Lines, With(extra)}
    PROVE  MkconfigIn(D, Lines, L)
<1>1. CASE L = Lines
  BY <1>1, LinesClosed DEF MkconfigIn
<1>2. CASE L = With(extra)
  <2>1. ASSUME NEW dev \in STRING, NEW x \in Lines, NEW d \in D
        PROVE  (<<Arg("root", dev)>> \o x) \o d \in With(extra)
    <3>1. <<Arg("root", dev)>> \o x \in Lines /\ d \in With(extra)
      BY <1>2, OwnArgs, ConcatTyped
    <3> QED
      BY <3>1, WithParts
  <2> QED
    BY <1>2, <2>1 DEF MkconfigIn
<1> QED
  BY <1>1, <1>2

\* The command lines of a chain whose files have plain arguments.
LEMMA ExtraPlain ==
    ASSUME PlainExtra, cfg \in Chains
    PROVE  Extra \in Seq(PlainArgs) /\ Extra \in Lines
BY ExtraSeq, ExtraTyped DEF PlainExtra

\* The arguments that later steps remove.
LEMMA RewrittenParts ==
    /\ selinuxArgNames \subseteq RewrittenNames /\ verityKernelArgsToRemove \subseteq RewrittenNames
    /\ {"root"} \subseteq RewrittenNames /\ VerityDropped \subseteq RewrittenNames
    /\ {KernelOpts.name} \subseteq RewrittenNames
BY DEF RewrittenNames, VerityDropped

-----------------------------------------------------------------------------
(* The extra arguments, in every step.                                      *)

\* The image will boot with grub's commands.
GrubBoots == Uki = "unset" \/ (Uki = "create" /\ step < 21 /\ (Hard \/ DOMAIN img.esp = {}))

\* The command lines that the image will boot with are in a set: grub's, those of the UKIs, or
\* those that uki-kernel-info.json has for the UKIs.
BootsIn(L) ==
    IF GrubBoots THEN LinesIn(img.grub.lines, L)
    ELSE IF result = "running" /\ Uki # "passthrough" THEN LinesIn(ukiInfo.lines, L)
    ELSE UkisIn(img.esp, L)

\* A run whose chains and build directory say what it boots.
OwnRun == result # "failed" /\ ~loc.split /\ ~(loc.leftover /\ Uki = "create")

\* grub2-mkconfig would write good lines again.
DefaultIn(L) == img.grub.kind = "mkconfig" => img.grub.dflt \in L

\* From the step of the boot loader on, the extra arguments are there.
ExtraInv == OwnRun /\ step > 14 => BootsIn(With(Extra)) /\ DefaultIn(With(Extra))

\* Steps that rewrite other arguments keep lines that have these.
KeepsLines(L) ==
    /\ LinesIn(img.grub.lines, L) => LinesIn(img'.grub.lines, L)
    /\ LinesIn(ukiInfo.lines, L) => LinesIn(ukiInfo'.lines, L)
    /\ img'.grub.kind = "mkconfig" => img'.grub.dflt \in L

\* Such an edit of grub's configuration.
LEMMA GrubEditKeepsExtra ==
    ASSUME Shape, TypedLines, NEW extra \in Lines, DefaultIn(With(extra)), NEW new,
           new.kind = img.grub.kind,
           \A D, L : /\ D \in {Lines, With(extra)} /\ L \in {Lines, With(extra)}
                     /\ img.grub.kind = "mkconfig" => D = With(extra)
                     /\ GrubIn(img.grub, D, Lines, L)
                     => GrubIn(new, D, Lines, L)
    PROVE  /\ LinesIn(img.grub.lines, With(extra)) => LinesIn(new.lines, With(extra))
           /\ new.kind = "mkconfig" => new.dflt \in With(extra)
<1> DEFINE D == IF img.grub.kind = "mkconfig" THEN With(extra) ELSE Lines
           L == IF LinesIn(img.grub.lines, With(extra)) THEN With(extra) ELSE Lines
<1>1. D \in {Lines, With(extra)} /\ L \in {Lines, With(extra)} /\ (img.grub.kind = "mkconfig" => D = With(extra))
  OBVIOUS
<1>2. GrubIn(img.grub, D, Lines, L)
  BY DEF TypedLines, GrubIn, DefaultIn
<1>3. GrubIn(new, D, Lines, L)
  BY <1>1, <1>2
<1> QED
  BY <1>3 DEF GrubIn

\* handleSELinux, enableVerityPartition and customizeVerityImage rewrite other arguments.
LEMMA RewritesKeepExtra ==
    ASSUME Shape, Control, TypedLines, NEW extra \in Seq(PlainArgs), DefaultIn(With(extra)),
           handleSELinux \/ enableVerityPartition \/ customizeVerityImage
    PROVE  KeepsLines(With(extra))
<1> DEFINE good == With(extra)
<1>1. HasGrub(img) /\ extra \in Lines
  BY ImageHasGrub DEF Lines, PlainArgs
<1>2. \A names, args : names \subseteq RewrittenNames /\ args \in Lines =>
          /\ \A l \in good : updateKernelCommandLineArgsHelper(l, names, args) \in good
          /\ \A l \in good : Without(l, names) \o args \in good
  BY WithRewritten
<1>3. good \subseteq Lines
  BY WithTyped
<1> HIDE DEF good
<1>4. \A L : L \in {Lines, good} =>
          \A names, args : names \subseteq RewrittenNames /\ args \in Lines => EditsTo(names, args, L, L)
  <2> SUFFICES ASSUME NEW L \in {Lines, good}, NEW names, NEW args, names \subseteq RewrittenNames, args \in Lines
               PROVE  EditsTo(names, args, L, L)
    OBVIOUS
  <2>1. EditsTo(names, args, Lines, Lines)
    BY LinesClosed
  <2>2. EditsTo(names, args, good, good)
    BY <1>2 DEF EditsTo
  <2> QED
    BY <2>1, <2>2
<1>5. \A L : L \in {Lines, good} => MkconfigIn(good, Lines, L)
  BY <1>1, <1>3, WithMkconfig DEF good
<1>6. ASSUME NEW new, new.kind = img.grub.kind,
             \A D, L : /\ D \in {Lines, good} /\ L \in {Lines, good}
                       /\ img.grub.kind = "mkconfig" => D = good
                       /\ GrubIn(img.grub, D, Lines, L)
                       => GrubIn(new, D, Lines, L)
      PROVE  /\ LinesIn(img.grub.lines, good) => LinesIn(new.lines, good)
             /\ new.kind = "mkconfig" => new.dflt \in good
  BY <1>1, <1>6, GrubEditKeepsExtra DEF good
<1>7. CASE handleSELinux
  <2> DEFINE args == selinuxModeToArgs(resolveSeLinux(cfg))
             new == WriteToFile(UpdateKernelCommandLineArgs(img, selinuxArgNames, args)).grub
  <2>1. args \in Lines
    BY SELinuxArgsTyped DEF selinuxModeToArgs
  <2>2. (img'.grub = img.grub /\ UNCHANGED ukiInfo) \/ ReplacedIn(args)
    BY <1>7, HandleSELinuxGrub
  <2> HIDE DEF args
  <2>3. new.kind = img.grub.kind
    BY <1>1, KindsKept
  <2>4. ASSUME NEW D, NEW L, D \in {Lines, good}, L \in {Lines, good},
               img.grub.kind = "mkconfig" => D = good, GrubIn(img.grub, D, Lines, L)
        PROVE  GrubIn(new, D, Lines, L)
    BY <1>1, <1>4, <1>5, <2>1, <2>4, RewrittenParts, UpdatedLines
  <2> HIDE DEF new
  <2>5. /\ LinesIn(img.grub.lines, good) => LinesIn(new.lines, good)
        /\ new.kind = "mkconfig" => new.dflt \in good
    BY <1>6, <2>3, <2>4
  <2>6. Relined(updateUkiCmdlineFile(ukiInfo, selinuxArgNames, args), good, good)
    BY <1>2, <2>1, RewrittenParts, UpdatedRelined
  <2>7. CASE img'.grub = img.grub /\ UNCHANGED ukiInfo
    BY <2>7 DEF KeepsLines, DefaultIn, good
  <2>8. CASE ReplacedIn(args)
    BY <2>5, <2>6, <2>8 DEF KeepsLines, DefaultIn, ReplacedIn, Relined, good, new
  <2> QED
    BY <2>2, <2>7, <2>8
<1>8. CASE enableVerityPartition
  <2>1. UNCHANGED ukiInfo
    BY <1>8, EnableVerityGrub
  <2>2. CASE img'.grub = img.grub
    BY <2>1, <2>2 DEF KeepsLines, DefaultIn, good
  <2>3. CASE \E im : /\ HasGrub(im) /\ im.grub = img.grub
                     /\ img'.grub \in {WriteToFile(im).grub, WriteToFile(PrepareForVerity(im)).grub}
    <3>1. PICK im : /\ HasGrub(im) /\ im.grub = img.grub
                    /\ img'.grub \in {WriteToFile(im).grub, WriteToFile(PrepareForVerity(im)).grub}
      BY <2>3
    <3>2. img'.grub.kind = img.grub.kind
      BY <3>1, KindsKept
    <3>3. ASSUME NEW D, NEW L, D \in {Lines, good}, L \in {Lines, good},
                 img.grub.kind = "mkconfig" => D = good, GrubIn(img.grub, D, Lines, L)
          PROVE  GrubIn(img'.grub, D, Lines, L)
      BY <1>5, <3>1, <3>3, PreparedLines
    <3>4. /\ LinesIn(img.grub.lines, good) => LinesIn(img'.grub.lines, good)
          /\ img'.grub.kind = "mkconfig" => img'.grub.dflt \in good
      BY <1>6, <3>2, <3>3
    <3> QED
      BY <2>1, <3>4 DEF KeepsLines, DefaultIn, good
  <2> QED
    BY <1>8, <2>2, <2>3, EnableVerityGrub
<1>9. CASE customizeVerityImage
  <2> DEFINE hash == RootHashes[runs]
             args == constructVerityKernelCmdlineArgs(img.verity, hash)
             root == <<Arg("root", "mapper")>>
             new == updateGrubConfigForVerity(img, img.verity, hash).grub
  <2>1. UNCHANGED <<img, ukiInfo>> \/ HashWritten(hash)
    BY <1>9, VerityImageGrub
  <2>2. args \in Lines /\ root \in Lines
    BY HashTyped, VerityArgsTyped, OwnArgs
  <2> HIDE DEF hash
  <2>3. new.kind = img.grub.kind
    BY <1>1, KindsKept
  <2>4. ASSUME NEW D, NEW L, D \in {Lines, good}, L \in {Lines, good},
               img.grub.kind = "mkconfig" => D = good, GrubIn(img.grub, D, Lines, L)
        PROVE  GrubIn(new, D, Lines, L)
    <3>1. EditsTo(verityKernelArgsToRemove, args, L, L) /\ EditsTo(verityKernelArgsToRemove, args, Lines, Lines)
      BY <1>4, <2>2, <2>4, RewrittenParts
    <3>2. EditsTo({"root"}, root, L, L) /\ EditsTo({"root"}, root, Lines, Lines)
      BY <1>4, <2>2, <2>4, RewrittenParts
    <3> QED
      BY <1>1, <2>4, <3>1, <3>2, VerityLines
  <2> HIDE DEF new
  <2>5. /\ LinesIn(img.grub.lines, good) => LinesIn(new.lines, good)
        /\ new.kind = "mkconfig" => new.dflt \in good
    BY <1>6, <2>3, <2>4
  <2>6. Relined(appendKernelArgsToUkiCmdlineFile(ukiInfo, args), good, good)
    BY <1>2, <2>2, RewrittenParts, VerityRelined
  <2>7. CASE UNCHANGED <<img, ukiInfo>>
    BY <2>7 DEF KeepsLines, DefaultIn, good
  <2>8. CASE HashWritten(hash)
    BY <2>5, <2>6, <2>8 DEF KeepsLines, DefaultIn, HashWritten, Relined, good, new
  <2> QED
    BY <2>1, <2>7, <2>8
<1> QED
  BY <1>7, <1>8, <1>9

\* What an image boots from when nothing is split: grub or UKIs, as os.uki.mode says.
LEMMA BootsFrom ==
    ASSUME ImageInv, BootShape, OwnRun, result = "running", step < 21
    PROVE  /\ ~SplitChain(cfg) /\ Uki \in UkiModes
           /\ Uki = "unset" => DOMAIN img.esp = {}
           /\ Uki \in {"passthrough", "modify"} => DOMAIN img.esp # {} /\ img.grub.kind = "none" /\ ~Hard
           /\ Uki = "create" /\ DOMAIN img.esp # {} /\ ~Hard => img.grub.kind = "none"
           /\ Hard /\ step > 14 => img.grub.kind # "none"
           /\ ~GrubBoots => DOMAIN img.esp # {} /\ ~Hard /\ img.grub.kind = "none"
<1>1. ~loc.split /\ result # "failed"
  BY DEF OwnRun
<1>2. ~SplitChain(cfg)
  BY <1>1 DEF ImageInv, DriversInv
<1>3. Uki \in UkiModes
  BY UkiTyped DEF ImageInv
<1>4. Uki \in {"passthrough", "modify"} => ~Hard
  BY <1>2, NotSplitBoot DEF ImageInv
<1>5. Uki = "unset" => DOMAIN img.esp = {}
  BY <1>1 DEF ImageInv, GrubInv
<1>6. Uki \in {"passthrough", "modify"} => DOMAIN img.esp # {} /\ img.grub.kind = "none"
  BY <1>1 DEF BootShape
<1>7. Uki = "create" /\ DOMAIN img.esp # {} /\ ~Hard => img.grub.kind = "none"
  BY <1>1 DEF BootShape
<1>8. Hard /\ step > 14 => img.grub.kind # "none"
  BY <1>1 DEF BootShape, ImageInv, Control
<1> QED
  BY <1>2, <1>3, <1>4, <1>5, <1>6, <1>7, <1>8 DEF GrubBoots, UkiModes

\* Every command line has no arguments.
LEMMA BootsTyped ==
    ASSUME TypedLines PROVE BootsIn(Lines) /\ DefaultIn(Lines)
BY DEF TypedLines, BootsIn, DefaultIn, GrubIn

\* The hard reset writes the extra arguments to GRUB_CMDLINE_LINUX_DEFAULT.
LEMMA HardResetExtra ==
    ASSUME ImageInv, BootShape, OwnRun, Extra \in Lines, hardResetBootLoader
    PROVE  BootsIn(With(Extra))' /\ DefaultIn(With(Extra))'
<1> DEFINE good == With(Extra)
<1>1. HasGrub(img) /\ Moves /\ step = 14 /\ step' = 15
  BY ImageHasGrub, EditStepsAt DEF ImageInv
<1>2. img'.esp = img.esp
  BY GrubStepsKeep DEF Leaves, Apart, ImageInv
<1>3. PICK mode : img'.grub = configureDiskBootLoader(img, mode, Extra).grub
  BY HardResetGrub DEF ImageInv
<1>4. Hard
  BY HardResetGrub DEF ImageInv
<1>5. Uki' = Uki /\ Hard' = Hard /\ Extra' = Extra
  BY <1>1 DEF Moves, Uki, Hard, Extra
<1>6. Extra \o <<KernelOpts>> \in good /\ getCommonSELinuxArgs(mode) \in Lines /\ good \subseteq Lines
  BY OwnArgs, WithItself, WithParts, WithTyped, SELinuxArgsTyped
<1>7. MkconfigIn(good, Lines, good) /\ MkconfigIn(good, Lines, Lines)
  BY <1>6, WithMkconfig
<1> HIDE DEF good
<1>8. GrubIn(img'.grub, good, Lines, good)
  BY <1>1, <1>3, <1>6, <1>7, ResetLines
<1>9. GrubBoots'
  <2>1. GrubBoots
    BY <1>1, <1>4, BootsFrom DEF Moves
  <2> QED
    BY <1>1, <1>2, <1>4, <1>5, <2>1 DEF GrubBoots
<1> QED
  BY <1>5, <1>8, <1>9 DEF BootsIn, DefaultIn, GrubIn, good

\* AddKernelCommandLine adds them to what the image boots from.
LEMMA AddedExtra ==
    ASSUME ImageInv, TypedLines, BootShape, OwnRun, Extra \in Lines, AddKernelCommandLine
    PROVE  BootsIn(With(Extra))' /\ DefaultIn(With(Extra))'
<1> DEFINE good == With(Extra)
<1>1. HasGrub(img) /\ Moves /\ step = 14 /\ step' = 15 /\ ~Hard
  BY ImageHasGrub, EditStepsAt DEF ImageInv, AddKernelCommandLine
<1>2. img'.esp = img.esp
  BY GrubStepsKeep DEF Leaves, Apart, ImageInv
<1>3. Uki' = Uki /\ Hard' = Hard /\ Extra' = Extra
  BY <1>1 DEF Moves, Uki, Hard, Extra
<1>4. GrubBoots' <=> GrubBoots
  BY <1>1, <1>2, <1>3 DEF GrubBoots
<1>5. CASE Extra = <<>>
  <2>1. TypedLines'
    BY EditStepsTyped DEF ImageInv
  <2>2. BootsIn(Lines)' /\ DefaultIn(Lines)'
    BY <2>1 DEF TypedLines, BootsIn, DefaultIn, GrubIn
  <2>3. With(Extra)' = Lines
    BY <1>3, <1>5, WithTyped
  <2> QED
    BY <2>2, <2>3 DEF BootsIn, DefaultIn
<1>6. CASE AddedTo(Extra) /\ Extra # <<>>
  <2>1. \A d \in Lines : /\ appendKernelCommandLineArgs(d, Extra) \in good /\ d \o Extra \in good
                         /\ updateKernelCommandLineArgsHelper(d, {}, Extra) \in good
    BY WithAdded
  <2>2. good \subseteq Lines /\ MkconfigIn(good, Lines, good)
    BY WithTyped, WithMkconfig
  <2> HIDE DEF good
  <2>3. EditsTo({}, Extra, Lines, good) /\ EditsTo({}, Extra, Lines, Lines) /\ GrubIn(img.grub, Lines, Lines, Lines)
    BY <2>1, <2>2 DEF EditsTo, TypedLines
  <2>4. img'.grub.kind = img.grub.kind
    BY <1>1, <1>6, KindsKept DEF AddedTo
  <2>5. CASE img.grub.kind = "mkconfig"
    <3>1. GrubIn(img'.grub, good, Lines, good)
      BY <1>1, <1>6, <2>1, <2>2, <2>3, <2>5, AddedLines DEF AddedTo
    <3>2. GrubBoots
      BY <1>1, <2>5, BootsFrom DEF Moves
    <3> QED
      BY <1>3, <1>4, <3>1, <3>2 DEF BootsIn, DefaultIn, GrubIn, good
  <2>6. CASE img.grub.kind = "legacy"
    <3>1. GrubIn(img'.grub, Lines, Lines, good)
      BY <1>1, <1>6, <2>3, <2>6, AddedLines DEF AddedTo
    <3>2. GrubBoots
      BY <1>1, <2>6, BootsFrom DEF Moves
    <3> QED
      BY <1>3, <1>4, <2>4, <2>6, <3>1, <3>2 DEF BootsIn, DefaultIn, GrubIn, good
  <2>7. CASE img.grub.kind = "none"
    <3>1. determineBootConfigType(img) = "uki"
      BY <1>1, <1>6, <2>7, AddKernelCommandLineGrub DEF determineBootConfigType, ImageInv
    <3>2. DOMAIN img.esp # {}
      BY <2>7, <3>1 DEF determineBootConfigType
    <3>3. Uki \in {"modify", "create"} /\ ukiInfo' = appendToUkiCmdlineFile(ukiInfo, Extra)
      BY <1>6, <3>1 DEF AddedTo
    <3>4. Relined(appendToUkiCmdlineFile(ukiInfo, Extra), Lines, good)
      BY <2>1, AppendedRelined DEF ImageInv
    <3>5. LinesIn(ukiInfo'.lines, good)
      BY <3>3, <3>4 DEF Relined, TypedLines
    <3>6. ~GrubBoots
      BY <1>1, <3>2, <3>3 DEF GrubBoots
    <3> QED
      BY <1>1, <1>3, <1>4, <2>4, <2>7, <3>3, <3>5, <3>6 DEF BootsIn, DefaultIn, Moves, good
  <2> QED
    BY <1>1, <2>5, <2>6, <2>7 DEF HasGrub, GrubKinds
<1> QED
  BY <1>5, <1>6, AddKernelCommandLineGrub DEF ImageInv

\* The extra command line, typed, and everything the steps need.
ExtraHyp == UkisWithoutGrub /\ PlainExtra

\* prepareUki takes the lines to uki-kernel-info.json.
LEMMA PreparedExtra ==
    ASSUME ImageInv, TypedLines, BootShape, InfoShape, ExtraInv, OwnRun, Extra \in Seq(PlainArgs),
           prepareUki, Uki = "create"
    PROVE  BootsIn(With(Extra))' /\ DefaultIn(With(Extra))'
<1> DEFINE good == With(Extra)
<1>1. Moves /\ step = 20 /\ step' = 21
  BY EditStepsAt DEF ImageInv
<1>2. Uki' = Uki /\ Extra' = Extra /\ ~loc.leftover
  BY <1>1 DEF Moves, Uki, Extra, OwnRun
<1>3. GrubGone /\ LinesResolved
  BY PrepareUkiGrub DEF ImageInv
<1>4. BootsIn(good)
  BY <1>1 DEF ExtraInv
<1>5. \A l \in good : Without(l, {KernelOpts.name}) \in good
  <2>1. <<>> \in Lines
    BY DEF Lines
  <2> QED
    BY <2>1, RewrittenParts, WithRewritten
<1>6. DOMAIN ukiInfo.lines = IF DOMAIN img.esp # {} /\ ~Hard THEN DOMAIN img.esp ELSE {}
  BY <1>1, <1>2 DEF InfoShape, Moves
<1> HIDE DEF good
<1>7. LinesIn(ukiInfo'.lines, good)
  <2>1. CASE DOMAIN img.esp # {} /\ ~Hard
    <3>1. LinesIn(ukiInfo.lines, good)
      BY <1>1, <1>4, <2>1 DEF BootsIn, GrubBoots, Moves
    <3> QED
      BY <1>3, <1>6, <2>1, <3>1 DEF LinesResolved, LinesIn
  <2>2. CASE ~(DOMAIN img.esp # {} /\ ~Hard)
    <3>1. LinesIn(img.grub.lines, good) /\ DOMAIN ukiInfo.lines = {}
      BY <1>1, <1>4, <1>6, <2>2 DEF BootsIn, GrubBoots, Moves
    <3> QED
      BY <1>3, <1>5, <3>1 DEF LinesResolved, LinesIn
  <2> QED
    BY <2>1, <2>2
<1> QED
  BY <1>1, <1>2, <1>3, <1>7 DEF BootsIn, GrubBoots, DefaultIn, GrubGone, Moves, good

\* createUki gives them to the UKIs.
LEMMA CreatedExtra ==
    ASSUME ImageInv, TypedLines, ExtraInv, OwnRun, createUki
    PROVE  BootsIn(With(Extra))' /\ DefaultIn(With(Extra))'
<1> DEFINE good == With(Extra)
<1>1. step = 28 /\ step' = 28 /\ result = "running" /\ result' = "ok" /\ UNCHANGED <<cfg, runs>>
  BY EditStepsAt DEF ImageInv
<1>2. Uki' = Uki /\ Extra' = Extra /\ Uki \in UkiModes
  BY <1>1, UkiTyped DEF Uki, Extra, ImageInv
<1>3. img'.grub = img.grub
  <2>1. Leaves(img, img', Kept \ {"esp"}) /\ "grub" \in Kept \ {"esp"}
    BY CreateUkiKeeps DEF Kept, BootFields, ImageInv
  <2> QED
    BY <2>1 DEF Leaves
<1>4. BootsIn(good) /\ DefaultIn(good)
  BY <1>1 DEF ExtraInv
<1>5. (Uki = "unset" <=> GrubBoots) /\ (Uki = "unset" <=> GrubBoots')
  BY <1>1, <1>2 DEF GrubBoots
<1> HIDE DEF good
<1>6. CASE Uki = "unset"
  BY <1>2, <1>3, <1>4, <1>5, <1>6 DEF BootsIn, DefaultIn, good
<1>7. CASE Uki = "passthrough"
  <2>1. UkisIn(img.esp, good)
    BY <1>1, <1>4, <1>5, <1>7 DEF BootsIn
  <2>2. img'.esp = img.esp
    BY <1>7, CreateUkiLines DEF TypedLines, ImageInv
  <2> QED
    BY <1>1, <1>2, <1>3, <1>4, <1>5, <1>7, <2>1, <2>2 DEF BootsIn, DefaultIn, good
<1>8. CASE Uki \in {"create", "modify"}
  <2>1. LinesIn(ukiInfo.lines, good)
    BY <1>1, <1>4, <1>5, <1>8 DEF BootsIn
  <2>2. UkisIn(img'.esp, good)
    BY <1>8, <2>1, CreateUkiLines DEF TypedLines, ImageInv
  <2> QED
    BY <1>1, <1>2, <1>3, <1>4, <1>5, <1>8, <2>2 DEF BootsIn, DefaultIn, good
<1> QED
  BY <1>2, <1>6, <1>7, <1>8 DEF UkiModes

\* Steps that only rewrite other arguments leave these in what the image will boot with.
LEMMA ExtraStays ==
    ASSUME ExtraInv, Control, result = "running", UNCHANGED <<result, cfg, runs>>, SameRun,
           step' \in {step, step + 1}, step \notin {14, 20}, img'.esp = img.esp,
           OwnRun /\ step > 14 => KeepsLines(With(Extra))
    PROVE  ExtraInv'
<1>1. Uki' = Uki /\ Hard' = Hard /\ Extra' = Extra /\ With(Extra)' = With(Extra)
  BY DEF Uki, Hard, Extra, With
<1>2. (step' > 14 <=> step > 14) /\ (step' < 21 <=> step < 21)
  BY DEF Control
<1>3. (GrubBoots' <=> GrubBoots) /\ (OwnRun' <=> OwnRun)
  BY <1>1, <1>2 DEF GrubBoots, OwnRun, SameRun
<1>4. SUFFICES ASSUME OwnRun, step > 14 PROVE BootsIn(With(Extra))' /\ DefaultIn(With(Extra))'
  BY <1>2, <1>3 DEF ExtraInv
<1>5. BootsIn(With(Extra)) /\ KeepsLines(With(Extra))
  BY <1>4 DEF ExtraInv
<1> QED
  BY <1>1, <1>3, <1>5 DEF BootsIn, DefaultIn, KeepsLines

\* Every step keeps the extra arguments.
LEMMA ExtraNext ==
    ImageInv /\ TypedLines /\ BootShape /\ InfoShape /\ ExtraInv /\ ExtraHyp /\ [Next]_vars => ExtraInv'
<1> SUFFICES ASSUME ImageInv, TypedLines, BootShape, InfoShape, ExtraInv, ExtraHyp, [Next]_vars PROVE ExtraInv'
  OBVIOUS
<1>a. Shape /\ Control
  BY DEF ImageInv
<1>b. Extra \in Seq(PlainArgs) /\ Extra \in Lines
  BY <1>a, ExtraPlain DEF Control, ExtraHyp
<1>c. ASSUME Moves, SameRun PROVE OwnRun' => OwnRun
  BY <1>c DEF Moves, SameRun, OwnRun, Uki
<1>d. ASSUME \A chain \in Chains : ~NextRun(chain), Next PROVE SameRun
  BY <1>a, <1>d, SameRunKept
<1>1. CASE KeptStep
  <2>1. Moves /\ step \notin {3, 14, 17, 20, 27, 28}
    BY <1>a, <1>1, KeptStepAt
  <2>2. UNCHANGED ukiInfo /\ img'.grub = img.grub /\ img'.esp = img.esp
    BY <1>a, <1>1, KeptStepsKeep DEF Leaves, BootFields
  <2>3. SameRun
    BY <1>a, <1>1, OrdinaryStepAt DEF OrdinaryStep
  <2>4. OwnRun /\ step > 14 => KeepsLines(With(Extra))
    BY <2>2 DEF ExtraInv, KeepsLines, DefaultIn
  <2> QED
    BY <1>a, <2>1, <2>2, <2>3, <2>4, ExtraStays DEF Moves
<1>2. CASE handleSELinux \/ enableVerityPartition \/ customizeVerityImage
  <2>1. Moves /\ step \notin {14, 20}
    BY <1>a, <1>2, EditStepsAt
  <2>2. img'.esp = img.esp /\ SameRun
    BY <1>a, <1>2, OrdinaryStepsKeep, OrdinaryStepAt DEF OrdinaryStep, BootStays
  <2>3. OwnRun /\ step > 14 => KeepsLines(With(Extra))
    BY <1>a, <1>b, <1>2, RewritesKeepExtra DEF ExtraInv
  <2> QED
    BY <1>a, <2>1, <2>2, <2>3, ExtraStays DEF Moves
<1>3. CASE ExtractUkis
  BY <1>a, <1>3, EditStepsAt DEF ExtraInv
<1>4. CASE hardResetBootLoader
  <2>1. Moves
    BY <1>a, <1>4, EditStepsAt
  <2>2. UNCHANGED loc
    BY <1>4, Zenon DEF hardResetBootLoader, Becomes
  <2>3. OwnRun' => OwnRun
    BY <1>c, <2>1, <2>2 DEF SameRun
  <2> QED
    BY <1>b, <1>4, <2>3, HardResetExtra DEF ExtraInv
<1>5. CASE AddKernelCommandLine
  <2>1. Moves /\ SameRun
    BY <1>a, <1>5, EditStepsAt, OrdinaryStepAt DEF OrdinaryStep
  <2>2. OwnRun' => OwnRun
    BY <1>c, <2>1
  <2> QED
    BY <1>b, <1>5, <2>2, AddedExtra DEF ExtraInv
<1>6. CASE prepareUki
  <2>1. Moves /\ step = 20
    BY <1>a, <1>6, EditStepsAt
  <2>2. UNCHANGED loc
    BY <1>6 DEF prepareUki
  <2>3. OwnRun' => OwnRun
    BY <1>c, <2>1, <2>2 DEF SameRun
  <2>4. CASE Uki = "create"
    BY <1>b, <1>6, <2>3, <2>4, PreparedExtra DEF ExtraInv
  <2>5. CASE Uki # "create"
    <3>1. UNCHANGED <<img, ukiInfo>>
      BY <1>a, <1>6, <2>5, PrepareUkiGrub
    <3>2. Uki' = Uki /\ Hard' = Hard /\ With(Extra)' = With(Extra)
      BY <2>1 DEF Moves, Uki, Hard, Extra, With
    <3>3. GrubBoots' <=> GrubBoots
      BY <2>5, <3>2 DEF GrubBoots
    <3> QED
      BY <2>1, <2>3, <3>1, <3>2, <3>3 DEF ExtraInv, BootsIn, DefaultIn, Moves
  <2> QED
    BY <2>4, <2>5
<1>7. CASE createUki
  <2>1. UNCHANGED loc /\ result = "running" /\ cfg' = cfg
    BY <1>a, <1>7, EditStepsAt, Zenon DEF createUki
  <2>2. OwnRun' => OwnRun
    BY <2>1 DEF OwnRun, Uki
  <2> QED
    BY <1>7, <2>2, CreatedExtra DEF ExtraInv
<1>8. CASE PackageManagement \/ RunPackageOperation
  <2>1. step = 4 /\ UNCHANGED step
    BY <1>a, <1>8, PackageStepsAtPackages DEF PackageManagement, RunPackageOperation
  <2> QED
    BY <2>1 DEF ExtraInv
<1>9. CASE StepFails
  BY <1>a, <1>9, StepFailsLeaves DEF ExtraInv, OwnRun
<1>10. CASE \E chain \in Chains : NextRun(chain)
  <2>1. step' = 1
    BY <1>a, <1>10, NextRunStarts DEF Starts
  <2> QED
    BY <2>1 DEF ExtraInv
<1>11. CASE Finished \/ UNCHANGED vars
  <2>1. UNCHANGED osVars
    BY <1>11 DEF Finished, vars
  <2> QED
    BY <2>1 DEF osVars, ExtraInv, OwnRun, BootsIn, DefaultIn, GrubBoots, Uki, Hard, Extra, With
<1> QED
  BY <1>1, <1>2, <1>3, <1>4, <1>5, <1>6, <1>7, <1>8, <1>9, <1>10, <1>11 DEF Next, KeptStep

\* A line with all arguments has each of them.
LEMMA WithArgs ==
    ASSUME NEW extra \in Lines, NEW l \in With(extra)
    PROVE  ArgsIn(extra) \subseteq ArgsIn(l)
BY DEF With, HasArg, ArgsIn, Lines

\* AddKernelCommandLine, hardResetBootLoader, prepareUki and createUki: when the base images have
\* no grub.cfg beside UKIs, and the chains ask for arguments that no later step rewrites, every
\* kernel boots with the extra arguments of all the files of the chain.
THEOREM ExtraArgsReachBoot == UkisWithoutGrub /\ PlainExtra => (Spec => []ExtraArgsBooted)
<1> DEFINE Inv == TypedLines /\ BootShape /\ InfoShape /\ ExtraInv
<1>1. ExtraHyp /\ Init => Inv
  <2> SUFFICES ASSUME ExtraHyp, Init PROVE ExtraInv
    BY TypedLinesInit, BootShapeInit DEF ExtraHyp
  <2> QED
    BY DEF Init, ExtraInv
<1>2. ExtraHyp /\ OsInv /\ Inv /\ [Next]_vars => Inv'
  BY TypedLinesNext, BootShapeNext, InfoShapeNext, ExtraNext DEF OsInv, ExtraHyp
<1>3. ExtraHyp /\ OsInv /\ Inv => ExtraArgsBooted
  <2> SUFFICES ASSUME ExtraHyp, ImageInv, Inv, result = "ok", ~(loc.leftover /\ Uki = "create"), ~loc.split,
                      NEW k \in Booted
               PROVE  ArgsIn(Extra) \subseteq ArgsIn(CmdlineFor(k))
    BY DEF OsInv, ExtraArgsBooted
  <2>1. step = 28 /\ Uki \in UkiModes /\ OwnRun /\ Extra \in Lines
    BY UkiTyped, ExtraPlain DEF ImageInv, Control, OwnRun, ExtraHyp
  <2>2. BootsIn(With(Extra)) /\ (GrubBoots <=> Uki = "unset")
    BY <2>1 DEF ExtraInv, GrubBoots
  <2>3. Uki = "unset" <=> DOMAIN img.esp = {}
    BY <2>1 DEF ImageInv, GrubInv, CreateUkiInv, BootShape, OwnRun, UkiModes
  <2>4. CmdlineFor(k) \in With(Extra)
    BY <2>2, <2>3 DEF Booted, CmdlineFor, BootedLines, BootsIn, LinesIn, UkisIn
  <2> QED
    BY <2>1, <2>4, WithArgs
<1>4. ASSUME ExtraHyp PROVE Spec => []ExtraArgsBooted
  BY <1>1, <1>2, <1>3, <1>4, OsAlways, PTL DEF Spec
<1> QED
  BY <1>4 DEF ExtraHyp

-----------------------------------------------------------------------------
(* SELinux' arguments.                                                      *)

\* The command lines with these SELinux arguments.
SE(s) == {l \in Lines : Selecting(l) = s}

\* The code's own arguments of other names, and SELinux' own.
LEMMA OwnSelecting ==
    /\ selinuxArgNames \in SUBSET STRING
    /\ <<>> \in SE(<<>>) /\ <<KernelOpts>> \in SE(<<>>) /\ <<Arg("root", "mapper")>> \in SE(<<>>)
    /\ \A dev \in STRING : <<Arg("root", dev)>> \in SE(<<>>)
    /\ selinuxArgNames \intersect verityKernelArgsToRemove = {} /\ selinuxArgNames \intersect {"root"} = {}
    /\ selinuxArgNames \intersect VerityDropped = {} /\ selinuxArgNames \intersect {KernelOpts.name} = {}
<1>1. selinuxArgNames \in SUBSET STRING
  BY StringLiterals, Zenon DEF selinuxArgNames
<1>2. <<>> \in SE(<<>>)
  BY MatchingEmpty DEF SE, Selecting, Lines
<1>3. ASSUME NEW a \in Args, a.name \notin selinuxArgNames PROVE <<a>> \in SE(<<>>)
  <2>1. <<a>> \in Seq(Args)
    OBVIOUS
  <2>2. findMatchingCommandLineArgs(<<a>>, selinuxArgNames) = <<>>
    BY <1>3, MatchingOne
  <2> QED
    BY <2>1, <2>2 DEF SE, Selecting, Lines
<1>4. KernelOpts.name = "$kernelopts" /\ \A dev : Arg("root", dev).name = "root"
  BY DEF KernelOpts, Arg
<1>5. "$kernelopts" \notin selinuxArgNames /\ "root" \notin selinuxArgNames
  BY DEF selinuxArgNames
<1>6. <<KernelOpts>> \in SE(<<>>) /\ \A dev \in STRING : <<Arg("root", dev)>> \in SE(<<>>)
  BY <1>3, <1>4, <1>5, OwnArgs
<1>7. <<Arg("root", "mapper")>> \in SE(<<>>)
  BY <1>3, <1>4, <1>5, OwnArgs
<1>8. selinuxArgNames \intersect verityKernelArgsToRemove = {} /\ selinuxArgNames \intersect {"root"} = {}
  BY DEF selinuxArgNames, verityKernelArgsToRemove
<1> QED
  BY <1>1, <1>2, <1>4, <1>5, <1>6, <1>7, <1>8 DEF VerityDropped

\* Arguments that are not SELinux' do not add to it.
LEMMA PlainSelecting ==
    ASSUME NEW extra \in Seq(PlainArgs)
    PROVE  extra \in SE(<<>>)
<1>1. extra \in Seq(Args) /\ \A i \in 1..Len(extra) : extra[i].name \notin selinuxArgNames
  BY DEF PlainArgs, RewrittenNames
<1> QED
  BY <1>1, MatchingNone DEF SE, Selecting, Lines

\* Lines put together.
LEMMA ConcatSelecting ==
    ASSUME NEW s, NEW l \in SE(s), NEW o \in SE(<<>>)
    PROVE  l \o o \in SE(s) /\ o \o l \in SE(s)
<1>1. l \in Seq(Args) /\ o \in Seq(Args) /\ Selecting(l) = s /\ Selecting(o) = <<>>
  BY DEF SE, Lines
<1>2. Selecting(l \o o) = Selecting(l) \o Selecting(o) /\ Selecting(o \o l) = Selecting(o) \o Selecting(l)
  BY <1>1, ConcatArgs, Zenon DEF Selecting
<1>3. s \in Seq(Args)
  BY <1>1, MatchingSeq DEF Selecting
<1>4. s \o <<>> = s /\ <<>> \o s = s
  BY <1>3
<1>5. l \o o \in Lines /\ o \o l \in Lines
  BY <1>1, ConcatTyped DEF Lines
<1> QED
  BY <1>1, <1>2, <1>4, <1>5 DEF SE

\* What grub2-mkconfig writes has those of GRUB_CMDLINE_LINUX.
LEMMA MkconfigSelecting ==
    ASSUME NEW s
    PROVE  MkconfigIn(SE(<<>>), SE(s), SE(s))
<1>1. ASSUME NEW dev \in STRING, NEW x \in SE(s), NEW d \in SE(<<>>)
      PROVE  (<<Arg("root", dev)>> \o x) \o d \in SE(s)
  BY OwnSelecting, ConcatSelecting
<1> QED
  BY <1>1 DEF MkconfigIn

\* An edit of other arguments.
LEMMA UpdateSelecting ==
    ASSUME NEW l \in Seq(Args), NEW gone, NEW args \in Seq(Args), selinuxArgNames \intersect gone = {},
           Selecting(args) = <<>>
    PROVE  Selecting(updateKernelCommandLineArgsHelper(l, gone, args)) = Selecting(l)
<1>1. Untouched(selinuxArgNames, gone, args)
  BY OwnSelecting, Zenon DEF Untouched, Selecting
<1> QED
  BY <1>1, MatchingUntouched DEF Selecting

\* Other arguments are added, replaced or dropped.
LEMMA EditSelecting ==
    ASSUME NEW s, NEW l \in SE(s), NEW args \in SE(<<>>), NEW gone, gone \intersect selinuxArgNames = {}
    PROVE  /\ appendKernelCommandLineArgs(l, args) \in SE(s)
           /\ updateKernelCommandLineArgsHelper(l, gone, args) \in SE(s)
           /\ Without(l, gone) \in SE(s)
           /\ Without(l, gone) \o args \in SE(s)
<1>1. l \in Seq(Args) /\ args \in Seq(Args) /\ Selecting(l) = s /\ Selecting(args) = <<>>
  BY DEF SE, Lines
<1>2. selinuxArgNames \in SUBSET STRING /\ selinuxArgNames \intersect gone = {}
  BY OwnSelecting
<1>3. appendKernelCommandLineArgs(l, args) \in SE(s)
  BY <1>1, MatchingInsert, InsertSeq DEF SE, Selecting, Lines
<1>4. updateKernelCommandLineArgsHelper(l, gone, args) \in SE(s)
  <2>1. Selecting(updateKernelCommandLineArgsHelper(l, gone, args)) = Selecting(l)
    BY <1>1, <1>2, UpdateSelecting
  <2> QED
    BY <1>1, <2>1, UpdateSeq DEF SE, Lines
<1>5. Without(l, gone) \in SE(s)
  BY <1>1, <1>2, MatchingWithout, WithoutSeq DEF SE, Selecting, Lines
<1> QED
  BY <1>3, <1>4, <1>5, ConcatSelecting

\* SELinux' arguments are replaced.
LEMMA ReplaceSelecting ==
    ASSUME NEW l \in Lines, NEW s, NEW args \in SE(s)
    PROVE  /\ updateKernelCommandLineArgsHelper(l, selinuxArgNames, args) \in SE(s)
           /\ Without(l, selinuxArgNames) \o args \in SE(s)
<1>1. l \in Seq(Args) /\ args \in Seq(Args) /\ Selecting(args) = s
  BY DEF SE, Lines
<1>2. updateKernelCommandLineArgsHelper(l, selinuxArgNames, args) \in SE(s)
  BY <1>1, MatchingUpdated, UpdateSeq DEF SE, Selecting, Lines
<1>3. Without(l, selinuxArgNames) \in SE(<<>>)
  BY <1>1, WithoutSeq, MatchingDropped DEF SE, Selecting, Lines
<1> QED
  BY <1>2, <1>3, ConcatSelecting

\* The values that arguments of three names have, together and two of them.
ThreeValues(a, b, c) ==
    \A n : /\ a.name = n => /\ findKernelCommandLineArgValue(<<a, b, c>>, n) = a.value
                            /\ findKernelCommandLineArgValue(<<a, b>>, n) = a.value
           /\ b.name = n => /\ findKernelCommandLineArgValue(<<a, b, c>>, n) = b.value
                            /\ findKernelCommandLineArgValue(<<a, b>>, n) = b.value
           /\ c.name = n => findKernelCommandLineArgValue(<<a, b, c>>, n) = c.value
           /\ a.name # n /\ b.name # n => findKernelCommandLineArgValue(<<a, b>>, n) = ""

\* An argument of three has its value.
LEMMA ThreeArgs ==
    ASSUME NEW a \in Args, NEW b \in Args, NEW c \in Args, a.name # b.name, a.name # c.name, b.name # c.name
    PROVE  ThreeValues(a, b, c)
<1> SUFFICES ASSUME NEW n
             PROVE  /\ a.name = n => /\ findKernelCommandLineArgValue(<<a, b, c>>, n) = a.value
                                     /\ findKernelCommandLineArgValue(<<a, b>>, n) = a.value
                    /\ b.name = n => /\ findKernelCommandLineArgValue(<<a, b, c>>, n) = b.value
                                     /\ findKernelCommandLineArgValue(<<a, b>>, n) = b.value
                    /\ c.name = n => findKernelCommandLineArgValue(<<a, b, c>>, n) = c.value
                    /\ a.name # n /\ b.name # n => findKernelCommandLineArgValue(<<a, b>>, n) = ""
  BY Zenon DEF ThreeValues
<1>1. /\ \A x \in {a, b, c} : x \in Args /\ <<x>> \in Seq(Args)
      /\ <<a, b>> = <<a>> \o <<b>> /\ <<a, b, c>> = (<<a>> \o <<b>>) \o <<c>>
  <2>1. \A x \in Args : <<x>> \in Seq(Args)
    OBVIOUS
  <2>2. <<a, b>> = Append(<<a>>, b) /\ <<a, b, c>> = Append(<<a, b>>, c)
    OBVIOUS
  <2>3. \A s \in Seq(Args), x \in Args : Append(s, x) = s \o <<x>> /\ Append(s, x) \in Seq(Args)
    OBVIOUS
  <2>4. Append(<<a>>, b) = <<a>> \o <<b>> /\ Append(<<a>>, b) \in Seq(Args)
    BY <2>1, <2>3, Zenon
  <2>5. Append(<<a, b>>, c) = <<a, b>> \o <<c>>
    BY <2>2, <2>3, <2>4, Zenon
  <2>6. <<a, b>> = <<a>> \o <<b>> /\ <<a, b, c>> = (<<a>> \o <<b>>) \o <<c>>
    BY <2>2, <2>4, <2>5, Zenon
  <2>7. \A x \in {a, b, c} : x \in Args /\ <<x>> \in Seq(Args)
    BY <2>1, Zenon
  <2> QED
    BY <2>6, <2>7, Zenon
<1>2. \A x \in {a, b, c} : findMatchingCommandLineArgs(<<x>>, {n}) = IF x.name \in {n} THEN <<x>> ELSE <<>>
  BY MatchingOne
<1>3. \A x \in {a, b, c} : findMatchingCommandLineArgs(<<x>>, {n}) = IF x.name = n THEN <<x>> ELSE <<>>
  BY <1>2
<1>4. /\ findMatchingCommandLineArgs(<<a>> \o <<b>>, {n}) =
             findMatchingCommandLineArgs(<<a>>, {n}) \o findMatchingCommandLineArgs(<<b>>, {n})
      /\ findMatchingCommandLineArgs((<<a>> \o <<b>>) \o <<c>>, {n}) =
             (findMatchingCommandLineArgs(<<a>>, {n}) \o findMatchingCommandLineArgs(<<b>>, {n}))
               \o findMatchingCommandLineArgs(<<c>>, {n})
  BY <1>1, MatchingParts, Zenon
<1>5. \A x \in {a, b, c} : (<<x>> \o <<>>) \o <<>> = <<x>> /\ (<<>> \o <<x>>) \o <<>> = <<x>>
                           /\ (<<>> \o <<>>) \o <<x>> = <<x>> /\ <<x>> \o <<>> = <<x>> /\ <<>> \o <<x>> = <<x>>
  OBVIOUS
<1>6. \A x \in {a, b, c} : x.name = n => x = Arg(n, x.value)
  BY DEF Args, Arg
<1>7. <<>> \o <<>> = <<>>
  OBVIOUS
<1>8. a.name = n => findMatchingCommandLineArgs(<<a, b, c>>, {n}) = <<a>> /\ findMatchingCommandLineArgs(<<a, b>>, {n}) = <<a>>
  BY <1>1, <1>3, <1>4, <1>5
<1>9. b.name = n => findMatchingCommandLineArgs(<<a, b, c>>, {n}) = <<b>> /\ findMatchingCommandLineArgs(<<a, b>>, {n}) = <<b>>
  BY <1>1, <1>3, <1>4, <1>5
<1>10. c.name = n => findMatchingCommandLineArgs(<<a, b, c>>, {n}) = <<c>>
  BY <1>1, <1>3, <1>4, <1>5
<1>11. a.name # n /\ b.name # n => findMatchingCommandLineArgs(<<a, b>>, {n}) = <<>>
  BY <1>1, <1>3, <1>4, <1>7
<1>13. \A x \in {a, b, c} : \A line : x.name = n /\ findMatchingCommandLineArgs(line, {n}) = <<x>> =>
           findKernelCommandLineArgValue(line, n) = x.value
  <2> SUFFICES ASSUME NEW x \in {a, b, c}, NEW line, x.name = n, findMatchingCommandLineArgs(line, {n}) = <<x>>
               PROVE  findKernelCommandLineArgValue(line, n) = x.value
    OBVIOUS
  <2>1. findMatchingCommandLineArgs(line, {n}) = <<Arg(n, x.value)>>
    BY <1>6
  <2> QED
    BY <2>1, FindOne, Zenon
<1>14. a.name = n => findKernelCommandLineArgValue(<<a, b, c>>, n) = a.value /\ findKernelCommandLineArgValue(<<a, b>>, n) = a.value
  BY <1>8, <1>13
<1>15. b.name = n => findKernelCommandLineArgValue(<<a, b, c>>, n) = b.value /\ findKernelCommandLineArgValue(<<a, b>>, n) = b.value
  BY <1>9, <1>13
<1>16. c.name = n => findKernelCommandLineArgValue(<<a, b, c>>, n) = c.value
  BY <1>10, <1>13
<1>17. a.name # n /\ b.name # n => findKernelCommandLineArgValue(<<a, b>>, n) = ""
  BY <1>11, FindNone, Zenon
<1> QED
  BY <1>14, <1>15, <1>16, <1>17, Zenon

\* The arguments of a mode say that mode, or leave it to SELinux' configuration file.
LEMMA ModeArgs ==
    ASSUME NEW mode \in SELinuxModes
    PROVE  LET args == getCommonSELinuxArgs(mode)
               said == IF mode \in {"disabled", "force-enforcing"} THEN mode ELSE SELinuxModeDefault
           IN getSELinuxModeFromLinuxArgs(args) = said /\ getSELinuxModeFromLinuxArgsDeferIfMissing(args) = said
<1> DEFINE a == Arg("security", "selinux")
           b == Arg("selinux", "1")
           c == Arg("enforcing", "1")
           d == Arg("selinux", "0")
<1>1. "selinux" \in STRING /\ "security" \in STRING /\ "enforcing" \in STRING /\ "0" \in STRING /\ "1" \in STRING
  BY StringLiterals, Zenon
<1>2. a \in Args /\ b \in Args /\ c \in Args /\ d \in Args
  BY <1>1 DEF Arg, Args
<1>3. /\ a.name = "security" /\ b.name = "selinux" /\ c.name = "enforcing" /\ d.name = "selinux"
      /\ a.value = "selinux" /\ b.value = "1" /\ c.value = "1" /\ d.value = "0"
  BY DEF Arg
<1> HIDE DEF a, b, c, d
<1>4. /\ findKernelCommandLineArgValue(<<a, b, c>>, "security") = "selinux"
      /\ findKernelCommandLineArgValue(<<a, b, c>>, "selinux") = "1"
      /\ findKernelCommandLineArgValue(<<a, b, c>>, "enforcing") = "1"
      /\ findKernelCommandLineArgValue(<<a, b>>, "security") = "selinux"
      /\ findKernelCommandLineArgValue(<<a, b>>, "selinux") = "1"
      /\ findKernelCommandLineArgValue(<<a, b>>, "enforcing") = ""
      /\ findKernelCommandLineArgValue(<<d>>, "security") = ""
  <2>1. a.name # b.name /\ a.name # c.name /\ b.name # c.name /\ a.name # "enforcing" /\ b.name # "enforcing"
        /\ d.name # "security"
    BY <1>3
  <2>3. findKernelCommandLineArgValue(<<d>>, "security") = ""
    <3>1. findMatchingCommandLineArgs(<<d>>, {"security"}) = <<>>
      BY <1>2, <2>1, MatchingOne
    <3> QED
      BY <3>1, FindNone, Zenon
  <2>4. ThreeValues(a, b, c)
    BY <1>2, <2>1, ThreeArgs
  <2>5. \A n : /\ a.name = n => /\ findKernelCommandLineArgValue(<<a, b, c>>, n) = a.value
                                /\ findKernelCommandLineArgValue(<<a, b>>, n) = a.value
               /\ b.name = n => /\ findKernelCommandLineArgValue(<<a, b, c>>, n) = b.value
                                /\ findKernelCommandLineArgValue(<<a, b>>, n) = b.value
               /\ c.name = n => findKernelCommandLineArgValue(<<a, b, c>>, n) = c.value
               /\ a.name # n /\ b.name # n => findKernelCommandLineArgValue(<<a, b>>, n) = ""
    BY <2>4, Zenon DEF ThreeValues
  <2> QED
    BY <1>3, <2>1, <2>3, <2>5, Zenon
<1>5. findMatchingCommandLineArgs(<<d>>, selinuxArgNames) # <<>>
  <2>1. "selinux" \in selinuxArgNames
    BY DEF selinuxArgNames
  <2>2. findMatchingCommandLineArgs(<<d>>, selinuxArgNames) = <<d>>
    BY <1>2, <1>3, <2>1, MatchingOne
  <2> QED
    BY <2>2
<1>6. /\ getSELinuxModeFromLinuxArgs(<<a, b, c>>) = "force-enforcing"
      /\ getSELinuxModeFromLinuxArgs(<<a, b>>) = SELinuxModeDefault
      /\ getSELinuxModeFromLinuxArgs(<<d>>) = "disabled"
  BY <1>4, Zenon DEF getSELinuxModeFromLinuxArgs
<1>7. SELinuxModeDefault # "disabled"
  BY DEF SELinuxModeDefault
<1>8. /\ getSELinuxModeFromLinuxArgsDeferIfMissing(<<a, b, c>>) = "force-enforcing"
      /\ getSELinuxModeFromLinuxArgsDeferIfMissing(<<a, b>>) = SELinuxModeDefault
      /\ getSELinuxModeFromLinuxArgsDeferIfMissing(<<d>>) = "disabled"
  BY <1>5, <1>6, <1>7, Zenon DEF getSELinuxModeFromLinuxArgsDeferIfMissing
<1>9. getCommonSELinuxArgs(mode) = IF mode = "disabled" THEN <<d>> ELSE IF mode = "force-enforcing" THEN <<a, b, c>> ELSE <<a, b>>
  BY DEF getCommonSELinuxArgs, a, b, c, d
<1> QED
  BY <1>6, <1>8, <1>9 DEF SELinuxModes

\* The arguments of a mode are a command line.
LEMMA ModeSelecting ==
    ASSUME NEW mode
    PROVE  getCommonSELinuxArgs(mode) \in SE(Selecting(getCommonSELinuxArgs(mode)))
BY SELinuxArgsTyped DEF SE

\* Lines with the same SELinux arguments have the same mode, in images with the same
\* distribution and the same configuration file.
LEMMA SameMode ==
    ASSUME NEW s, NEW l \in SE(s), NEW m \in SE(s), NEW im, NEW new, new.distro = im.distro, new.seConfig = im.seConfig
    PROVE  ModeOf(new, l) = ModeOf(im, m)
<1>1. l \in Seq(Args) /\ m \in Seq(Args)
      /\ findMatchingCommandLineArgs(l, selinuxArgNames) = findMatchingCommandLineArgs(m, selinuxArgNames)
  BY DEF SE, Lines, Selecting
<1>2. /\ getSELinuxModeFromLinuxArgs(l) = getSELinuxModeFromLinuxArgs(m)
      /\ getSELinuxModeFromLinuxArgsDeferIfMissing(l) = getSELinuxModeFromLinuxArgsDeferIfMissing(m)
  BY <1>1, SameSELinuxMode
<1> QED
  BY <1>2, Zenon DEF ModeOf, GetSELinuxModeFromLinuxArgs

\* With the arguments of a mode, and that mode in the configuration file, a kernel has it.
LEMMA RequestedMode ==
    ASSUME NEW mode \in SELinuxModes, NEW l \in SE(Selecting(getCommonSELinuxArgs(mode))), NEW im,
           mode # "disabled" => im.seConfig = ConfigFileMode(mode)
    PROVE  ModeOf(im, l) = mode
<1> DEFINE args == getCommonSELinuxArgs(mode)
<1>1. ModeOf(im, l) = ModeOf(im, args)
  BY ModeSelecting, SameMode
<1>2. GetSELinuxModeFromLinuxArgs(im, args) = IF mode \in {"disabled", "force-enforcing"} THEN mode ELSE SELinuxModeDefault
  BY ModeArgs, Zenon DEF GetSELinuxModeFromLinuxArgs
<1>3. SELinuxModeDefault \notin {"disabled", "force-enforcing"}
  BY DEF SELinuxModeDefault
<1> HIDE DEF args
<1>4. CASE mode \in {"disabled", "force-enforcing"}
  <2>1. ModeOf(im, args) = mode
    BY <1>2, <1>3, <1>4, Zenon DEF ModeOf
  <2> QED
    BY <1>1, <2>1
<1>5. CASE mode \notin {"disabled", "force-enforcing"}
  <2>1. ModeOf(im, args) = im.seConfig
    BY <1>2, <1>5, Zenon DEF ModeOf
  <2>2. mode # "disabled" /\ ConfigFileMode(mode) = mode
    BY <1>5 DEF ConfigFileMode
  <2> QED
    BY <1>1, <2>1, <2>2
<1> QED
  BY <1>4, <1>5

\* The SELinux arguments of grub's lines, of the UKIs and of uki-kernel-info.json: s, e and u.
Selected(s, e, u) ==
    /\ GrubIn(img.grub, SE(<<>>), SE(s), SE(s))
    /\ UkisIn(img.esp, SE(e))
    /\ LinesIn(ukiInfo.lines, SE(u))

\* Verity's arguments are not SELinux'.
LEMMA VeritySelecting ==
    ASSUME NEW verity, NEW hash \in STRING
    PROVE  constructVerityKernelCmdlineArgs(verity, hash) \in SE(<<>>)
<1> DEFINE args == constructVerityKernelCmdlineArgs(verity, hash)
<1>1. args \in Seq(Args)
  BY VerityArgsTyped DEF Lines
<1>2. \A i \in 1..Len(args) : args[i].name \in {"rd.systemd.verity", HashArgName(verity)}
  BY DEF constructVerityKernelCmdlineArgs, Arg
<1>3. HashArgName(verity) \in {"roothash", "usrhash"}
  BY DEF HashArgName
<1>4. \A i \in 1..Len(args) : args[i].name \notin selinuxArgNames
  BY <1>2, <1>3 DEF selinuxArgNames
<1> HIDE DEF args
<1>5. findMatchingCommandLineArgs(args, selinuxArgNames) = <<>>
  BY <1>1, <1>4, MatchingNone
<1> QED
  BY <1>1, <1>5 DEF SE, Selecting, Lines, args

\* Edits of other arguments lead from such lines to such lines.
LEMMA EditsToSelecting ==
    ASSUME NEW s, NEW args \in SE(<<>>), NEW gone, gone \intersect selinuxArgNames = {}
    PROVE  EditsTo(gone, args, SE(s), SE(s))
BY EditSelecting DEF EditsTo

\* AddKernelCommandLine adds arguments that are not SELinux'.
LEMMA AddedSelected ==
    ASSUME Shape, NEW s, NEW e, NEW u, Selected(s, e, u), Extra \in Seq(PlainArgs), AddKernelCommandLine
    PROVE  Selected(s, e, u)'
<1>1. HasGrub(img) /\ img'.esp = img.esp
  BY ImageHasGrub, GrubStepsKeep DEF Leaves, Apart
<1>2. PICK extra : extra = Extra
  OBVIOUS
<1>3. extra \in SE(<<>>)
  BY <1>2, PlainSelecting
<1>4. CASE img'.grub = img.grub /\ UNCHANGED ukiInfo
  BY <1>1, <1>4 DEF Selected
<1>5. CASE AddedTo(extra)
  <2>1. /\ \A d \in SE(<<>>) : appendKernelCommandLineArgs(d, extra) \in SE(<<>>)
        /\ EditsTo({}, extra, SE(s), SE(s)) /\ MkconfigIn(SE(<<>>), SE(s), SE(s))
    BY <1>3, EditSelecting, EditsToSelecting, MkconfigSelecting
  <2>2. GrubIn(img'.grub, SE(<<>>), SE(s), SE(s))
    <3>1. GrubIn(img.grub, SE(<<>>), SE(s), SE(s))
      BY DEF Selected
    <3> QED
      BY <1>1, <1>5, <2>1, <3>1, AddedLines DEF AddedTo
  <2>3. Relined(appendToUkiCmdlineFile(ukiInfo, extra), SE(u), SE(u))
    <3>1. \A x \in SE(u) : x \o extra \in SE(u)
      BY <1>3, ConcatSelecting
    <3> QED
      BY <3>1, AppendedRelined
  <2>4. LinesIn(ukiInfo'.lines, SE(u))
    BY <1>5, <2>3 DEF AddedTo, Relined, Selected
  <2> QED
    BY <1>1, <2>2, <2>4 DEF Selected
<1> QED
  BY <1>2, <1>4, <1>5, AddKernelCommandLineGrub

\* enableVerityPartition writes grub's configuration again.
LEMMA EnabledSelected ==
    ASSUME Shape, NEW s, NEW e, NEW u, Selected(s, e, u), enableVerityPartition
    PROVE  Selected(s, e, u)'
<1>1. HasGrub(img) /\ img'.esp = img.esp /\ UNCHANGED ukiInfo
  BY ImageHasGrub, GrubStepsKeep, EnableVerityGrub DEF Leaves, Apart
<1>2. CASE img'.grub = img.grub
  BY <1>1, <1>2 DEF Selected
<1>3. CASE \E im : /\ HasGrub(im) /\ im.grub = img.grub
                   /\ img'.grub \in {WriteToFile(im).grub, WriteToFile(PrepareForVerity(im)).grub}
  <2>1. PICK im : /\ HasGrub(im) /\ im.grub = img.grub
                  /\ img'.grub \in {WriteToFile(im).grub, WriteToFile(PrepareForVerity(im)).grub}
    BY <1>3
  <2>2. GrubIn(im.grub, SE(<<>>), SE(s), SE(s)) /\ MkconfigIn(SE(<<>>), SE(s), SE(s))
    BY <2>1, MkconfigSelecting DEF Selected
  <2>3. GrubIn(img'.grub, SE(<<>>), SE(s), SE(s))
    BY <2>1, <2>2, PreparedLines
  <2> QED
    BY <1>1, <2>3 DEF Selected
<1> QED
  BY <1>2, <1>3, EnableVerityGrub

\* customizeVerityImage replaces verity's arguments.
LEMMA VeritySelected ==
    ASSUME Shape, Control, NEW s, NEW e, NEW u, Selected(s, e, u), customizeVerityImage
    PROVE  Selected(s, e, u)'
<1>1. HasGrub(img) /\ img'.esp = img.esp
  BY ImageHasGrub, VerityImageKeeps DEF Leaves, Kept, BootFields
<1>2. CASE UNCHANGED <<img, ukiInfo>>
  BY <1>2 DEF Selected
<1>3. CASE HashWritten(RootHashes[runs])
  <2>1. PICK hash, verity : hash = RootHashes[runs] /\ verity = img.verity
    OBVIOUS
  <2> DEFINE args == constructVerityKernelCmdlineArgs(verity, hash)
             root == <<Arg("root", "mapper")>>
  <2>2. args \in SE(<<>>) /\ root \in SE(<<>>)
    BY <2>1, HashTyped, VeritySelecting, OwnSelecting
  <2>3. /\ EditsTo(verityKernelArgsToRemove, args, SE(s), SE(s)) /\ EditsTo({"root"}, root, SE(s), SE(s))
        /\ \A x \in SE(u) : Without(x, VerityDropped) \o args \in SE(u)
    <3>1. verityKernelArgsToRemove \intersect selinuxArgNames = {} /\ {"root"} \intersect selinuxArgNames = {}
          /\ VerityDropped \intersect selinuxArgNames = {}
      BY OwnSelecting
    <3> HIDE DEF args, root
    <3>2. \A x \in SE(u) : Without(x, VerityDropped) \o args \in SE(u)
      BY <2>2, <3>1, EditSelecting
    <3> QED
      BY <2>2, <3>1, <3>2, EditsToSelecting
  <2>4. GrubIn(updateGrubConfigForVerity(img, verity, hash).grub, SE(<<>>), SE(s), SE(s))
    <3>1. GrubIn(img.grub, SE(<<>>), SE(s), SE(s))
      BY DEF Selected
    <3> QED
      BY <1>1, <2>3, <3>1, VerityLines
  <2>5. Relined(appendKernelArgsToUkiCmdlineFile(ukiInfo, args), SE(u), SE(u))
    BY <2>3, VerityRelined
  <2> HIDE DEF args
  <2>6. /\ img'.grub \in {img.grub, updateGrubConfigForVerity(img, verity, hash).grub}
        /\ ukiInfo' \in {ukiInfo, appendKernelArgsToUkiCmdlineFile(ukiInfo, args)}
    BY <1>3, <2>1 DEF HashWritten, args
  <2>7. GrubIn(img'.grub, SE(<<>>), SE(s), SE(s))
    BY <2>4, <2>6 DEF Selected
  <2>8. LinesIn(ukiInfo'.lines, SE(u))
    BY <2>5, <2>6 DEF Selected, Relined
  <2> QED
    BY <1>1, <2>7, <2>8 DEF Selected
<1> QED
  BY <1>2, <1>3, VerityImageGrub

\* Packages add and remove kernels, with the command line of the others.
LEMMA PackagesSelected ==
    ASSUME Shape, NEW s, NEW e, NEW u, Selected(s, e, u), PackageManagement \/ RunPackageOperation
    PROVE  Selected(s, e, u)'
<1>1. HasGrub(img) /\ img'.esp = img.esp /\ UNCHANGED ukiInfo
  BY ImageHasGrub, PackagesKeep, PackagesGrub DEF Leaves, Apart
<1>2. GrubIn(img.grub, SE(<<>>), SE(s), SE(s)) /\ MkconfigIn(SE(<<>>), SE(s), SE(s))
  BY MkconfigSelecting DEF Selected
<1>3. CASE img'.grub = img.grub
  BY <1>1, <1>3 DEF Selected
<1>4. CASE \E k : img'.grub \in {KernelInstalled(img, k).grub, KernelRemoved(img, k).grub}
  <2>1. GrubIn(img'.grub, SE(<<>>), SE(s), SE(s))
    BY <1>1, <1>2, <1>4, InstalledLines, RemovedLines
  <2> QED
    BY <1>1, <2>1 DEF Selected
<1> QED
  BY <1>3, <1>4, PackagesGrub

\* prepareUki takes grub's lines to uki-kernel-info.json, if no UKIs' are there.
LEMMA PreparedSelected ==
    ASSUME Shape, NEW s, NEW e, NEW u, Selected(s, e, u), prepareUki,
           NEW v, v = IF Uki = "create" /\ DOMAIN ukiInfo.lines = {} THEN s ELSE u
    PROVE  Selected(s, e, v)'
<1>1. img'.esp = img.esp
  BY GrubStepsKeep DEF Leaves, Apart
<1>2. CASE Uki = "create"
  <2>1. GrubGone /\ LinesResolved
    BY <1>2, PrepareUkiGrub
  <2>2. GrubIn(img'.grub, SE(<<>>), SE(s), SE(s))
    BY <2>1 DEF GrubGone, GrubIn, LinesIn, Selected
  <2>3. \A l \in SE(s) : Without(l, {KernelOpts.name}) \in SE(s)
    BY OwnSelecting, EditSelecting
  <2>4. LinesIn(ukiInfo'.lines, SE(v))
    BY <1>2, <2>1, <2>3 DEF LinesResolved, LinesIn, GrubIn, Selected
  <2> QED
    BY <1>1, <2>2, <2>4 DEF Selected
<1>3. CASE Uki # "create"
  <2>1. UNCHANGED <<img, ukiInfo>>
    BY <1>3, PrepareUkiGrub
  <2> QED
    BY <1>3, <2>1 DEF Selected
<1> QED
  BY <1>2, <1>3

\* createUki gives the UKIs the lines of uki-kernel-info.json.
LEMMA CreatedSelected ==
    ASSUME Shape, NEW s, NEW e, NEW u, Selected(s, e, u), createUki,
           NEW d, d = IF Uki \in {"create", "modify"} THEN u ELSE e
    PROVE  Selected(s, d, u)'
<1>1. img'.grub = img.grub
  <2>1. Leaves(img, img', Kept \ {"esp"}) /\ "grub" \in Kept \ {"esp"}
    BY CreateUkiKeeps DEF Kept, BootFields
  <2> QED
    BY <2>1 DEF Leaves
<1>2. UkisIn(img.esp, SE(e)) /\ LinesIn(ukiInfo.lines, SE(u))
  BY DEF Selected
<1>3. UkisIn(img'.esp, SE(d))
  BY <1>2, CreateUkiLines
<1>4. ukiInfo' \in {ukiInfo, NoUkiInfo}
  BY Zenon DEF createUki
<1>5. LinesIn(ukiInfo'.lines, SE(u))
  BY <1>2, <1>4 DEF LinesIn, NoUkiInfo, NoLines
<1> QED
  BY <1>1, <1>3, <1>5 DEF Selected

\* ExtractUkis saves the lines of the UKIs.
LEMMA ExtractedSelected ==
    ASSUME Shape, NEW s, NEW e, NEW u, Selected(s, e, u), ExtractUkis
    PROVE  \/ Selected(s, e, e)'
           \/ Selected(s, u, u)'
           \/ Uki # "modify" /\ (Uki = "create" => Hard) /\ Selected(s, e, u)'
<1>1. Leaves(img, img', BootFields)
  BY ExtractUkisLines
<1>2. img'.grub = img.grub /\ img'.esp = img.esp
  BY <1>1 DEF Leaves, BootFields
<1>3. CASE Uki = "modify" \/ (Uki = "create" /\ DOMAIN img.esp # {} /\ ~Hard)
  <2>1. DOMAIN ukiInfo'.lines = DOMAIN img.esp /\ \A k \in DOMAIN img.esp : ukiInfo'.lines[k] = img.esp[k].line
    BY <1>3, ExtractUkisLines
  <2>2. Selected(s, e, e)'
    BY <1>2, <2>1 DEF Selected, LinesIn, UkisIn
  <2> QED
    BY <2>2
<1>4. CASE ~(Uki = "modify" \/ (Uki = "create" /\ DOMAIN img.esp # {} /\ ~Hard))
  <2>1. UNCHANGED ukiInfo
    BY <1>4, ExtractUkisLines
  <2>2. Selected(s, e, u)'
    BY <1>2, <2>1 DEF Selected
  <2>3. DOMAIN img.esp = {} => Selected(s, u, u)'
    BY <1>2, <2>1 DEF Selected, UkisIn
  <2> QED
    BY <1>4, <2>2, <2>3
<1> QED
  BY <1>3, <1>4

\* The hard reset writes the arguments of a mode.
LEMMA ResetSelected ==
    ASSUME Shape, NEW s, NEW e, NEW u, Selected(s, e, u), Extra \in Seq(PlainArgs), hardResetBootLoader
    PROVE  \E mode : /\ Selected(Selecting(getCommonSELinuxArgs(mode)), e, u)'
                     /\ resolveSeLinux(cfg) # "" => mode = resolveSeLinux(cfg)
<1>1. HasGrub(img) /\ img'.esp = img.esp /\ UNCHANGED ukiInfo
  BY ImageHasGrub, GrubStepsKeep, HardResetGrub DEF Leaves, Apart
<1>2. PICK mode : /\ img'.grub = configureDiskBootLoader(img, mode, Extra).grub
                  /\ resolveSeLinux(cfg) # "" => mode = resolveSeLinux(cfg)
  BY HardResetGrub, Zenon
<1>3. PICK t : t = Selecting(getCommonSELinuxArgs(mode))
  OBVIOUS
<1>4. /\ Extra \o <<KernelOpts>> \in SE(<<>>) /\ getCommonSELinuxArgs(mode) \in SE(t)
      /\ MkconfigIn(SE(<<>>), SE(t), SE(t))
  BY <1>3, PlainSelecting, OwnSelecting, ConcatSelecting, ModeSelecting, MkconfigSelecting
<1>5. img'.grub = configureDiskBootLoader(img, mode, Extra).grub
  BY <1>2, Zenon
<1>6. GrubIn(img'.grub, SE(<<>>), SE(t), SE(t))
  BY <1>1, <1>4, <1>5, ResetLines
<1>7. Selected(t, e, u)'
  BY <1>1, <1>6 DEF Selected
<1> QED
  BY <1>2, <1>3, <1>7, Zenon

\* handleSELinux replaces them where the image has its command lines.
LEMMA HandledSelected ==
    ASSUME Shape, TypedLines, NEW s, NEW e, NEW u, Selected(s, e, u), handleSELinux, ~Hard,
           NEW t, t = Selecting(selinuxModeToArgs(resolveSeLinux(cfg))),
           NEW s2, s2 = IF img.grub.kind = "none" THEN s ELSE t,
           NEW u2, u2 = IF img.grub.kind = "none" THEN t ELSE u
    PROVE  Selected(s2, e, u2)'
<1>1. HasGrub(img) /\ img'.esp = img.esp
  BY ImageHasGrub, GrubStepsKeep DEF Leaves, Apart
<1>2. PICK args : args = selinuxModeToArgs(resolveSeLinux(cfg))
  OBVIOUS
<1>3. ReplacedIn(args) /\ args \in SE(t)
  BY <1>2, HandleSELinuxGrub, ModeSelecting DEF selinuxModeToArgs
<1>4. determineBootConfigType(img) = "uki" <=> img.grub.kind = "none"
  BY <1>1, <1>3 DEF ReplacedIn, determineBootConfigType, HasGrub, GrubKinds
<1>5. GrubIn(img'.grub, SE(<<>>), SE(s2), SE(s2))
  <2>1. SE(s) \subseteq Lines
    BY DEF SE
  <2>2. img.grub.kind # "none" => EditsTo(selinuxArgNames, args, SE(s), SE(s2)) /\ MkconfigIn(SE(<<>>), SE(s2), SE(s2))
    BY <1>3, <2>1, ReplaceSelecting, MkconfigSelecting DEF EditsTo
  <2>3. img.grub.kind = "none" => SE(s) \subseteq SE(s2)
    OBVIOUS
  <2>4. GrubIn(img.grub, SE(<<>>), SE(s), SE(s)) /\ img'.grub = WriteToFile(UpdateKernelCommandLineArgs(img, selinuxArgNames, args)).grub
    BY <1>3 DEF Selected, ReplacedIn
  <2> QED
    BY <1>1, <2>2, <2>3, <2>4, UpdatedLines
<1>6. Relined(updateUkiCmdlineFile(ukiInfo, selinuxArgNames, args), Lines, SE(t))
  <2>1. \A x \in Lines : Without(x, selinuxArgNames) \o args \in SE(t)
    BY <1>3, ReplaceSelecting
  <2> QED
    BY <2>1, UpdatedRelined
<1>7. LinesIn(ukiInfo'.lines, SE(u2))
  BY <1>3, <1>4, <1>6 DEF ReplacedIn, Relined, TypedLines, Selected
<1> QED
  BY <1>1, <1>5, <1>7 DEF Selected

-----------------------------------------------------------------------------
(* The SELinux mode.                                                        *)

\* What a chain sets is what one of its files sets.
LEMMA LastSetOf ==
    ASSUME NEW chain, Len(chain) \in Nat, NEW field, NEW unset, NEW V, unset \in V,
           \A i \in 1..Len(chain) : chain[i][field] \in V
    PROVE  LastSet(chain, field, unset) \in V
<1> DEFINE set == {i \in 1..Len(chain) : chain[i][field] # unset}
<1>1. CASE set = {}
  BY <1>1 DEF LastSet
<1>2. CASE set # {}
  <2>1. LastOf(set) \in set
    BY <1>2, LastOfSet
  <2>2. LastSet(chain, field, unset) = chain[LastOf(set)][field]
    BY <1>2 DEF LastSet, LastOf
  <2> QED
    BY <2>1, <2>2
<1> QED
  BY <1>1, <1>2

ModeAsked == resolveSeLinux(cfg) # ""

\* The SELinux mode of a chain is a mode.
LEMMA ModeTyped ==
    ASSUME Control, ModeAsked PROVE resolveSeLinux(cfg) \in SELinuxModes
<1> DEFINE V == {""} \union SELinuxModes
<1>1. Len(cfg) \in Nat /\ DOMAIN cfg = 1..Len(cfg) /\ cfg \in Chains
  BY LenChain DEF Control
<1>2. \A i \in DOMAIN cfg : cfg[i].selinux \in V
  BY <1>1, ChainsAssumption, Zenon
<1>3. "" \in V
  BY Zenon
<1> HIDE DEF V
<1>4. resolveSeLinux(cfg) \in V
  BY <1>1, <1>2, <1>3, LastSetOf, Zenon DEF resolveSeLinux
<1> QED
  BY <1>4, Zenon DEF V, ModeAsked

\* The steps after SELinux' leave its configuration file.
LEMMA SELinuxFileStays ==
    ASSUME Shape, enableVerityPartition \/ prepareUki \/ customizeVerityImage \/ createUki
    PROVE  img'.distro = img.distro /\ img'.seConfig = img.seConfig
<1> DEFINE G == {"distro", "seConfig"}
<1>1. DOMAIN img = ImageFields /\ Leaves(img, img, G) /\ HasGrub(img) /\ G \subseteq ImageFields \ {"unlabelled", "grub"}
  BY ImageHasGrub DEF Shape, Leaves, ImageFields
<1>2. CASE enableVerityPartition
  <2> DEFINE verity == resolveStorage(cfg).verity
             booted == addDracutDriver(img, {"verity"})
             prepared == IF verity = "root" THEN PrepareForVerity(booted) ELSE booted
             lines == WriteToFile(prepared)
             mid == [lines EXCEPT !.verity = verity]
  <2>1. Changed(img, mid)
    BY <1>2 DEF Changed, enableVerityPartition
  <2>2. Frame(img, booted, {"dracut"})
    BY DEF Frame, addDracutDriver
  <2> HIDE DEF booted
  <2>3. DOMAIN booted = ImageFields /\ Leaves(img, booted, G) /\ HasGrub(booted)
    <3>1. booted.grub = img.grub
      BY <1>1, <2>2 DEF Frame, ImageFields
    <3> QED
      BY <1>1, <2>2, <3>1, FrameLeaves DEF HasGrub
  <2>4. GrubEdit(booted, prepared)
    BY <2>3, PrepareForVerityEdit, GrubEditStays
  <2> HIDE DEF prepared
  <2>5. GrubEdit(booted, lines)
    <3>1. GrubEdit(prepared, lines)
      BY <2>3, <2>4, GrubEditHasGrub, WriteToFileEdit
    <3> QED
      BY <2>3, <2>4, <3>1, GrubEditThen
  <2> HIDE DEF lines
  <2>6. DOMAIN lines = ImageFields /\ Leaves(booted, lines, G)
    BY <1>1, <2>3, <2>5, GrubEditLeaves
  <2>7. Frame(lines, mid, {"verity"})
    BY DEF Frame
  <2> HIDE DEF mid
  <2>8. DOMAIN mid = ImageFields /\ Leaves(lines, mid, G)
    BY <1>1, <2>6, <2>7, FrameLeaves
  <2>9. Leaves(img, mid, G)
    BY <2>3, <2>6, <2>8 DEF Leaves
  <2>10. Leaves(img, img', G)
    <3> HIDE DEF G
    <3> QED
      BY <1>1, <2>1, <2>8, <2>9, ChangedLeaves
  <2> QED
    BY <2>10 DEF Leaves
<1>3. CASE prepareUki
  <2> DEFINE g == [img.grub EXCEPT !.kind = "none", !.lines = NoLines]
             mid == [img EXCEPT !.vmlinuz = {}, !.initramfs = NoLines, !.grub = g]
  <2>1. CleanBootDirectory(img) = mid
    BY <1>1 DEF CleanBootDirectory, ImageFields
  <2> HIDE DEF g
  <2>2. Frame(img, mid, {"vmlinuz", "initramfs", "grub"})
    BY DEF Frame
  <2>3. img' \in {img, mid}
    BY <1>3, <2>1 DEF prepareUki
  <2> HIDE DEF mid
  <2>4. mid.distro = img.distro /\ mid.seConfig = img.seConfig
    BY <1>1, <2>2 DEF Frame, ImageFields
  <2> QED
    BY <2>3, <2>4
<1>4. CASE customizeVerityImage
  BY <1>4, VerityImageKeeps DEF Leaves, Kept, BootFields
<1>5. CASE createUki
  BY <1>5, CreateUkiKeeps DEF Leaves, Kept, BootFields
<1> QED
  BY <1>2, <1>3, <1>4, <1>5

\* handleSELinux writes the mode to it.
LEMMA SELinuxFileWritten ==
    ASSUME Shape, handleSELinux, img.distro # "acl"
    PROVE  /\ img'.distro = img.distro
           /\ resolveSeLinux(cfg) # "disabled" => img'.seConfig = ConfigFileMode(resolveSeLinux(cfg))
           /\ loc'.selinuxMode = resolveSeLinux(cfg) /\ ModeAsked
<1> DEFINE mode == resolveSeLinux(cfg)
           updated == UpdateKernelCommandLineArgs(img, selinuxArgNames, selinuxModeToArgs(mode))
           lines == IF Hard THEN img ELSE WriteToFile(updated)
           new == UpdateSELinuxModeInConfigFile(lines, mode)
<1>1. HasGrub(img) /\ DOMAIN img = ImageFields
  BY ImageHasGrub DEF Shape
<1>2. img' = Written(new)
  BY DEF handleSELinux
<1>3. CanUpdateSELinuxConfigFile(img, mode) /\ loc' = [loc EXCEPT !.selinuxMode = mode] /\ mode # ""
  BY Zenon DEF handleSELinux
<1>4. GrubEdit(img, lines)
  <2>1. GrubEdit(img, updated)
    BY <1>1, UpdateArgsEdit
  <2> HIDE DEF updated
  <2>2. GrubEdit(updated, WriteToFile(updated))
    BY <1>1, <2>1, GrubEditHasGrub, WriteToFileEdit
  <2>3. GrubEdit(img, WriteToFile(updated))
    BY <1>1, <2>1, <2>2, GrubEditThen
  <2> QED
    BY <2>3, GrubEditStays
<1> HIDE DEF lines, mode
<1>5. DOMAIN lines = ImageFields /\ lines.distro = img.distro /\ lines.seConfig = img.seConfig
  <2> DEFINE G == {"distro", "seConfig"}
  <2>1. G \subseteq ImageFields \ {"grub"}
    BY DEF ImageFields
  <2> HIDE DEF G
  <2>2. DOMAIN lines = ImageFields /\ Leaves(img, lines, G)
    BY <1>1, <1>4, <2>1, GrubEditLeaves
  <2> QED
    BY <2>2 DEF Leaves, G
<1>6. mode # "disabled" => img.seConfig # "absent"
  BY <1>3 DEF CanUpdateSELinuxConfigFile
<1>7. /\ DOMAIN new = ImageFields /\ new.distro = img.distro
      /\ mode # "disabled" => new.seConfig = ConfigFileMode(mode)
  BY <1>5, <1>6 DEF UpdateSELinuxModeInConfigFile, ImageFields
<1> HIDE DEF new
<1>8. img'.distro = new.distro /\ img'.seConfig = new.seConfig
  BY <1>2, <1>7 DEF Written, ImageFields
<1>9. loc'.selinuxMode = mode
  BY <1>3 DEF Shape, NoLocals
<1>10. ModeAsked
  BY <1>3, Zenon DEF ModeAsked, mode
<1> QED
  BY <1>7, <1>8, <1>9, <1>10 DEF mode

\* The SELinux arguments that the image will boot with.
BootArgs(s, e, u) ==
    IF GrubBoots THEN s ELSE IF result = "running" /\ Uki # "passthrough" THEN u ELSE e

\* From SELinux' step on they stand for the mode of the run; a hard reset has written the
\* requested ones before, and until then uki-kernel-info.json has those of the UKIs.
ModeKnown(s, e, u) ==
    OwnRun =>
        /\ step > 15 /\ img.distro # "acl" => \A l \in SE(BootArgs(s, e, u)) : ModeOf(img, l) = loc.selinuxMode
        /\ step = 15 /\ Hard /\ ModeAsked => s = Selecting(getCommonSELinuxArgs(resolveSeLinux(cfg)))
        /\ step \in 4..15 /\ (Uki = "modify" \/ (Uki = "create" /\ ~Hard)) => u = e

SELinuxInv == \E s, e, u : Selected(s, e, u) /\ ModeKnown(s, e, u)

\* A later step that keeps the arguments the image will boot with.
LEMMA ModeMoves ==
    ASSUME NEW s, NEW e, NEW u, NEW s2, NEW e2, NEW u2, ModeKnown(s, e, u), OwnRun' => OwnRun,
           step > 15, step' > 15, OwnRun => BootArgs(s2, e2, u2)' = BootArgs(s, e, u),
           img'.distro = img.distro, img'.seConfig = img.seConfig, loc'.selinuxMode = loc.selinuxMode
    PROVE  ModeKnown(s2, e2, u2)'
<1> SUFFICES ASSUME OwnRun, img.distro # "acl", NEW l \in SE(BootArgs(s2, e2, u2)') PROVE ModeOf(img', l) = loc.selinuxMode
  BY DEF ModeKnown
<1>1. l \in SE(BootArgs(s, e, u))
  OBVIOUS
<1>2. ModeOf(img, l) = loc.selinuxMode
  BY <1>1 DEF ModeKnown
<1>3. PICK b : b = BootArgs(s, e, u)
  OBVIOUS
<1>4. ModeOf(img', l) = ModeOf(img, l)
  BY <1>1, <1>3, SameMode
<1> QED
  BY <1>2, <1>4

\* Most steps leave all of this.
LEMMA ModeStays ==
    ASSUME NEW s, NEW e, NEW u, ModeKnown(s, e, u), Control, result = "running", UNCHANGED <<result, cfg, runs>>,
           SameRun, step' \in {step, step + 1}, step \notin {3, 14, 15, 20}, img'.esp = img.esp,
           img'.distro = img.distro, img'.seConfig = img.seConfig, loc'.selinuxMode = loc.selinuxMode
    PROVE  ModeKnown(s, e, u)'
<1>1. Uki' = Uki /\ Hard' = Hard /\ (ModeAsked' <=> ModeAsked) /\ resolveSeLinux(cfg') = resolveSeLinux(cfg)
  BY DEF Uki, Hard, ModeAsked
<1>2. step \in 1..28
  BY DEF Control
<1>3. /\ (step' > 15 <=> step > 15) /\ (step' = 15 <=> step = 15) /\ (step' \in 4..15 <=> step \in 4..15)
      /\ (step' < 21 <=> step < 21)
  BY <1>2
<1>4. (GrubBoots' <=> GrubBoots) /\ (OwnRun' <=> OwnRun)
  BY <1>1, <1>3 DEF GrubBoots, OwnRun, SameRun
<1>5. BootArgs(s, e, u)' = BootArgs(s, e, u)
  BY <1>1, <1>4 DEF BootArgs
<1>6. CASE step > 15
  BY <1>3, <1>4, <1>5, <1>6, ModeMoves
<1>7. CASE ~(step > 15)
  BY <1>1, <1>3, <1>4, <1>7 DEF ModeKnown
<1> QED
  BY <1>6, <1>7

\* keepSELinux reads the mode from what the image will boot with.
LEMMA KeptMode ==
    ASSUME ImageInv, BootShape, NEW s, NEW e, NEW u, Selected(s, e, u), ModeKnown(s, e, u), keepSELinux
    PROVE  Selected(s, e, u)' /\ ModeKnown(s, e, u)'
<1>1. Shape /\ Control /\ KeptStep
  BY DEF ImageInv, KeptStep
<1>2. Moves /\ step = 15 /\ SameRun /\ UNCHANGED <<img, ukiInfo>>
  BY <1>1, KeptStepAt, OrdinaryStepAt DEF OrdinaryStep, keepSELinux
<1>3. step' = 16
  <2>1. step' = step + 1
    BY Zenon DEF keepSELinux, Advance
  <2> QED
    BY <1>2, <2>1
<1>4. PICK m \in SELinuxArgLines(img) : loc'.selinuxMode = ModeOf(img, m)
  <2>1. PICK mode \in GetSELinuxMode(img) : loc' = [loc EXCEPT !.selinuxMode = mode]
    BY Zenon DEF keepSELinux
  <2>2. loc'.selinuxMode = mode
    BY <1>1, <2>1 DEF Shape, NoLocals
  <2> QED
    BY <2>2 DEF GetSELinuxMode
<1>5. Selected(s, e, u)'
  BY <1>2 DEF Selected
<1>6. determineBootConfigType(img) # "notFound"
  BY Zenon DEF keepSELinux
<1>7. Uki' = Uki /\ Hard' = Hard
  BY <1>2 DEF Moves, Uki, Hard
<1>8. (GrubBoots' <=> GrubBoots) /\ (OwnRun' => OwnRun)
  BY <1>2, <1>3, <1>7 DEF GrubBoots, OwnRun, SameRun, Moves
<1>9. ASSUME OwnRun PROVE m \in SE(BootArgs(s, e, u)')
  <2>1. CASE GrubBoots
    <3>1. img.grub.kind # "none"
      BY <1>2, <1>6, <1>9, <2>1, BootsFrom DEF Moves, determineBootConfigType, GrubBoots
    <3>2. determineBootConfigType(img) = img.grub.kind /\ img.grub.kind \in {"mkconfig", "legacy"}
      BY <1>1, <3>1 DEF determineBootConfigType, Shape, GrubKinds
    <3>3. m \in {img.grub.dflt \o img.grub.linux, img.grub.linux}
      BY <3>2, Zenon DEF SELinuxArgLines
    <3>4. img.grub.dflt \in SE(<<>>) /\ img.grub.linux \in SE(s)
      BY DEF Selected, GrubIn
    <3>5. m \in SE(s)
      BY <3>3, <3>4, ConcatSelecting
    <3> QED
      BY <1>8, <2>1, <3>5 DEF BootArgs
  <2>2. CASE ~GrubBoots
    <3>1. DOMAIN img.esp # {} /\ ~Hard /\ img.grub.kind = "none" /\ Uki \in UkiModes
      BY <1>2, <1>9, <2>2, BootsFrom DEF Moves
    <3>2. determineBootConfigType(img) = "uki"
      BY <3>1 DEF determineBootConfigType
    <3>3. PICK k \in DOMAIN img.esp : m = img.esp[k].line
      BY <1>4, <3>2 DEF SELinuxArgLines
    <3>4. m \in SE(e)
      BY <3>3 DEF Selected, UkisIn
    <3>5. Uki # "passthrough" => u = e
      BY <1>2, <1>9, <2>2, <3>1 DEF ModeKnown, UkiModes, GrubBoots
    <3> QED
      BY <1>2, <1>7, <1>8, <2>2, <3>4, <3>5 DEF BootArgs, Moves
  <2> QED
    BY <2>1, <2>2
<1>10. ASSUME OwnRun, NEW l \in SE(BootArgs(s, e, u)') PROVE ModeOf(img, l) = loc'.selinuxMode
  <2>1. PICK b : b = BootArgs(s, e, u)'
    OBVIOUS
  <2>2. l \in SE(b) /\ m \in SE(b)
    BY <1>9, <1>10, <2>1
  <2> QED
    BY <1>4, <2>2, SameMode
<1> QED
  BY <1>2, <1>3, <1>5, <1>8, <1>10 DEF ModeKnown

\* handleSELinux writes the mode, or finds it written by the hard reset.
LEMMA HandledMode ==
    ASSUME ImageInv, TypedLines, BootShape, NEW s, NEW e, NEW u, Selected(s, e, u), ModeKnown(s, e, u), handleSELinux
    PROVE  SELinuxInv'
<1>1. Shape /\ Control
  BY DEF ImageInv
<1>2. Moves /\ step = 15 /\ step' = 16 /\ SameRun
  BY <1>1, EditStepsAt, OrdinaryStepAt DEF OrdinaryStep
<1>3. img'.esp = img.esp /\ img'.distro = img.distro
  BY <1>1, GrubStepsKeep DEF Leaves, Apart
<1>4. Uki' = Uki /\ Hard' = Hard
  BY <1>2 DEF Moves, Uki, Hard
<1>5. (GrubBoots' <=> GrubBoots) /\ (OwnRun' => OwnRun)
  BY <1>2, <1>3, <1>4 DEF GrubBoots, OwnRun, SameRun, Moves
<1>6. PICK mode, t : mode = resolveSeLinux(cfg) /\ t = Selecting(getCommonSELinuxArgs(mode))
  OBVIOUS
<1>7. ModeAsked
  BY Zenon DEF ModeAsked, handleSELinux
<1>8. mode \in SELinuxModes
  BY <1>1, <1>6, <1>7, ModeTyped
<1>9. ASSUME img.distro # "acl", NEW l \in SE(t) PROVE ModeOf(img', l) = loc'.selinuxMode
  <2>1. /\ resolveSeLinux(cfg) # "disabled" => img'.seConfig = ConfigFileMode(resolveSeLinux(cfg))
        /\ loc'.selinuxMode = resolveSeLinux(cfg)
    BY <1>1, <1>9, SELinuxFileWritten
  <2>2. mode # "disabled" => img'.seConfig = ConfigFileMode(mode)
    BY <1>6, <2>1
  <2>3. \A im : (mode # "disabled" => im.seConfig = ConfigFileMode(mode)) => ModeOf(im, l) = mode
    BY <1>6, <1>8, <1>9, RequestedMode
  <2> QED
    BY <1>6, <2>1, <2>2, <2>3
<1>10. ASSUME NEW s2, NEW u2, OwnRun => BootArgs(s2, e, u2)' = t PROVE ModeKnown(s2, e, u2)'
  BY <1>2, <1>3, <1>5, <1>9, <1>10 DEF ModeKnown
<1>11. CASE Hard
  <2>1. Selected(s, e, u)'
    <3>1. img'.grub = img.grub /\ UNCHANGED ukiInfo
      BY <1>1, <1>11, HandleSELinuxGrub
    <3> QED
      BY <1>3, <3>1 DEF Selected
  <2>2. ASSUME OwnRun PROVE BootArgs(s, e, u)' = t
    <3>1. s = t
      BY <1>2, <1>6, <1>7, <1>11, <2>2 DEF ModeKnown
    <3>2. GrubBoots
      BY <1>2, <1>11, <2>2, BootsFrom DEF Moves
    <3> QED
      BY <1>5, <3>1, <3>2 DEF BootArgs
  <2>3. ModeKnown(s, e, u)'
    BY <1>10, <2>2
  <2> QED
    BY <2>1, <2>3 DEF SELinuxInv
<1>12. CASE ~Hard
  <2>1. PICK s2, u2 : s2 = (IF img.grub.kind = "none" THEN s ELSE t) /\ u2 = (IF img.grub.kind = "none" THEN t ELSE u)
    OBVIOUS
  <2>2. t = Selecting(selinuxModeToArgs(resolveSeLinux(cfg)))
    BY <1>6 DEF selinuxModeToArgs
  <2>3. Selected(s2, e, u2)'
    BY <1>1, <1>12, <2>1, <2>2, HandledSelected
  <2>4. determineBootConfigType(img) # "notFound" /\ (determineBootConfigType(img) = "uki" => Uki = "modify")
    BY <1>1, <1>12, HandleSELinuxGrub DEF ReplacedIn
  <2>5. ASSUME OwnRun PROVE BootArgs(s2, e, u2)' = t
    <3>1. CASE GrubBoots
      <4>1. img.grub.kind # "none"
        BY <1>2, <1>12, <2>4, <2>5, <3>1, BootsFrom DEF Moves, determineBootConfigType, GrubBoots
      <4> QED
        BY <1>5, <2>1, <3>1, <4>1 DEF BootArgs
    <3>2. CASE ~GrubBoots
      <4>1. img.grub.kind = "none" /\ DOMAIN img.esp # {}
        BY <1>2, <2>5, <3>2, BootsFrom DEF Moves
      <4>2. Uki = "modify"
        BY <2>4, <4>1 DEF determineBootConfigType
      <4> QED
        BY <1>2, <1>4, <1>5, <2>1, <3>2, <4>1, <4>2 DEF BootArgs, Moves
    <3> QED
      BY <3>1, <3>2
  <2>6. ModeKnown(s2, e, u2)'
    BY <1>10, <2>5
  <2> QED
    BY <2>3, <2>6 DEF SELinuxInv
<1> QED
  BY <1>11, <1>12

-----------------------------------------------------------------------------
(* The SELinux mode, in every step.                                         *)

\* So one list of SELinux arguments stands for grub, and one for the UKIs.
LEMMA UniformSelected ==
    ASSUME UniformImages, NEW im \in BaseImages
    PROVE  \E s, e : GrubIn(im.grub, SE(<<>>), SE(s), SE(s)) /\ UkisIn(im.esp, SE(e))
<1>1. GrubIn(im.grub, Lines, Lines, Lines) /\ UkisIn(im.esp, Lines)
  BY BaseImageLines
<1>2. PICK s : s = Selecting(im.grub.linux)
  OBVIOUS
<1>3. GrubIn(im.grub, SE(<<>>), SE(s), SE(s))
  BY <1>1, <1>2 DEF UniformImages, GrubIn, LinesIn, SE
<1>4. \E e : \A k \in DOMAIN im.esp : Selecting(im.esp[k].line) = e
  BY DEF UniformImages
<1>5. \E e : UkisIn(im.esp, SE(e))
  BY <1>1, <1>4 DEF UkisIn, SE
<1> QED
  BY <1>3, <1>5

\* The arguments stay where they are.
LEMMA SelectedStays ==
    ASSUME NEW s, NEW e, NEW u, Selected(s, e, u), img'.grub = img.grub, img'.esp = img.esp, UNCHANGED ukiInfo
    PROVE  Selected(s, e, u)'
BY DEF Selected

\* At the first step nothing is said of the mode.
LEMMA StartMode ==
    ASSUME step' = 1, NEW s, NEW e, NEW u
    PROVE  ModeKnown(s, e, u)'
BY DEF ModeKnown

\* ExtractUkis, hardResetBootLoader and AddKernelCommandLine come before SELinux' step.
LEMMA EarlyMode ==
    ASSUME ImageInv, BootShape, Extra \in Seq(PlainArgs), NEW s, NEW e, NEW u, Selected(s, e, u), ModeKnown(s, e, u),
           ExtractUkis \/ hardResetBootLoader \/ AddKernelCommandLine \/ PackageManagement \/ RunPackageOperation
    PROVE  SELinuxInv'
<1>1. Shape /\ Control
  BY DEF ImageInv
<1>2. CASE ExtractUkis
  <2>1. Moves /\ step' = 4
    BY <1>1, <1>2, EditStepsAt
  <2>2. Uki' = Uki /\ Hard' = Hard
    BY <2>1 DEF Moves, Uki, Hard
  <2>3. \A x, y : (x = y \/ (Uki # "modify" /\ (Uki = "create" => Hard))) => ModeKnown(s, x, y)'
    BY <2>1, <2>2 DEF ModeKnown
  <2> QED
    BY <1>1, <1>2, <2>3, ExtractedSelected DEF SELinuxInv
<1>3. CASE hardResetBootLoader
  <2>1. Moves /\ step = 14 /\ step' = 15
    BY <1>1, <1>3, EditStepsAt
  <2>2. Hard /\ UNCHANGED loc
    BY <1>3, HardResetGrub, Zenon DEF hardResetBootLoader, Becomes, ImageInv
  <2>3. Uki' = Uki /\ Hard' = Hard /\ (ModeAsked' <=> ModeAsked) /\ resolveSeLinux(cfg') = resolveSeLinux(cfg)
    BY <2>1 DEF Moves, Uki, Hard, ModeAsked
  <2>4. OwnRun' => OwnRun
    BY <2>1, <2>2, <2>3 DEF Moves, OwnRun
  <2>5. PICK mode : /\ Selected(Selecting(getCommonSELinuxArgs(mode)), e, u)'
                    /\ resolveSeLinux(cfg) # "" => mode = resolveSeLinux(cfg)
    BY <1>1, <1>3, ResetSelected, Zenon
  <2>6. PICK t : t = Selecting(getCommonSELinuxArgs(mode))
    OBVIOUS
  <2>7. Selected(t, e, u)'
    BY <2>5, <2>6
  <2>8. ModeAsked => t = Selecting(getCommonSELinuxArgs(resolveSeLinux(cfg)))
    BY <2>5, <2>6, Zenon DEF ModeAsked
  <2>9. ModeKnown(t, e, u)'
    BY <2>1, <2>2, <2>3, <2>4, <2>8 DEF ModeKnown
  <2> QED
    BY <2>7, <2>9 DEF SELinuxInv
<1>4. CASE AddKernelCommandLine
  <2>1. Moves /\ step = 14 /\ step' = 15 /\ SameRun /\ ~Hard
    BY <1>1, <1>4, EditStepsAt, OrdinaryStepAt DEF OrdinaryStep, AddKernelCommandLine
  <2>2. Uki' = Uki /\ Hard' = Hard
    BY <2>1 DEF Moves, Uki, Hard
  <2>3. OwnRun' => OwnRun
    BY <2>1, <2>2 DEF Moves, OwnRun, SameRun
  <2>4. ModeKnown(s, e, u)'
    BY <2>1, <2>2, <2>3 DEF ModeKnown
  <2> QED
    BY <1>1, <1>4, <2>4, AddedSelected DEF SELinuxInv
<1>5. CASE PackageManagement \/ RunPackageOperation
  <2>1. step = 4 /\ UNCHANGED <<step, cfg>> /\ result = "running" /\ SameRun
    BY <1>1, <1>5, PackageStepsAtPackages, OrdinaryStepAt DEF PackageManagement, RunPackageOperation, OrdinaryStep
  <2>2. Uki' = Uki /\ Hard' = Hard
    BY <2>1 DEF Uki, Hard
  <2>3. OwnRun' => OwnRun
    BY <2>1, <2>2 DEF OwnRun, SameRun
  <2>4. ModeKnown(s, e, u)'
    BY <2>1, <2>2, <2>3 DEF ModeKnown
  <2> QED
    BY <1>1, <1>5, <2>4, PackagesSelected DEF SELinuxInv
<1> QED
  BY <1>2, <1>3, <1>4, <1>5

\* enableVerityPartition, customizeVerityImage, prepareUki and createUki come after it.
LEMMA LateMode ==
    ASSUME ImageInv, BootShape, InfoShape, NEW s, NEW e, NEW u, Selected(s, e, u), ModeKnown(s, e, u),
           enableVerityPartition \/ customizeVerityImage \/ prepareUki \/ createUki
    PROVE  SELinuxInv'
<1>1. Shape /\ Control /\ Uki \in UkiModes
  BY UkiTyped DEF ImageInv
<1>2. img'.distro = img.distro /\ img'.seConfig = img.seConfig
  BY <1>1, SELinuxFileStays
<1>3. CASE enableVerityPartition \/ customizeVerityImage
  <2>1. Moves /\ step \in {17, 27} /\ SameRun /\ step' \in {step, step + 1} /\ img'.esp = img.esp
    BY <1>1, <1>3, EditStepsAt, OrdinaryStepAt, OrdinaryStepsKeep DEF OrdinaryStep, BootStays
  <2>2. loc'.selinuxMode = loc.selinuxMode
    <3>1. CASE enableVerityPartition
      BY <1>1, <3>1 DEF enableVerityPartition, Shape, NoLocals
    <3>2. CASE customizeVerityImage
      BY <3>2, Zenon DEF customizeVerityImage
    <3> QED
      BY <1>3, <3>1, <3>2
  <2>3. ModeKnown(s, e, u)'
    BY <1>1, <1>2, <2>1, <2>2, ModeStays DEF Moves
  <2>4. Selected(s, e, u)'
    BY <1>1, <1>3, EnabledSelected, VeritySelected
  <2> QED
    BY <2>3, <2>4 DEF SELinuxInv
<1>4. CASE prepareUki
  <2>1. Moves /\ step = 20 /\ step' = 21 /\ UNCHANGED loc
    BY <1>1, <1>4, EditStepsAt DEF prepareUki
  <2>2. Uki' = Uki /\ Hard' = Hard /\ (OwnRun' => OwnRun)
    BY <2>1 DEF Moves, Uki, Hard, OwnRun
  <2>3. PICK v : v = IF Uki = "create" /\ DOMAIN ukiInfo.lines = {} THEN s ELSE u
    OBVIOUS
  <2>4. Selected(s, e, v)'
    BY <1>1, <1>4, <2>3, PreparedSelected
  <2>5. ASSUME OwnRun PROVE BootArgs(s, e, v)' = BootArgs(s, e, u)
    <3>1. CASE Uki = "create"
      <4>1. DOMAIN ukiInfo.lines = IF DOMAIN img.esp # {} /\ ~Hard THEN DOMAIN img.esp ELSE {}
        BY <2>1, <2>5, <3>1 DEF InfoShape, Moves, OwnRun
      <4>2. GrubBoots <=> DOMAIN ukiInfo.lines = {}
        BY <2>1, <3>1, <4>1 DEF GrubBoots
      <4>3. ~GrubBoots'
        BY <2>1, <2>2, <3>1 DEF GrubBoots
      <4> QED
        BY <2>1, <2>2, <2>3, <3>1, <4>2, <4>3 DEF BootArgs, Moves
    <3>2. CASE Uki # "create"
      <4>1. (GrubBoots' <=> GrubBoots) /\ v = u
        BY <2>2, <2>3, <3>2 DEF GrubBoots
      <4> QED
        BY <2>1, <2>2, <4>1 DEF BootArgs, Moves
    <3> QED
      BY <3>1, <3>2
  <2>6. step > 15 /\ step' > 15 /\ loc'.selinuxMode = loc.selinuxMode
    BY <2>1
  <2>7. ModeKnown(s, e, v)'
    BY <1>2, <2>2, <2>5, <2>6, ModeMoves
  <2> QED
    BY <2>4, <2>7 DEF SELinuxInv
<1>5. CASE createUki
  <2>1. step = 28 /\ step' = 28 /\ UNCHANGED loc /\ result = "running" /\ result' = "ok" /\ cfg' = cfg
    BY <1>1, <1>5, EditStepsAt, Zenon DEF createUki
  <2>2. Uki' = Uki /\ Hard' = Hard /\ (OwnRun' => OwnRun)
    BY <2>1 DEF Uki, Hard, OwnRun
  <2>3. PICK d : d = IF Uki \in {"create", "modify"} THEN u ELSE e
    OBVIOUS
  <2>4. Selected(s, d, u)'
    BY <1>1, <1>5, <2>3, CreatedSelected
  <2>5. BootArgs(s, d, u)' = BootArgs(s, e, u)
    <3>1. (GrubBoots <=> Uki = "unset") /\ (GrubBoots' <=> Uki = "unset")
      BY <2>1, <2>2 DEF GrubBoots
    <3> QED
      BY <1>1, <2>1, <2>2, <2>3, <3>1 DEF BootArgs, UkiModes
  <2>6. step > 15 /\ step' > 15 /\ loc'.selinuxMode = loc.selinuxMode
    BY <2>1
  <2>7. ModeKnown(s, d, u)'
    BY <1>2, <2>2, <2>5, <2>6, ModeMoves
  <2> QED
    BY <2>4, <2>7 DEF SELinuxInv
<1> QED
  BY <1>3, <1>4, <1>5

\* What the theorem assumes of the base images and chains.
SELinuxHyp == UkisWithoutGrub /\ PlainExtra /\ UniformImages

\* A run that goes on from an image, or that starts from a base image.
LEMMA StartedMode ==
    ASSUME ImageInv, UniformImages, NEW s, NEW e, NEW u, Selected(s, e, u), NEW chain \in Chains, NextRun(chain)
    PROVE  SELinuxInv'
<1>1. PICK im : Starts(im, chain)
  BY NextRunStarts DEF ImageInv
<1>2. step' = 1 /\ UNCHANGED ukiInfo /\ img'.grub = im.grub /\ img'.esp = im.esp
  BY <1>1 DEF Starts, Leaves, BootFields
<1>3. \E x, y : GrubIn(im.grub, SE(<<>>), SE(x), SE(x)) /\ UkisIn(im.esp, SE(y))
  <2>1. CASE im = img
    BY <2>1 DEF Selected
  <2>2. CASE im \in BaseImages
    BY <2>2, UniformSelected
  <2> QED
    BY <1>1, <2>1, <2>2 DEF Starts
<1>4. PICK x, y : GrubIn(im.grub, SE(<<>>), SE(x), SE(x)) /\ UkisIn(im.esp, SE(y))
  BY <1>3
<1>5. Selected(x, y, u)'
  BY <1>2, <1>4 DEF Selected
<1>6. ModeKnown(x, y, u)'
  BY <1>2, StartMode
<1> QED
  BY <1>5, <1>6 DEF SELinuxInv

\* Every step keeps the SELinux arguments.
LEMMA SELinuxNext ==
    ImageInv /\ TypedLines /\ BootShape /\ InfoShape /\ SELinuxInv /\ SELinuxHyp /\ [Next]_vars => SELinuxInv'
<1> SUFFICES ASSUME ImageInv, TypedLines, BootShape, InfoShape, SELinuxInv, SELinuxHyp, [Next]_vars PROVE SELinuxInv'
  OBVIOUS
<1>a. Shape /\ Control /\ UniformImages
  BY DEF ImageInv, SELinuxHyp
<1>b. Extra \in Seq(PlainArgs)
  BY <1>a, ExtraPlain DEF Control, SELinuxHyp
<1>c. PICK s, e, u : Selected(s, e, u) /\ ModeKnown(s, e, u)
  BY DEF SELinuxInv
<1>1. CASE KeptStep /\ ~keepSELinux
  <2>1. Moves /\ step \notin {3, 14, 15, 20} /\ loc'.selinuxMode = loc.selinuxMode /\ step' \in {step, step + 1}
    BY <1>a, <1>1, KeptStepAt DEF Moves
  <2>2. /\ UNCHANGED ukiInfo /\ img'.grub = img.grub /\ img'.esp = img.esp
        /\ img'.distro = img.distro /\ img'.seConfig = img.seConfig
    BY <1>a, <1>1, KeptStepsKeep DEF Leaves, BootFields
  <2>3. SameRun
    BY <1>a, <1>1, OrdinaryStepAt DEF OrdinaryStep
  <2>4. Selected(s, e, u)'
    BY <1>c, <2>2, SelectedStays
  <2>5. ModeKnown(s, e, u)'
    BY <1>a, <1>c, <2>1, <2>2, <2>3, ModeStays DEF Moves
  <2> QED
    BY <2>4, <2>5 DEF SELinuxInv
<1>2. CASE keepSELinux
  BY <1>c, <1>2, KeptMode DEF SELinuxInv
<1>3. CASE handleSELinux
  BY <1>c, <1>3, HandledMode
<1>4. CASE ExtractUkis \/ hardResetBootLoader \/ AddKernelCommandLine \/ PackageManagement \/ RunPackageOperation
  BY <1>b, <1>c, <1>4, EarlyMode
<1>5. CASE enableVerityPartition \/ customizeVerityImage \/ prepareUki \/ createUki
  BY <1>c, <1>5, LateMode
<1>6. CASE StepFails
  <2>1. Selected(s, e, u)' /\ result' = "failed"
    BY <1>a, <1>c, <1>6, StepFailsLeaves, SelectedStays DEF Leaves, BootFields
  <2>2. ModeKnown(s, e, u)'
    BY <2>1 DEF ModeKnown, OwnRun
  <2> QED
    BY <2>1, <2>2 DEF SELinuxInv
<1>7. CASE \E chain \in Chains : NextRun(chain)
  BY <1>a, <1>c, <1>7, StartedMode
<1>8. CASE Finished \/ UNCHANGED vars
  <2>1. UNCHANGED osVars
    BY <1>8 DEF Finished, vars
  <2>2. Selected(s, e, u)'
    BY <1>c, <2>1, SelectedStays DEF osVars
  <2>3. ModeKnown(s, e, u)'
    BY <1>c, <2>1 DEF osVars, ModeKnown, OwnRun, BootArgs, GrubBoots, Uki, Hard, ModeAsked
  <2> QED
    BY <2>2, <2>3 DEF SELinuxInv
<1> QED
  BY <1>1, <1>2, <1>3, <1>4, <1>5, <1>6, <1>7, <1>8 DEF Next, KeptStep

\* At the start of a first run.
LEMMA SELinuxInit == Init /\ UniformImages => SELinuxInv
<1> SUFFICES ASSUME Init, UniformImages PROVE SELinuxInv
  OBVIOUS
<1>1. PICK im \in BaseImages : img = customizePartitionsUsingFileCopy(im, cfg)
  BY DEF Init
<1>2. Leaves(im, img, BootFields \ {"verity"})
  BY <1>1, BaseImageLines, PartitionsLeave
<1>3. step = 1 /\ img.esp = im.esp /\ img.grub = im.grub /\ DOMAIN ukiInfo.lines = {}
  BY <1>2 DEF Init, Leaves, BootFields, NoUkiInfo, NoLines
<1>4. PICK s, e : GrubIn(im.grub, SE(<<>>), SE(s), SE(s)) /\ UkisIn(im.esp, SE(e))
  BY UniformSelected
<1>5. Selected(s, e, e)
  BY <1>3, <1>4 DEF Selected, LinesIn
<1>6. ModeKnown(s, e, e)
  BY <1>3 DEF ModeKnown
<1> QED
  BY <1>5, <1>6 DEF SELinuxInv

\* keepSELinux, handleSELinux, hardResetBootLoader, ExtractUkis, prepareUki and createUki: when,
\* besides, the kernels of a base image boot with the same SELinux arguments, every kernel boots
\* in the mode that the run decided on.
THEOREM SELinuxModeReachesBoot == UkisWithoutGrub /\ PlainExtra /\ UniformImages => (Spec => []SELinuxModeBooted)
<1> DEFINE Inv == TypedLines /\ BootShape /\ InfoShape /\ SELinuxInv
<1>1. SELinuxHyp /\ Init => Inv
  BY TypedLinesInit, BootShapeInit, SELinuxInit DEF SELinuxHyp
<1>2. SELinuxHyp /\ OsInv /\ Inv /\ [Next]_vars => Inv'
  BY TypedLinesNext, BootShapeNext, InfoShapeNext, SELinuxNext DEF OsInv, SELinuxHyp
<1>3. SELinuxHyp /\ OsInv /\ Inv => SELinuxModeBooted
  <2> SUFFICES ASSUME SELinuxHyp, ImageInv, Inv, result = "ok", img.distro # "acl",
                      ~(loc.leftover /\ Uki = "create"), ~loc.split, NEW k \in Booted
               PROVE  ModeOf(img, CmdlineFor(k)) = loc.selinuxMode
    BY DEF OsInv, SELinuxModeBooted
  <2>1. PICK s, e, u : Selected(s, e, u) /\ ModeKnown(s, e, u)
    BY DEF SELinuxInv
  <2>2. step = 28 /\ Uki \in UkiModes /\ OwnRun
    BY UkiTyped DEF ImageInv, Control, OwnRun
  <2>3. Uki = "unset" <=> DOMAIN img.esp = {}
    BY <2>2 DEF ImageInv, GrubInv, CreateUkiInv, BootShape, OwnRun, UkiModes
  <2>4. BootArgs(s, e, u) = IF Uki = "unset" THEN s ELSE e
    BY <2>2 DEF BootArgs, GrubBoots
  <2>5. CmdlineFor(k) \in SE(BootArgs(s, e, u))
    BY <2>1, <2>3, <2>4 DEF Selected, Booted, CmdlineFor, BootedLines, GrubIn, LinesIn, UkisIn
  <2>6. step > 15
    BY <2>2
  <2> QED
    BY <2>1, <2>2, <2>5, <2>6 DEF ModeKnown
<1>4. ASSUME SELinuxHyp PROVE Spec => []SELinuxModeBooted
  BY <1>1, <1>2, <1>3, <1>4, OsAlways, PTL DEF Spec
<1> QED
  BY <1>4 DEF SELinuxHyp

=============================================================================

------------------------------- MODULE LiveOs -------------------------------
(***************************************************************************)
(* LiveOS images: turning a disk image into an ISO or into PXE artifacts,  *)
(* and customizing such an ISO again and again (liveos*.go,                *)
(* savedconfigs.go, blsutils.go).  A run reads its input into a raw image  *)
(* and, for an ISO, into an artifact store; customizes the OS; and then    *)
(* either builds the LiveOS from the raw image or only packs the artifacts *)
(* of the ISO again.  What earlier runs asked for survives in              *)
(* saved-configs.yaml and in the files of the ISO.                         *)
(***************************************************************************)
EXTENDS BootConfig, ConfigChain

CONSTANTS
    Kernels,
    DiskImages,     \* the disk images a chain of runs starts from
    Requests,       \* what runs are asked for: output, OS changes and a chain of files
    MaxRuns

VARIABLES
    input,      \* the input image: a disk image or an ISO
    cfg,        \* the resolved configuration of the run
    phase,      \* the step that is next; "ok" or "failed" when the run is over
    raw,        \* the intermediate raw image, None before there is one
    store,      \* the artifact store the output is made from
    type,       \* liveosConfig.initramfsType
    saved,      \* the updated saved configurations
    pxeLines,   \* grub-pxe.cfg
    iso,        \* the ISO the run made
    pxe,        \* the PXE artifacts the run made
    kept,       \* what the runs that made the input asked for
    runs

vars == <<input, cfg, phase, raw, store, type, saved, pxeLines, iso, pxe, kept, runs>>

None == [exists |-> FALSE]

InitramfsTypes == {"bootstrap", "full-os"}

\* An entry names its kernel's own initrd, or the "shared" /boot/initrd.img.
Entry(initrd, args) == [initrd |-> initrd, args |-> args]

NoUrls == [base |-> "", file |-> ""]

\* What the yaml file holds; PxeSavedConfigs has no exported field, so no URL does.
NoSavedConfigs == [kdump |-> "", args |-> <<>>, dracut |-> -1, policy |-> "none", requested |-> "", url |-> NoUrls]

\* Where an entry comes from: a generated grub.cfg, the Boot Loader Specification, or the
\* grub.cfg of Azure Linux 2.0.
Oses == [distro : STRING, boot : {"mkconfig", "bls", "legacy"}, seConfig : STRING, dflt : Seq(Args),
         dracut : -1..2, policy : {"none", "old", "new"}, kdump : SUBSET Kernels]

Entries == [initrd : STRING, args : Seq(Args)]

\* Every entry is for a kernel that is there.
BootFilesOK(image) ==
    /\ image.vmlinuz \subseteq Kernels
    /\ DOMAIN image.lines # {} /\ DOMAIN image.lines \subseteq image.vmlinuz
    /\ \A k \in DOMAIN image.lines : image.lines[k] \in Entries
    /\ DOMAIN image.initrds \subseteq Kernels

\* The iso or pxe section of a configuration file.
Sections == [type : InitramfsTypes \union {""}, kdump : {"", "keep", "none"}, extra : Seq(Args),
             files : SUBSET STRING, url : [base : STRING, file : STRING]]

\* A disk image boots, and a configuration has the values its schema admits.
ASSUME LiveOsAssumption ==
    /\ MaxRuns \in Nat \ {0}
    /\ IsFiniteSet(Kernels)
    /\ \A image \in DiskImages :
          /\ DOMAIN image = {"kind", "os", "uki", "vmlinuz", "lines", "initrds"}
          /\ image.kind = "disk" /\ image.os \in Oses /\ image.uki \in BOOLEAN /\ BootFilesOK(image)
    /\ \A r \in Requests :
          /\ DOMAIN r = {"out", "os", "selinux", "chain"}
          /\ r.out \in {"iso", "pxe"} /\ r.os \in BOOLEAN /\ r.selinux \in SELinuxModes \union {""}
          /\ r.chain \in Seq(Sections)

IsIso(image) == image.kind = "iso"

\* A bootstrap ISO is one with a squashfs file.
TypeOfIso(image) == IF image.squashfs THEN "bootstrap" ELSE "full-os"

-----------------------------------------------------------------------------
(* The configuration of the output.                                         *)

DefaultType(c) == IF c.out = "iso" THEN "bootstrap" ELSE "full-os"

\* Mutation: an unspecified type stays unspecified.
resolveInitramfsTypeAsGiven(in, c) == c.type

resolveInitramfsType(in, c) ==
    IF c.type # "" THEN c.type
    ELSE IF IsIso(in) THEN TypeOfIso(in) ELSE DefaultType(c)

convertingInitramfsType(in, c) == ~IsIso(in) \/ (c.type # "" /\ c.type # TypeOfIso(in))

\* Mutation: the request is never compared with what the ISO was made with.
isKdumpBootFilesConfigChangingNever(requested, savedKdump) == FALSE

isKdumpBootFilesConfigChanging(requested, savedKdump) ==
    requested # "" /\ (requested = "keep") # (savedKdump = "keep")

rebuildFullOsImage(in, c) ==
    \/ c.os
    \/ ~IsIso(in)
    \/ convertingInitramfsType(in, c)
    \/ isKdumpBootFilesConfigChanging(c.kdump, in.saved.kdump)

\* Iso.IsValid and Pxe.IsValid look at one file at a time.
SectionIsValid(f) == /\ f.type = "full-os" => f.url = NoUrls
                     /\ f.url.base = "" \/ f.url.file = ""

\* resolvePxeConfig, and resolveIsoConfig for a file without URLs; what the chain
\* resolves to is not checked again.
resolvePxeConfig(r) ==
    LET urls == [i \in DOMAIN r.chain |-> r.chain[i].url] IN
    [out |-> r.out, os |-> r.os, selinux |-> r.selinux,
     extra |-> mergeKernelCommandLine(r.chain),
     files |-> mergeAdditionalFiles(r.chain),
     type |-> LastSet(r.chain, "type", ""),
     kdump |-> LastSet(r.chain, "kdump", ""),
     url |-> [base |-> LastSet(urls, "base", ""), file |-> LastSet(urls, "file", "")]]

\* The configurations of requests that pass the validation.
Configs == {resolvePxeConfig(r) : r \in {r \in Requests : ~AnyFile(r.chain, LAMBDA f : ~SectionIsValid(f))}}

-----------------------------------------------------------------------------
(* Reading the input.                                                       *)

\* The initramfs of a kernel that has none is a file with its own path in it.
DummyInitrds(in) == [k \in in.vmlinuz \ DOMAIN in.initrds |-> "dummy"]

createWriteableImageFromArtifacts(in) ==
    [exists |-> TRUE, os |-> in.os, uki |-> FALSE, vmlinuz |-> in.vmlinuz, lines |-> in.lines, initrdImg |-> in.initrdImg,
     initrds |-> Merge(in.initrds, DummyInitrds(in)), kdump |-> in.kdump \union in.os.kdump]

convertImageToRaw(in) ==
    [exists |-> TRUE, os |-> in.os, uki |-> in.uki, vmlinuz |-> in.vmlinuz, lines |-> in.lines, initrdImg |-> FALSE,
     initrds |-> in.initrds, kdump |-> in.os.kdump]

\* storeIfKernelSpecificFile sorts files by the kernels collectKernelVersions finds: a
\* kdump image without its kernel is an additional file like any other.
KdumpBootFiles(image) == image.kdump \intersect image.vmlinuz
LooseKdump(image) == image.kdump \ image.vmlinuz

\* The kernel of a kdump image is only looked up when the store is from an image.
createIsoFilesStoreFromIsoImage(in) ==
    [in EXCEPT !.kdump = KdumpBootFiles(in), !.additionalKdump = LooseKdump(in), !.kdumpKernels = {}]

createIsoInfoStoreFromIsoImage(s) == [s EXCEPT !.dracut = s.saved.dracut]

createIsoArtifactStoreFromIsoImage(in) == createIsoInfoStoreFromIsoImage(createIsoFilesStoreFromIsoImage(in))

convertInputImageToWriteableFormat ==
    /\ phase = "convertInput"
    /\ raw' = IF ~IsIso(input) THEN convertImageToRaw(input)
              ELSE IF rebuildFullOsImage(input, cfg) THEN createWriteableImageFromArtifacts(input) ELSE None
    /\ store' = IF IsIso(input) THEN createIsoArtifactStoreFromIsoImage(input) ELSE None
    /\ type' = resolveInitramfsType(input, cfg)
    /\ phase' = IF cfg.os THEN "customizeOs"
                ELSE IF rebuildFullOsImage(input, cfg) THEN "artifactStore" ELSE "savedConfigs"
    /\ UNCHANGED <<input, cfg, saved, pxeLines, iso, pxe, kept, runs>>

-----------------------------------------------------------------------------
(* Customizing the OS, as far as it matters to the LiveOS.                  *)

FreshLine(os) == <<Arg("root", "partition")>> \o os.dflt

FreshLines(os, kernels) == [k \in kernels |-> Entry("own", FreshLine(os))]

\* Packages may change the kernels and update dracut.  grub2-mkconfig runs when the
\* kernels change or an SELinux mode is set and writes all entries anew;
\* entries of the Boot Loader Specification are only written for a new kernel, or by
\* the distribution's tools; a legacy grub.cfg is edited.  The kdump image of a kernel
\* that is removed may stay.
CustomizedLines(r, kernels, regenerated, mode) ==
    CASE r.os.boot = "mkconfig" -> IF mode # "" \/ kernels # r.vmlinuz
                                   THEN FreshLines(r.os, kernels) ELSE r.lines
      [] r.os.boot = "bls" -> [k \in kernels |-> IF regenerated \/ k \notin DOMAIN r.lines
                                                 THEN Entry("own", FreshLine(r.os)) ELSE r.lines[k]]
      [] OTHER -> [k \in kernels |->
                      LET old == r.lines[CHOOSE x \in DOMAIN r.lines : TRUE]
                      IN IF mode = "" THEN old
                         ELSE [old EXCEPT !.args = updateKernelCommandLineArgsHelper(@, selinuxArgNames, selinuxModeToArgs(mode))]]

CustomizedOs(os, mode, dracut) ==
    [os EXCEPT !.dracut = dracut,
               !.seConfig = IF mode = "" THEN @ ELSE ConfigFileMode(mode),
               !.dflt = IF mode = "" THEN @
                        ELSE updateKernelCommandLineArgsHelper(@, selinuxArgNames, selinuxModeToArgs(mode))]

customizeOSContents ==
    /\ phase = "customizeOs"
    /\ \E kernels \in (SUBSET Kernels) \ {{}},
          dracut \in raw.os.dracut..2,
          regenerated \in IF raw.os.boot = "bls" THEN BOOLEAN ELSE {FALSE},
          kdumpStays \in BOOLEAN :
             LET os == CustomizedOs(raw.os, cfg.selinux, dracut)
             IN raw' = [raw EXCEPT !.os = os, !.vmlinuz = kernels,
                                   !.lines = CustomizedLines([raw EXCEPT !.os = os], kernels, regenerated, cfg.selinux),
                                   !.initrds = [k \in kernels |-> IF k \in DOMAIN @ THEN @[k] ELSE "real"],
                                   !.kdump = IF kdumpStays THEN @ ELSE @ \intersect kernels]
    /\ phase' = "artifactStore"
    /\ UNCHANGED <<input, cfg, store, type, saved, pxeLines, iso, pxe, kept, runs>>

-----------------------------------------------------------------------------
(* Building the artifact store from the raw image.                          *)

\* The mode comes from /etc/default/grub, or from a legacy grub.cfg.
getSELinuxMode(r) ==
    ModeOf(r.os, IF r.os.boot = "legacy" THEN r.lines[CHOOSE k \in DOMAIN r.lines : TRUE].args ELSE r.os.dflt)

\* The input's saved configurations and its additional files are carried over, also a
\* kdump image whose kernel has been installed again since.
createIsoFilesStoreFromMountedImage(r, inputStore) ==
    [exists |-> TRUE, kind |-> "iso", os |-> r.os, vmlinuz |-> r.vmlinuz, initrds |-> r.initrds,
     initrdImg |-> r.initrdImg, squashfs |-> FALSE, lines |-> r.lines,
     kdump |-> KdumpBootFiles(r), kdumpKernels |-> KdumpBootFiles(r),
     additionalKdump |-> LooseKdump(r) \union (IF inputStore.exists THEN inputStore.additionalKdump ELSE {}),
     dracut |-> -1,
     files |-> IF inputStore.exists THEN inputStore.files ELSE {},
     saved |-> IF inputStore.exists THEN inputStore.saved ELSE NoSavedConfigs]

createIsoInfoStoreFromMountedImage(s, r) == [s EXCEPT !.dracut = r.os.dracut]

createIsoArtifactStoreFromMountedImage ==
    /\ phase = "artifactStore"
    /\ ~raw.uki
    /\ type = "full-os" => getSELinuxMode(raw) = "disabled"
    /\ store' = createIsoInfoStoreFromMountedImage(createIsoFilesStoreFromMountedImage(raw, store), raw)
    /\ phase' = "savedConfigs"
    /\ UNCHANGED <<input, cfg, raw, type, saved, pxeLines, iso, pxe, kept, runs>>

-----------------------------------------------------------------------------
(* saved-configs.yaml.                                                      *)

\* Mutation: the arguments of this run replace those of earlier runs.
CombinedArgsNew(old, new) == new

CombinedArgs(old, new) == old \o new

\* A new URL of one kind drops the saved one of the other kind.
CombinedUrls(old, new) ==
    [base |-> IF new.file # "" THEN "" ELSE IF new.base # "" THEN new.base ELSE old.base,
     file |-> IF new.base # "" THEN "" ELSE IF new.file # "" THEN new.file ELSE old.file]

\* Mutation: the URLs are persisted as well.
persistSavedConfigsAll(s) == s

\* The fields of PxeSavedConfigs are not exported, and are not written.
persistSavedConfigs(s) == [s EXCEPT !.url = NoUrls]

\* Packing again neither reads packages nor takes a mode from the configuration.
\* Without a file yet, old is NoSavedConfigs, but the requested mode is the new one;
\* with one, a mode that is asked for gives way to the saved one.
UpdatedSavedConfigs(old, hasOld, rebuilt, c, os) ==
    LET mode == IF rebuilt THEN c.selinux ELSE ""
    IN [kdump |-> IF c.kdump = "" THEN old.kdump ELSE c.kdump,
        args |-> CombinedArgs(old.args, c.extra),
        dracut |-> IF rebuilt THEN os.dracut ELSE old.dracut,
        policy |-> IF rebuilt /\ os.policy # "none" THEN os.policy ELSE old.policy,
        requested |-> IF hasOld /\ mode # "" THEN old.requested ELSE mode,
        url |-> CombinedUrls(old.url, c.url)]

Rebuilt == raw.exists

updateSavedConfigs ==
    /\ phase = "savedConfigs"
    /\ saved' = UpdatedSavedConfigs(store.saved, IsIso(input), Rebuilt, cfg, store.os)
    /\ store' = [store EXCEPT !.saved = persistSavedConfigs(saved')]
    /\ phase' = "grub"
    /\ UNCHANGED <<input, cfg, raw, type, pxeLines, iso, pxe, kept, runs>>

-----------------------------------------------------------------------------
(* The boot entries.                                                        *)

\* A version stands for what it suffices for; -1 when it is not known.
verifyMinimumVersion(version, minimum) == version >= minimum

verifyDracutPXESupport(dracut) == verifyMinimumVersion(dracut, 1)

\* An unknown policy package is taken to be recent enough.
verifyNoLiveOsSelinuxBlockers(s) == verifyMinimumVersion(s.dracut, 2) /\ s.policy # "old"

\* Mutation: SELinux is left as it is.
disableSELinuxNever(r, s) == FALSE

\* Packing again leaves SELinux alone.
disableSELinux(r, s) == r.exists /\ getSELinuxMode(r) # "disabled" /\ ~verifyNoLiveOsSelinuxBlockers(s)

\* A mode the user asked for is not taken away silently.
SELinuxDecisionAccepted(r, s) == disableSELinux(r, s) => s.requested \in {"", "disabled"}

\* kernelArgsLiveOSTemplate and pxeBootstrapKernelsArgs, an argument of each.
LiveArgs(t) == IF t = "bootstrap" THEN <<Arg("rd.live.image", "")>> ELSE <<>>
pxeBootstrapKernelsArgs == <<Arg("ip", "dhcp")>>

\* Entries of the Boot Loader Specification get new arguments at the end.
updateBLSEntryOptions(line, argsToRemove, newArgs) == Without(line, argsToRemove) \o newArgs

updateLiveOSBLSEntries(entry, t, disable, extra) ==
    Entry(IF t = "full-os" THEN "shared" ELSE entry.initrd,
          updateBLSEntryOptions(entry.args,
              (IF t = "full-os" THEN {"root"} ELSE {}) \union (IF disable THEN selinuxArgNames ELSE {}),
              LiveArgs(t) \o (IF disable THEN selinuxModeToArgs("disabled") ELSE <<>>) \o extra))

\* setInitrdPath and prependLinuxOrInitrdPathAll: only a legacy grub.cfg gets the
\* initrd of its kernel back; in a generated one the path that is there is kept and,
\* unless it begins with it, /boot is put before it.
InitrdPath(boot, entry, t) == IF t = "full-os" THEN "shared" ELSE IF boot = "legacy" THEN "own" ELSE entry.initrd

updateSELinuxCommandLineHelperAll(line, mode) ==
    updateKernelCommandLineArgsHelper(line, selinuxArgNames, selinuxModeToArgs(mode))

updateGrubCfgForLiveOS(boot, entry, t, disable, extra) ==
    LET rooted == IF t = "full-os" THEN updateKernelCommandLineArgsHelper(entry.args, {"root"}, <<>>) ELSE entry.args
        selinux == IF disable THEN updateSELinuxCommandLineHelperAll(rooted, "disabled") ELSE rooted
    IN Entry(InitrdPath(boot, entry, t), appendKernelCommandLineArgs(selinux, LiveArgs(t) \o extra))

LiveOSEntry(boot, entry, t, disable, extra) ==
    IF boot = "bls" THEN updateLiveOSBLSEntries(entry, t, disable, extra)
    ELSE updateGrubCfgForLiveOS(boot, entry, t, disable, extra)

isIsoBootImageNeeded(c, t) == c.out = "iso" \/ t = "bootstrap"

setLiveOSBLSEntriesRoot(entry, root, extraArgs) ==
    [entry EXCEPT !.args = updateBLSEntryOptions(@, {"root"}, <<Arg("root", root)>> \o extraArgs)]

\* root=live:LABEL=..., for a bootstrap image.
updateGrubCfgForIso(boot, entry, t) ==
    CASE t = "full-os" -> entry
      [] t # "full-os" /\ boot = "bls" -> setLiveOSBLSEntriesRoot(entry, "live", <<>>)
      [] OTHER -> [entry EXCEPT !.args = updateKernelCommandLineArgsHelper(@, {"root"}, <<Arg("root", "live")>>)]

\* A URL stands for the name of the file it ends with.
CanGetPxeBootstrapFileUrl(url) == url.base = "" \/ url.file = ""
getPxeBootstrapFileUrl(url) == IF url.file = "" THEN "image.iso" ELSE url.file

\* replaceKernelCommandLineArgValueAll wants exactly one argument to replace.
CanReplaceRoot(line) == Len(findMatchingCommandLineArgs(line, {"root"})) = 1

replaceKernelCommandLineArgValueAll(line, name, value) ==
    [i \in DOMAIN line |-> IF line[i].name = name THEN Arg(name, value) ELSE line[i]]

updateGrubCfgForPxe(entry, t, url) ==
    IF t = "full-os" THEN entry
    ELSE [entry EXCEPT !.args = appendKernelCommandLineArgs(
             replaceKernelCommandLineArgValueAll(@, "root", getPxeBootstrapFileUrl(url)), pxeBootstrapKernelsArgs)]

\* The checks a PXE output adds; the entries of the Boot Loader Specification are
\* finished when they are staged.
PxeGrubCfgAccepted(boot, lines, t, s) ==
    t = "bootstrap" =>
        /\ verifyDracutPXESupport(s.dracut)
        /\ boot # "bls" => /\ CanGetPxeBootstrapFileUrl(s.url)
                           /\ \A k \in DOMAIN lines : CanReplaceRoot(lines[k].args)

\* A legacy grub.cfg has one kernel.
KernelsAccepted(boot, kernels) == boot = "legacy" => Cardinality(kernels) = 1

updateGrubCfg ==
    LET boot == store.os.boot
        disable == disableSELinux(raw, saved)
        live == EveryKernel(store.lines, LAMBDA e : LiveOSEntry(boot, e, type, disable, saved.args))
        isoLines == IF isIsoBootImageNeeded(cfg, type)
                    THEN EveryKernel(live, LAMBDA e : updateGrubCfgForIso(boot, e, type)) ELSE live
    IN /\ phase = "grub"
       /\ SELinuxDecisionAccepted(raw, saved)
       /\ KernelsAccepted(boot, store.vmlinuz)
       /\ cfg.out = "pxe" => PxeGrubCfgAccepted(boot, live, type, saved)
       /\ store' = [store EXCEPT !.lines = IF isIsoBootImageNeeded(cfg, type) \/ boot = "bls" THEN isoLines ELSE @]
       /\ pxeLines' = IF cfg.out # "pxe" THEN NoLines
                      ELSE IF boot = "bls" THEN isoLines
                      ELSE EveryKernel(live, LAMBDA e : updateGrubCfgForPxe(e, type, saved.url))
       /\ phase' = IF Rebuilt THEN "images" ELSE "stage"
       /\ UNCHANGED <<input, cfg, raw, type, saved, iso, pxe, kept, runs>>

-----------------------------------------------------------------------------
(* The images and the output.                                               *)

\* /boot is emptied and the kdump images that are kept are put back.
cleanFullOSFolderForLiveOS(c, s) == IF c.kdump = "keep" THEN s.kdump ELSE {}

\* Mutation: the initramfs files of the input are used as they are.
createBootstrapInitrdImagesNone(s) == s.initrds

\* dracut makes one for every kernel, in the place of the one in the store.
createBootstrapInitrdImages(s) == [k \in s.vmlinuz |-> "real"]

createFullOSInitrdImage(s) == [s EXCEPT !.initrdImg = TRUE]

createSquashfsImage(s) == [s EXCEPT !.squashfs = TRUE]

createLiveOSImages ==
    /\ phase = "images"
    /\ type = "bootstrap" => store.vmlinuz \subseteq DOMAIN store.initrds
    /\ LET cleaned == [store EXCEPT !.os.kdump = cleanFullOSFolderForLiveOS(cfg, store)]
       IN store' = IF type = "full-os" THEN createFullOSInitrdImage(cleaned)
                   ELSE [createSquashfsImage(cleaned) EXCEPT !.initrds = createBootstrapInitrdImages(store),
                                                             !.initrdImg = FALSE]
    /\ phase' = "stage"
    /\ UNCHANGED <<input, cfg, raw, type, saved, pxeLines, iso, pxe, kept, runs>>

\* Every file that is named must be there; a store read from an ISO has the path of no
\* kdump kernel.
CanStage(c, t, s) ==
    /\ c.kdump = "none" => s.kdump \subseteq s.kdumpKernels
    /\ IF t = "full-os" THEN s.initrdImg ELSE s.vmlinuz \subseteq DOMAIN s.initrds

\* The media of the output.  kdump images that the full OS is not to keep go beside it,
\* and the additional files do in any case.
stageLiveOSFiles(c, t, s, lines) ==
    [s EXCEPT !.lines = lines, !.files = @ \union c.files,
              !.kdump = (IF c.kdump = "none" THEN @ ELSE {}) \union s.additionalKdump,
              !.additionalKdump = {},
              !.initrds = IF t = "full-os" THEN NoLines ELSE @,
              !.initrdImg = t = "full-os"]

\* finalizeLiveOSPxeBLSEntries, after the ISO inside the PXE directory is made.
finalizeLiveOSPxeBLSEntries(entry, t, url) ==
    IF t = "full-os" THEN entry
    ELSE setLiveOSBLSEntriesRoot(entry, getPxeBootstrapFileUrl(url), pxeBootstrapKernelsArgs)

createIsoImage ==
    /\ phase = "stage"
    /\ cfg.out = "iso"
    /\ CanStage(cfg, type, store)
    /\ iso' = stageLiveOSFiles(cfg, type, store, store.lines)
    /\ phase' = "ok"
    /\ UNCHANGED <<input, cfg, raw, store, type, saved, pxeLines, pxe, kept, runs>>

\* The ISO is put in the PXE directory, which then does without its squashfs.
createPXEArtifacts ==
    /\ phase = "stage"
    /\ cfg.out = "pxe"
    /\ CanStage(cfg, type, store)
    /\ type = "bootstrap" => /\ verifyDracutPXESupport(store.dracut)
                             /\ CanGetPxeBootstrapFileUrl(cfg.url)
                             /\ store.squashfs
    /\ iso' = IF type = "bootstrap" THEN stageLiveOSFiles(cfg, type, store, store.lines) ELSE None
    /\ LET lines == IF store.os.boot = "bls"
                    THEN EveryKernel(pxeLines, LAMBDA e : finalizeLiveOSPxeBLSEntries(e, type, cfg.url)) ELSE pxeLines
       IN pxe' = [media |-> [stageLiveOSFiles(cfg, type, store, lines) EXCEPT !.squashfs = FALSE],
                  image |-> IF type = "bootstrap" THEN getPxeBootstrapFileUrl(cfg.url) ELSE "", exists |-> TRUE]
    /\ phase' = "ok"
    /\ UNCHANGED <<input, cfg, raw, store, type, saved, pxeLines, kept, runs>>

-----------------------------------------------------------------------------
(* Runs.                                                                    *)

Running == {"convertInput", "customizeOs", "artifactStore", "savedConfigs", "grub", "images", "stage"}

\* Any step may fail, and does when its conditions do not hold.
Fail ==
    /\ phase \in Running
    /\ phase' = "failed"
    /\ UNCHANGED <<input, cfg, raw, store, type, saved, pxeLines, iso, pxe, kept, runs>>

Begin(in, c, k) ==
    /\ input' = in /\ cfg' = c /\ kept' = k
    /\ phase' = "convertInput"
    /\ raw' = None /\ store' = None /\ type' = "" /\ saved' = NoSavedConfigs /\ pxeLines' = NoLines
    /\ iso' = None /\ pxe' = None

NothingKept == [args |-> {}, files |-> {}]

WithAsked(k, c) == [args |-> k.args \union {c.extra[i] : i \in DOMAIN c.extra}, files |-> k.files \union c.files]

\* The next run starts from the ISO this one made, or from the same image again;
\* after a failure it is the same image, and what the failed run asked for is forgotten.
NextRun ==
    /\ phase \in {"ok", "failed"}
    /\ runs < MaxRuns
    /\ \E c \in Configs :
          IF phase = "ok" /\ iso.exists THEN Begin(iso, c, WithAsked(kept, cfg)) ELSE Begin(input, c, kept)
    /\ runs' = runs + 1

Finished ==
    /\ phase \in {"ok", "failed"}
    /\ runs = MaxRuns
    /\ UNCHANGED vars

Init ==
    /\ input \in DiskImages
    /\ cfg \in Configs
    /\ phase = "convertInput"
    /\ raw = None /\ store = None /\ type = "" /\ saved = NoSavedConfigs /\ pxeLines = NoLines
    /\ iso = None /\ pxe = None /\ kept = NothingKept
    /\ runs = 1

Next ==
    \/ convertInputImageToWriteableFormat
    \/ customizeOSContents
    \/ createIsoArtifactStoreFromMountedImage
    \/ updateSavedConfigs
    \/ updateGrubCfg
    \/ createLiveOSImages
    \/ createIsoImage
    \/ createPXEArtifacts
    \/ Fail
    \/ NextRun
    \/ Finished

Spec == Init /\ [][Next]_vars

-----------------------------------------------------------------------------
(* Properties.                                                              *)

\* Past the reading of the input the type of the initramfs is decided, and what is
\* saved and stored has the shape of saved-configs.yaml and of an artifact store.
TypeOK ==
    /\ phase \in Running \union {"ok", "failed"}
    /\ runs \in 1..MaxRuns
    /\ phase \in Running \union {"ok"} /\ phase # "convertInput" => type \in InitramfsTypes
    /\ saved.kdump \in {"", "keep", "none"} /\ saved.dracut \in -1..2
    /\ store.exists => DOMAIN store.initrds \subseteq Kernels /\ store.os.kdump \subseteq Kernels

\* What a run that ended well made: an ISO, a PXE directory, or both.
Outputs == IF phase # "ok" THEN {}
           ELSE (IF iso.exists THEN {iso} ELSE {}) \union (IF pxe.exists THEN {pxe.media} ELSE {})

LinesOf(m) == {m.lines[k] : k \in DOMAIN m.lines}

InitramfsStaged(m, k) == IF type = "full-os" THEN m.initrdImg ELSE k \in DOMAIN m.initrds /\ m.initrds[k] = "real"

\* However often an ISO is converted, customized and packed again, what comes out
\* boots: every entry's kernel is there with an initramfs that is not the stand-in
\* of a writeable image, root= of an ISO names its label (a full OS is in its
\* initramfs and has no root=), and a bootstrap ISO has its squashfs.
MediaBoots ==
    \A m \in Outputs :
        /\ DOMAIN m.lines # {}
        /\ \A k \in DOMAIN m.lines : k \in m.vmlinuz /\ InitramfsStaged(m, k)
        /\ \A e \in LinesOf(m) :
              /\ LET root == findKernelCommandLineArgValue(e.args, "root")
                 IN IF type = "full-os" THEN root = "" ELSE m = iso => root = "live"
              /\ type = "full-os" => e.initrd = "shared"
        /\ m = iso => m.squashfs = (type = "bootstrap")

\* Where dracut or the SELinux policy is too old for a LiveOS no entry boots with
\* SELinux, also when the ISO is packed again and nobody looks at SELinux.
LiveSELinuxOff ==
    \A m \in Outputs : \A e \in LinesOf(m) :
        ~verifyNoLiveOsSelinuxBlockers(saved) => ModeOf(m.os, e.args) = "disabled"

\* A LiveOS that is written is one that boots.
LiveMediaComplete == MediaBoots /\ LiveSELinuxOff

\* The command-line arguments and the additional files that any of the runs behind
\* an output asked for are in it, although each run writes saved-configs.yaml anew
\* and grub.cfg may have been written anew in between.
EarlierRunsKept ==
    \A m \in Outputs :
        LET asked == WithAsked(kept, cfg)
        IN /\ asked.files \subseteq m.files
           /\ \A e \in LinesOf(m), a \in asked.args : \E i \in DOMAIN e.args : e.args[i] = a

\* A machine that boots over PXE asks for the file the ISO was put in: root= comes
\* from the saved configurations, the file's name from the configuration of the run.
PxeFetchesItsImage ==
    phase = "ok" /\ pxe.exists /\ type = "bootstrap" =>
        \A e \in LinesOf(pxe.media) : findKernelCommandLineArgValue(e.args, "root") = pxe.image

KdumpOf(image) == image.os.kdump \union (IF IsIso(image) THEN image.kdump ELSE {})

\* A rebuild without a setting of its own does not put back what saved-configs.yaml
\* says is kept, and packing again then takes the OS to have it.
DroppedEarlier(image) == IsIso(image) /\ image.saved.kdump = "keep" /\ image.os.kdump = {}

\* The kdump images of the input that still have their kernel are where the run was
\* told to have them, in the full OS or beside it on the media, and those without a
\* kernel stay on the media whatever the run was told.
KdumpKept ==
    \A m \in Outputs :
        LET images == KdumpOf(input) \intersect m.vmlinuz
        IN /\ cfg.kdump = "keep" /\ (Rebuilt \/ ~DroppedEarlier(input)) => images \subseteq m.os.kdump
           /\ cfg.kdump = "none" => images \subseteq m.kdump
           /\ IsIso(input) => LooseKdump(input) \subseteq m.kdump

\* "update the initrd path from /initrd-<version>.img to /boot/initrd-<version>.img"
\* (liveosisogrub.go:207): an entry of a bootstrap image names its kernel's initrd.
EntriesNameOwnInitrd ==
    type = "bootstrap" => \A m \in Outputs : \A e \in LinesOf(m) : e.initrd = "own"
=============================================================================

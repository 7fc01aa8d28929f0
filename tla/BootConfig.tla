----------------------------- MODULE BootConfig -----------------------------
(***************************************************************************)
(* What makes an image boot, and how the customizer edits it: grub's       *)
(* configuration (bootcustomizer.go, defaultgrubutils.go, grubcfgutils.go),*)
(* the UKIs on the ESP and the uki-kernel-info.json of the build directory *)
(* (customizeuki.go), the kernels, and SELinux' and dracut's configuration.*)
(* An image is a record; the operators map images to images.               *)
(***************************************************************************)
EXTENDS KernelArgs, FiniteSets

\* A GRUB_DEVICE or root= value: a partition, or /dev/mapper/root.
Devices == {"partition", "mapper"}

NoLines == [k \in {} |-> <<>>]

GrubKinds == {"mkconfig", "legacy", "none"}

\* kind: what /boot/grub2/grub.cfg is; lines: the 'linux' command each kernel boots
\* with.  linux and dflt are GRUB_CMDLINE_LINUX and GRUB_CMDLINE_LINUX_DEFAULT; a
\* legacy grub.cfg has one command, linux, for whichever kernel is installed.
Grub(kind, linux, device, lines) ==
    [kind |-> kind, linux |-> linux, dflt |-> <<KernelOpts>>, device |-> device, lines |-> lines]
NoGrub == [kind |-> "none", linux |-> <<>>, dflt |-> <<>>, device |-> "partition", lines |-> NoLines]

\* uki-kernel-info.json: the command lines, and the initramfs copied for each kernel.
NoUkiInfo == [exists |-> FALSE, lines |-> NoLines, staged |-> NoLines]

\* The boot configuration the machine uses: UKIs when there are any.
BootedLines(im) ==
    IF DOMAIN im.esp # {} THEN [k \in DOMAIN im.esp |-> im.esp[k].line] ELSE im.grub.lines

BootedInitramfs(im, k) == IF k \in DOMAIN im.esp THEN im.esp[k].init ELSE im.initramfs[k]

determineBootConfigType(im) ==
    IF im.grub.kind # "none" THEN im.grub.kind
    ELSE IF DOMAIN im.esp # {} THEN "uki" ELSE "notFound"

-----------------------------------------------------------------------------
(* Kernels and initramfs files.                                             *)

Merge(f, g) == [k \in DOMAIN f \union DOMAIN g |-> IF k \in DOMAIN g THEN g[k] ELSE f[k]]

\* grub2-mkconfig: root=, then GRUB_CMDLINE_LINUX, then GRUB_CMDLINE_LINUX_DEFAULT.
CallGrubMkconfig(im) ==
    [im EXCEPT !.grub = [@ EXCEPT
        !.kind = "mkconfig",
        !.lines = [k \in im.vmlinuz |-> <<Arg("root", im.grub.device)>> \o im.grub.linux \o im.grub.dflt]]]

\* The hooks of a kernel package; they leave a /boot without a grub.cfg without one.
KernelInstalled(im, k) ==
    LET new == [im EXCEPT !.libModules = @ \union {k}, !.vmlinuz = @ \union {k},
                          !.initramfs = Merge(@, [x \in {k} |-> im.dracut])]
    IN CASE im.grub.kind = "mkconfig" -> CallGrubMkconfig(new)
         [] im.grub.kind = "legacy" -> [new EXCEPT !.grub.lines = Merge(@, [x \in {k} |-> im.grub.linux])]
         [] OTHER -> new

KernelRemoved(im, k) ==
    LET Drop(f) == [x \in DOMAIN f \ {k} |-> f[x]]
    IN [im EXCEPT !.libModules = @ \ {k}, !.vmlinuz = @ \ {k},
                  !.initramfs = Drop(@), !.grub.lines = Drop(@)]

\* dracut --regenerate-all (mkinitrd on Azure Linux 2.0).
RegenerateInitramfs(im) ==
    [im EXCEPT !.initramfs = Merge(@, [k \in im.libModules |-> im.dracut])]

hasKernelBinariesInBoot(im) == im.vmlinuz # {} \/ DOMAIN im.initramfs # {}

checkForInstalledKernel(im) == im.libModules # {}

addDracutDriver(im, drivers) == [im EXCEPT !.dracut = @ \union drivers]

-----------------------------------------------------------------------------
(* BootCustomizer.  ukiMode is the resolved os.uki.mode, "unset" without it. *)

UkiModes == {"unset", "create", "passthrough", "modify"}

\* Whether the two ways to edit command lines are open; the UKI ones edit
\* uki-kernel-info.json, which must be there.
CanAddKernelCommandLine(im, ukiMode, info) ==
    CASE determineBootConfigType(im) = "uki" -> ukiMode \in {"modify", "create"} /\ info.exists
      [] OTHER -> determineBootConfigType(im) # "notFound"

CanUpdateKernelCommandLineArgs(im, ukiMode, info) ==
    CASE determineBootConfigType(im) = "uki" -> ukiMode = "modify" /\ info.exists
      [] OTHER -> determineBootConfigType(im) # "notFound"

\* A change of /etc/default/grub is followed by grub2-mkconfig.
WriteToFile(im) == IF im.grub.kind = "mkconfig" THEN CallGrubMkconfig(im) ELSE im

\* An edit of the 'linux' commands of grub.cfg itself.
EditedGrub(grub, argsToRemove, newArgs) ==
    [grub EXCEPT
        !.linux = IF grub.kind = "legacy" THEN updateKernelCommandLineArgsHelper(@, argsToRemove, newArgs) ELSE @,
        !.lines = EveryKernel(@, LAMBDA line : updateKernelCommandLineArgsHelper(line, argsToRemove, newArgs))]

EditGrubCfg(im, argsToRemove, newArgs) ==
    [im EXCEPT !.grub = EditedGrub(@, argsToRemove, newArgs)]

\* Mutation: grub.cfg is edited where /etc/default/grub should be.
BootCustomizerAddKernelCommandLineDirect(im, extra) ==
    IF im.grub.kind = "none" THEN im
    ELSE EditGrubCfg(im, {}, extra)

BootCustomizerAddKernelCommandLine(im, extra) ==
    CASE im.grub.kind = "mkconfig" -> [im EXCEPT !.grub.dflt = appendKernelCommandLineArgs(@, extra)]
      [] im.grub.kind = "legacy" -> EditGrubCfg(im, {}, extra)
      [] OTHER -> im

appendToUkiCmdlineFile(info, extra) ==
    [info EXCEPT !.lines = EveryKernel(@, LAMBDA line : line \o extra)]

UpdateKernelCommandLineArgs(im, argsToRemove, newArgs) ==
    CASE im.grub.kind = "mkconfig" ->
            [im EXCEPT !.grub.linux = updateKernelCommandLineArgsHelper(@, argsToRemove, newArgs)]
      [] im.grub.kind = "legacy" ->
            EditGrubCfg(im, argsToRemove, newArgs)
      [] OTHER -> im

updateUkiCmdlineFile(info, argsToRemove, newArgs) ==
    [info EXCEPT !.lines = EveryKernel(@, LAMBDA line : updateUkiCmdline(line, argsToRemove, newArgs))]

\* Only a grub-mkconfig image is told to boot from the device mapper here.
PrepareForVerity(im) ==
    IF im.grub.kind = "mkconfig" THEN [im EXCEPT !.grub.device = "mapper"] ELSE im

-----------------------------------------------------------------------------
(* SELinux.                                                                 *)

GetSELinuxModeFromLinuxArgs(im, line) ==
    IF im.distro \in {"azl3", "azl4"} THEN getSELinuxModeFromLinuxArgsDeferIfMissing(line)
    ELSE getSELinuxModeFromLinuxArgs(line)

\* The arguments the mode is read from; of several UKIs it is any.
SELinuxArgLines(im) ==
    CASE determineBootConfigType(im) = "mkconfig" -> {im.grub.dflt \o im.grub.linux}
      [] determineBootConfigType(im) = "legacy" -> {im.grub.linux}
      [] OTHER -> {im.esp[k].line : k \in DOMAIN im.esp}

\* The mode a command line stands for; "absent" when SELinux' configuration file,
\* which then decides, is not there.
ModeOf(im, line) ==
    LET mode == GetSELinuxModeFromLinuxArgs(im, line)
    IN IF mode # SELinuxModeDefault THEN mode ELSE im.seConfig

GetSELinuxMode(im) == {ModeOf(im, line) : line \in SELinuxArgLines(im)}

SELinuxSupported(im) == im.distro # "ubuntu"

\* A policy must be installed unless SELinux is switched off; ACL has its file on
\* a volume that is not written.
CanUpdateSELinuxConfigFile(im, mode) ==
    im.distro = "acl" \/ mode = "disabled" \/ im.seConfig # "absent"

UpdateSELinuxModeInConfigFile(im, mode) ==
    IF im.distro = "acl" \/ im.seConfig = "absent" THEN im
    ELSE [im EXCEPT !.seConfig = ConfigFileMode(mode)]

-----------------------------------------------------------------------------
(* Hard reset: grub is installed again from the templates.                  *)

\* Azure Linux 2.0 keeps a grub.cfg of the legacy template when it has one.
configureDiskBootLoader(im, mode, extra) ==
    LET fresh == [Grub("mkconfig", getCommonSELinuxArgs(mode), "partition", NoLines)
                    EXCEPT !.dflt = extra \o <<KernelOpts>>]
        line == <<Arg("root", "partition")>> \o fresh.linux \o fresh.dflt
    IN IF im.distro = "azl2" /\ determineBootConfigType(im) # "mkconfig"
       THEN [im EXCEPT !.grub = [fresh EXCEPT !.kind = "legacy", !.linux = line, !.lines = [k \in im.vmlinuz |-> line]]]
       ELSE CallGrubMkconfig([im EXCEPT !.grub = fresh])

-----------------------------------------------------------------------------
(* Verity.                                                                  *)

HashArgName(verity) == IF verity = "root" THEN "roothash" ELSE "usrhash"

constructVerityKernelCmdlineArgs(verity, hash) ==
    <<Arg("rd.systemd.verity", "1"), Arg(HashArgName(verity), hash)>>

\* grub.cfg is edited directly; root= (rootdevice in a legacy file) becomes the mapper.
updateGrubConfigForVerity(im, verity, hash) ==
    LET hashed == EditGrubCfg(im, verityKernelArgsToRemove, constructVerityKernelCmdlineArgs(verity, hash))
    IN IF verity = "root" THEN EditGrubCfg(hashed, {"root"}, <<Arg("root", "mapper")>>) ELSE hashed

\* Mutation: the arguments of the previous hash stay.
appendKernelArgsToUkiCmdlineFileKeep(info, newArgs) ==
    [info EXCEPT !.lines = EveryKernel(@, LAMBDA line : newArgs \o line)]

\* removeVerityArgsFromCmdline also drops what holds a variable.
appendKernelArgsToUkiCmdlineFile(info, newArgs) ==
    [info EXCEPT !.lines = EveryKernel(@, LAMBDA line :
        Without(line, verityKernelArgsToRemove \union {KernelOpts.name}) \o newArgs)]

-----------------------------------------------------------------------------
(* UKIs.                                                                    *)

\* validateUkiMode: whether the base image admits the mode.
validateUkiMode(im, ukiMode, addons) ==
    IF DOMAIN im.esp = {} THEN ukiMode \in {"unset", "create"}
    ELSE ukiMode # "unset" /\ (ukiMode = "modify" => addons)

extractKernelAndInitramfsFromUkis(im) ==
    [im EXCEPT !.vmlinuz = @ \union DOMAIN im.esp,
               !.initramfs = Merge(@, [k \in DOMAIN im.esp |-> im.esp[k].init])]

\* saveUkiBaseCmdlineForCreate and extractAndSaveUkiCmdline.
SavedUkiCmdlines(im, info) ==
    [info EXCEPT !.exists = TRUE, !.lines = [k \in DOMAIN im.esp |-> im.esp[k].line]]

\* findKernelsAndInitramfs: a kernel, and an initramfs for every kernel.
KernelsHaveInitramfs(im) == im.vmlinuz # {} /\ im.vmlinuz \subseteq DOMAIN im.initramfs

\* grubKernelArgsToStringMap drops what holds a variable.
extractKernelToArgs(im) == EveryKernel(im.grub.lines, LAMBDA line : Without(line, {KernelOpts.name}))

\* The command lines prepareUki starts from: the saved ones, or else grub's.
KnownCmdlines(im, info) == IF DOMAIN info.lines # {} THEN info.lines ELSE extractKernelToArgs(im)

CanResolveCmdlines(im, known) ==
    im.vmlinuz \subseteq DOMAIN known \/ Cardinality(getFallbackKernelArgs(known)) = 1

ResolvedUkiInfo(im, known) ==
    [exists |-> TRUE,
     lines |-> [k \in im.vmlinuz |-> IF k \in DOMAIN known THEN known[k]
                                     ELSE CHOOSE line \in getFallbackKernelArgs(known) : TRUE],
     staged |-> [k \in im.vmlinuz |-> im.initramfs[k]]]

\* ACL keeps everything but kernels and initramfs files, and has no grub.cfg.
CleanBootDirectory(im) == [im EXCEPT !.vmlinuz = {}, !.initramfs = NoLines, !.grub.kind = "none",
                                     !.grub.lines = NoLines]

\* Mutation: the UKIs of kernels that are gone stay on the ESP.
buildUkisKeepOld(im, info) ==
    [im EXCEPT !.esp = Merge(@, [k \in DOMAIN info.lines |-> [line |-> info.lines[k], init |-> info.staged[k]]])]

\* cleanUkiDirectory, then buildUki for each kernel of the file.
buildUkis(im, info) ==
    [im EXCEPT !.esp = [k \in DOMAIN info.lines |-> [line |-> info.lines[k], init |-> info.staged[k]]]]

\* modifyUkiAddon rewrites the addon of each UKI; the UKI itself stays.
modifyUkiAddons(im, info) ==
    [im EXCEPT !.esp = [k \in DOMAIN @ |-> [@[k] EXCEPT !.line = info.lines[k]]]]
=============================================================================

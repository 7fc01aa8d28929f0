------------------------- MODULE MC_OsCustomization -------------------------
(* The base images and configuration chains of the runs: every distribution, *)
(* kind of boot loader and kind of verity, with chains of one and two files.  *)
EXTENDS OsCustomization

CONSTANTS k1, k2

SE == <<Arg("security", "selinux"), Arg("selinux", "1")>>
Root(device) == <<Arg("root", device)>>
Hash(verity) == IF verity = "none" THEN <<>> ELSE constructVerityKernelCmdlineArgs(verity, "0")
Dracut(verity) == IF verity = "none" THEN {} ELSE {"verity"}

\* A grub image: kind, SELinux arguments and what its configuration file says.
GrubImage(distro, kind, selinuxArgs, seConfig, verity) ==
    LET device == IF verity = "root" THEN "mapper" ELSE "partition"
        line == Root(device) \o selinuxArgs \o Hash(verity) \o <<KernelOpts>>
    IN [distro |-> distro, grub |-> Grub(kind, IF kind = "legacy" THEN line ELSE selinuxArgs, device, [k \in {k1} |-> line]),
        esp |-> NoLines, addons |-> FALSE, vmlinuz |-> {k1}, initramfs |-> [k \in {k1} |-> Dracut(verity)],
        libModules |-> {k1}, dracut |-> Dracut(verity), seConfig |-> seConfig, verity |-> verity,
        hash |-> "0", fstab |-> {}, resolv |-> "none", baselineResolv |-> "none",
        etcMounted |-> FALSE, etcWorkDir |-> FALSE, hostname |-> "base", users |-> {"root"}, groups |-> {"wheel"},
        services |-> {"systemd-resolved"}, disabledModules |-> {"vfat"}, loadedModules |-> {},
        manager |-> TRUE, unlabelled |-> {}]

UkiImage(distro, selinuxArgs, seConfig, verity, addons) ==
    LET device == IF verity = "root" THEN "mapper" ELSE "partition"
        line == Root(device) \o selinuxArgs \o Hash(verity)
    IN [GrubImage(distro, "mkconfig", selinuxArgs, seConfig, verity) EXCEPT
            !.grub = NoGrub, !.vmlinuz = {}, !.initramfs = NoLines, !.addons = addons,
            !.resolv = IF distro = "acl" THEN "symlink" ELSE "file",
            !.esp = [k \in {k1} |-> [line |-> line, init |-> Dracut(verity)]]]

\* Two kernels, each with its UKI.
TwoKernels(im) ==
    [im EXCEPT !.libModules = @ \union {k2}, !.esp = [k \in {k1, k2} |-> im.esp[k1]]]

MCBaseImages == {
    GrubImage("azl3", "mkconfig", <<>>, "enforcing", "none"),
    GrubImage("azl3", "mkconfig", SE \o <<Arg("enforcing", "1")>>, "permissive", "usr"),
    GrubImage("azl2", "legacy", SE, "permissive", "none"),
    GrubImage("ubuntu", "mkconfig", <<>>, "absent", "none"),
    TwoKernels(UkiImage("azl3", SE, "enforcing", "none", TRUE)),
    UkiImage("azl3", SE, "enforcing", "root", TRUE),
    UkiImage("acl", SE, "enforcing", "usr", TRUE)}

MCRootHashes == <<"1", "2">>

Quiet == <<Arg("quiet", "")>>
File(f) == <<f>>

MCChains == {
    <<[EmptyFile EXCEPT !.ops = {"remove", "install"}, !.snapshot = TRUE, !.hostname = "one",
                        !.enable = {"sshd"}, !.modules = [m \in {"vfat"} |-> [mode |-> "always", options |-> TRUE]]],
      [EmptyFile EXCEPT !.hostname = "two", !.disable = {"sshd"}, !.extra = Quiet, !.overlays = TRUE,
                        !.files = TRUE, !.users = {[name |-> "test", id |-> TRUE]}, !.dirs = TRUE,
                        !.groups = {[name |-> "wheel", id |-> FALSE]}]>>,
    <<[EmptyFile EXCEPT !.selinux = "permissive", !.scripts = TRUE, !.noHistory = TRUE,
                        !.modules = [m \in {"vfat"} |-> [mode |-> "inherit", options |-> FALSE]]]>>,
    <<[EmptyFile EXCEPT !.uki = "create", !.ops = {"remove", "update"}, !.extra = Quiet, !.removeManager = TRUE],
      [EmptyFile EXCEPT !.reinit = TRUE, !.overlays = TRUE]>>,
    <<[EmptyFile EXCEPT !.uki = "create", !.hard = TRUE, !.extra = Quiet]>>,
    <<[EmptyFile EXCEPT !.uki = "passthrough", !.ops = {"install"}, !.hostname = "one"],
      [EmptyFile EXCEPT !.ops = {"remove", "update"}]>>,
    <<[EmptyFile EXCEPT !.uki = "modify", !.selinux = "force-enforcing"],
      [EmptyFile EXCEPT !.reinit = TRUE, !.extra = Quiet]>>,
    <<[EmptyFile EXCEPT !.uki = "modify", !.overlays = TRUE]>>,
    <<[EmptyFile EXCEPT !.uki = "modify"], [EmptyFile EXCEPT !.overlays = TRUE]>>,
    <<[EmptyFile EXCEPT !.uki = "modify"],
      [EmptyFile EXCEPT !.hard = TRUE, !.extra = Quiet, !.selinux = "disabled"]>>,
    <<[EmptyFile EXCEPT !.verity = "root", !.ops = {"updateExisting"}]>>,
    <<[EmptyFile EXCEPT !.selinux = "disabled", !.reinit = TRUE]>>,
    <<[EmptyFile EXCEPT !.uki = "passthrough"], [EmptyFile EXCEPT !.hard = TRUE, !.reinit = TRUE]>>,
    <<[EmptyFile EXCEPT !.hard = TRUE, !.parts = TRUE, !.selinux = "enforcing", !.extra = Quiet]>>}

\* The images and chains are among those that the theorems about the command lines are about.
ASSUME MCInputs == UkisWithoutGrub /\ PlainExtra /\ UniformImages
=============================================================================

----------------------------- MODULE KernelArgs -----------------------------
(***************************************************************************)
(* Kernel command lines as grubcfgutils.go and bootcustomizer.go edit      *)
(* them.  A command line is the sequence of the arguments of a grub        *)
(* 'linux' command, of a GRUB_CMDLINE variable or of a UKI; tokenizing and *)
(* quoting are left out, the order of the arguments is kept because the    *)
(* last one of a name wins and because $kernelopts marks where new         *)
(* arguments go.                                                           *)
(***************************************************************************)
EXTENDS Integers, Sequences

Arg(n, v) == [name |-> n, value |-> v]

Args == [name : STRING, value : STRING]

\* The names and values that the code itself uses are strings, which provers do not know.
ASSUME StringLiterals ==
    /\ {"security", "selinux", "enforcing", "root", "rd.live.image", "ip", "rd.systemd.verity", "roothash",
         "usrhash", "$kernelopts"} \subseteq STRING
    /\ {"", "0", "1", "selinux", "dhcp", "live", "image.iso", "partition", "mapper", "own", "shared",
         "disabled", "permissive", "enforcing"} \subseteq STRING

\* The token $kernelopts; it has no name to match.
KernelOpts == Arg("$kernelopts", "")

SELinuxModes == {"disabled", "permissive", "enforcing", "force-enforcing"}

\* The modes of a configuration and of a reading: "" defers to something else.
SELinuxModeDefault == ""

\* Mutation: 'enforcing' is not one of the arguments that are replaced.
selinuxArgNamesNoEnforcing == {"security", "selinux"}

selinuxArgNames == {"security", "selinux", "enforcing"}

\* The arguments systemd_verity_* that go with roothash and usrhash are left out.
verityKernelArgsToRemove == {"rd.systemd.verity", "roothash", "usrhash"}

IndicesOf(line, names) == {i \in 1..Len(line) : line[i].name \in names}

LastOf(S) == CHOOSE i \in S : \A j \in S : j <= i

findMatchingCommandLineArgs(line, names) ==
    LET matching[i \in 0..Len(line)] ==
            IF i = 0 THEN <<>>
            ELSE IF line[i].name \in names THEN Append(matching[i - 1], line[i]) ELSE matching[i - 1]
    IN matching[Len(line)]

\* The last argument of a name wins; "" when there is none.
findKernelCommandLineArgValue(line, name) ==
    LET found == findMatchingCommandLineArgs(line, {name})
    IN IF found = <<>> THEN "" ELSE found[Len(found)].value

\* Two $kernelopts in one command are refused.
TooManyKernelOpts(line) == \E i, j \in 1..Len(line) : i # j /\ line[i] = KernelOpts /\ line[j] = KernelOpts

\* The number of arguments before the insertion point.
findCommandLineInsertAt(line) ==
    LET opts == {i \in 1..Len(line) : line[i] = KernelOpts}
    IN IF opts = {} THEN Len(line) ELSE LastOf(opts) - 1

\* The arguments of the other names, in their order.
Without(line, names) == findMatchingCommandLineArgs(line, STRING \ names)

\* appendKernelCommandLineArgsAll on one 'linux' command.
appendKernelCommandLineArgs(line, extra) ==
    LET at == findCommandLineInsertAt(line)
    IN SubSeq(line, 1, at) \o extra \o SubSeq(line, at + 1, Len(line))

\* The new arguments take the place of the last one that is removed, or go to the
\* insertion point when none is.
updateKernelCommandLineArgsHelper(line, argsToRemove, newArgs) ==
    LET found == IndicesOf(line, argsToRemove)
    IN IF found = {}
       THEN appendKernelCommandLineArgs(line, newArgs)
       ELSE Without(SubSeq(line, 1, LastOf(found)), argsToRemove) \o newArgs
              \o SubSeq(line, LastOf(found) + 1, Len(line))

\* updateUkiCmdlineFile: a UKI has no $kernelopts, new arguments go to the end.
updateUkiCmdline(line, argsToRemove, newArgs) == Without(line, argsToRemove) \o newArgs

-----------------------------------------------------------------------------
(* SELinux arguments.                                                       *)

getCommonSELinuxArgs(mode) ==
    CASE mode = "disabled" -> <<Arg("selinux", "0")>>
      [] mode = "force-enforcing" ->
            <<Arg("security", "selinux"), Arg("selinux", "1"), Arg("enforcing", "1")>>
      [] OTHER -> <<Arg("security", "selinux"), Arg("selinux", "1")>>

selinuxModeToArgs(mode) == getCommonSELinuxArgs(mode)

\* osmodifier's flavour says 'enforcing=0' for permissive.
selinuxModeToArgsWithPermissiveFlag(mode) ==
    getCommonSELinuxArgs(mode) \o (IF mode = "permissive" THEN <<Arg("enforcing", "0")>> ELSE <<>>)

getSELinuxModeFromLinuxArgs(line) ==
    IF \/ findKernelCommandLineArgValue(line, "security") # "selinux"
       \/ findKernelCommandLineArgValue(line, "selinux") # "1"
    THEN "disabled"
    ELSE IF findKernelCommandLineArgValue(line, "enforcing") = "1" THEN "force-enforcing"
         ELSE SELinuxModeDefault

\* Azure Linux 3 and later enable SELinux without arguments.
getSELinuxModeFromLinuxArgsDeferIfMissing(line) ==
    LET mode == getSELinuxModeFromLinuxArgs(line)
    IN IF mode = "disabled" /\ findMatchingCommandLineArgs(line, selinuxArgNames) = <<>>
       THEN SELinuxModeDefault ELSE mode

\* selinuxModeToImager and SELinuxUpdateConfig: what /etc/selinux/config then says.
ConfigFileMode(mode) == IF mode = "force-enforcing" THEN "enforcing" ELSE mode

-----------------------------------------------------------------------------
(* Command lines of several kernels: a function from kernels.               *)

EveryKernel(lines, Edit(_)) == [k \in DOMAIN lines |-> Edit(lines[k])]

\* getFallbackKernelArgs: the one command line all known kernels share, if any.
getFallbackKernelArgs(lines) == {lines[k] : k \in DOMAIN lines} \ {<<>>}
=============================================================================

--------------------------- MODULE LiveOs_proofs ---------------------------
(***************************************************************************)
(* What any number of runs makes of any disk images and requests: the      *)
(* outputs boot, keep what earlier runs asked for, and agree with the      *)
(* saved configurations.                                                   *)
(***************************************************************************)
EXTENDS LiveOs, KernelArgs_proofs, FiniteSetTheorems

-----------------------------------------------------------------------------
(* Entries.                                                                 *)

\* An argument made of two strings.
LEMMA ArgsOf ==
    ASSUME NEW n \in STRING, NEW v \in STRING
    PROVE  Arg(n, v) \in Args /\ <<Arg(n, v)>> \in Seq(Args) /\ Arg(n, v).name = n
<1>1. Arg(n, v) \in Args /\ Arg(n, v).name = n
  BY DEF Arg, Args
<1>2. QED
  BY <1>1

\* The lines of the LiveOS templates, and what switches SELinux off.
LEMMA TemplateArgs ==
    /\ \A t : LiveArgs(t) \in Seq(Args)
    /\ \A t, names : "rd.live.image" \notin names => findMatchingCommandLineArgs(LiveArgs(t), names) = <<>>
    /\ pxeBootstrapKernelsArgs \in Seq(Args)
    /\ \A names : "ip" \notin names => findMatchingCommandLineArgs(pxeBootstrapKernelsArgs, names) = <<>>
    /\ selinuxModeToArgs("disabled") = <<Arg("selinux", "0")>>
    /\ selinuxModeToArgs("disabled") \in Seq(Args)
    /\ \A names : findMatchingCommandLineArgs(selinuxModeToArgs("disabled"), names) =
                      IF "selinux" \in names THEN selinuxModeToArgs("disabled") ELSE <<>>
<1>1. ASSUME NEW n \in STRING, NEW v \in STRING, NEW names
      PROVE  findMatchingCommandLineArgs(<<Arg(n, v)>>, names) = IF n \in names THEN <<Arg(n, v)>> ELSE <<>>
  <2>1. Arg(n, v) \in Args /\ Arg(n, v).name = n
    BY ArgsOf
  <2>2. findMatchingCommandLineArgs(<<Arg(n, v)>>, names) = IF Arg(n, v).name \in names THEN <<Arg(n, v)>> ELSE <<>>
    BY <2>1, MatchingOne
  <2>3. QED
    BY <2>1, <2>2
<1>2. <<>> \in Seq(Args) /\ \A names : findMatchingCommandLineArgs(<<>>, names) = <<>>
  BY EmptySeq, MatchingEmpty
<1>3. ASSUME NEW t
      PROVE  /\ LiveArgs(t) \in Seq(Args)
             /\ \A names : "rd.live.image" \notin names => findMatchingCommandLineArgs(LiveArgs(t), names) = <<>>
  <2>1. CASE t = "bootstrap"
    <3>1. LiveArgs(t) = <<Arg("rd.live.image", "")>>
      BY <2>1 DEF LiveArgs
    <3> DEFINE a == Arg("rd.live.image", "")
    <3>2. <<a>> \in Seq(Args)
      BY ArgsOf, StringLiterals
    <3>3. \A names : findMatchingCommandLineArgs(<<a>>, names) = IF "rd.live.image" \in names THEN <<a>> ELSE <<>>
      BY <1>1, StringLiterals
    <3> HIDE DEF a
    <3>4. QED
      BY <3>1, <3>2, <3>3 DEF a
  <2>2. CASE t # "bootstrap"
    <3>1. LiveArgs(t) = <<>>
      BY <2>2 DEF LiveArgs
    <3>2. QED
      BY <3>1, <1>2
  <2>3. QED
    BY <2>1, <2>2
<1>4. selinuxModeToArgs("disabled") = <<Arg("selinux", "0")>>
  BY DEF selinuxModeToArgs, getCommonSELinuxArgs
<1>5. selinuxModeToArgs("disabled") \in Seq(Args)
      /\ \A names : findMatchingCommandLineArgs(selinuxModeToArgs("disabled"), names) =
                      IF "selinux" \in names THEN selinuxModeToArgs("disabled") ELSE <<>>
  <2> DEFINE a == Arg("selinux", "0")
  <2>0. "selinux" \in STRING /\ "0" \in STRING
    BY StringLiterals
  <2>1. <<a>> \in Seq(Args)
    BY <2>0, ArgsOf
  <2>2. \A names : findMatchingCommandLineArgs(<<a>>, names) = IF "selinux" \in names THEN <<a>> ELSE <<>>
    BY <1>1, <2>0
  <2> HIDE DEF a
  <2>3. QED
    BY <1>4, <2>1, <2>2 DEF a
<1>6. pxeBootstrapKernelsArgs \in Seq(Args)
      /\ \A names : "ip" \notin names => findMatchingCommandLineArgs(pxeBootstrapKernelsArgs, names) = <<>>
  <2> DEFINE a == Arg("ip", "dhcp")
  <2>0. "ip" \in STRING /\ "dhcp" \in STRING
    BY StringLiterals
  <2>1. <<a>> \in Seq(Args)
    BY <2>0, ArgsOf
  <2>2. \A names : findMatchingCommandLineArgs(<<a>>, names) = IF "ip" \in names THEN <<a>> ELSE <<>>
    BY <1>1, <2>0
  <2> HIDE DEF a
  <2>3. QED
    BY <2>1, <2>2 DEF a, pxeBootstrapKernelsArgs
<1>7. QED
  BY <1>3, <1>4, <1>5, <1>6

\* None of the arguments a LiveOS adds is one of SELinux; root= is not either.
LEMMA SELinuxNames ==
    /\ selinuxArgNames \in SUBSET STRING /\ {"root"} \in SUBSET STRING
    /\ "root" \notin selinuxArgNames /\ {"root"} \intersect selinuxArgNames = {}
    /\ "rd.live.image" \notin selinuxArgNames /\ "ip" \notin selinuxArgNames
    /\ "selinux" \in selinuxArgNames
<1>1. \A n \in selinuxArgNames : n = "security" \/ n = "selinux" \/ n = "enforcing"
  BY DEF selinuxArgNames
<1>2. selinuxArgNames \subseteq STRING /\ {"root"} \subseteq STRING
  BY <1>1, StringLiterals
<1>3. "selinux" \in selinuxArgNames
  BY DEF selinuxArgNames
<1>4. QED
  BY <1>1, <1>2, <1>3

\* updateKernelCommandLineArgsHelper without new arguments only drops.
LEMMA RootDropped ==
    ASSUME NEW line \in Seq(Args)
    PROVE  LET new == updateKernelCommandLineArgsHelper(line, {"root"}, <<>>) IN
           /\ new \in Seq(Args)
           /\ findMatchingCommandLineArgs(new, {"root"}) = <<>>
           /\ findMatchingCommandLineArgs(new, selinuxArgNames) = findMatchingCommandLineArgs(line, selinuxArgNames)
<1> DEFINE none == <<>>
           new == updateKernelCommandLineArgsHelper(line, {"root"}, none)
<1>1. none \in Seq(Args) /\ \A names : findMatchingCommandLineArgs(none, names) = <<>>
  BY EmptySeq, MatchingEmpty
<1>2. {"root"} \subseteq {"root"} /\ selinuxArgNames \in SUBSET STRING /\ selinuxArgNames \intersect {"root"} = {}
  BY SELinuxNames
<1> HIDE DEF none
<1>3. new \in Seq(Args)
  BY <1>1, UpdateSeq
<1>4. findMatchingCommandLineArgs(new, {"root"}) = findMatchingCommandLineArgs(none, {"root"})
  BY <1>1, <1>2, MatchingUpdated
<1>5. findMatchingCommandLineArgs(new, selinuxArgNames) = findMatchingCommandLineArgs(line, selinuxArgNames)
  <2>1. Untouched(selinuxArgNames, {"root"}, none)
    BY <1>1, <1>2, Zenon DEF Untouched
  <2>2. QED
    BY <1>1, <2>1, MatchingUntouched
<1>6. QED
  BY <1>1, <1>3, <1>4, <1>5 DEF none

\* The entries of a LiveOS have the extra arguments and none of root= for a full OS; their
\* SELinux arguments change only when SELinux is switched off.
LiveEdited(e, t, disable, extra, new) ==
    /\ new \in Entries
    /\ t = "full-os" => new.initrd = "shared"
    /\ t = "full-os" /\ findMatchingCommandLineArgs(extra, {"root"}) = <<>> =>
          findMatchingCommandLineArgs(new.args, {"root"}) = <<>>
    /\ \A a : HasArg(extra, a) => HasArg(new.args, a)
    /\ findMatchingCommandLineArgs(extra, selinuxArgNames) = <<>> =>
          findMatchingCommandLineArgs(new.args, selinuxArgNames) =
              IF disable THEN selinuxModeToArgs("disabled")
              ELSE findMatchingCommandLineArgs(e.args, selinuxArgNames)

\* LiveOSEntry makes such an entry, for each way an image boots.
LEMMA LiveEntry ==
    ASSUME NEW boot, NEW e \in Entries, NEW t, NEW disable \in BOOLEAN, NEW extra \in Seq(Args)
    PROVE  LiveEdited(e, t, disable, extra, LiveOSEntry(boot, e, t, disable, extra))
<1> DEFINE SE == selinuxArgNames
           off == IF disable THEN selinuxModeToArgs("disabled") ELSE <<>>
           M(line, names) == findMatchingCommandLineArgs(line, names)
<1>1. e.args \in Seq(Args) /\ e.initrd \in STRING
  BY DEF Entries
<1>2. /\ off \in Seq(Args) /\ LiveArgs(t) \in Seq(Args)
      /\ M(off, {"root"}) = <<>>
      /\ M(off, SE) = off
      /\ M(LiveArgs(t), {"root"}) = <<>> /\ M(LiveArgs(t), SE) = <<>>
  BY TemplateArgs, SELinuxNames, EmptySeq, MatchingEmpty
<1>3. {"root"} \in SUBSET STRING /\ SE \in SUBSET STRING /\ {"root"} \intersect SE = {}
  BY SELinuxNames
<1>4. CASE boot = "bls"
  <2> DEFINE removed == (IF t = "full-os" THEN {"root"} ELSE {}) \union (IF disable THEN SE ELSE {})
             added == (LiveArgs(t) \o off) \o extra
             line == Without(e.args, removed) \o added
  <2>1. LiveOSEntry(boot, e, t, disable, extra) = Entry(IF t = "full-os" THEN "shared" ELSE e.initrd, line)
    BY <1>4 DEF LiveOSEntry, updateLiveOSBLSEntries, updateBLSEntryOptions
  <2>2. added \in Seq(Args)
    BY <1>2, ConcatProperties
  <2>3. ASSUME NEW names PROVE M(added, names) = (M(LiveArgs(t), names) \o M(off, names)) \o M(extra, names)
    <3> DEFINE base == LiveArgs(t)
               sum == (base \o off) \o extra
    <3>1. base \in Seq(Args) /\ off \in Seq(Args)
      BY <1>2
    <3>2. \A x, y, z \in Seq(Args) : /\ M(x \o y, names) = M(x, names) \o M(y, names)
                                     /\ M((x \o y) \o z, names) = (M(x, names) \o M(y, names)) \o M(z, names)
      BY MatchingParts
    <3>3. base \o off \in Seq(Args)
      BY <3>1, ConcatProperties
    <3> HIDE DEF base, off, M
    <3>4. M(base \o off, names) = M(base, names) \o M(off, names)
      BY <3>1, <3>2
    <3>5. M(sum, names) = M(base \o off, names) \o M(extra, names)
      BY <3>2, <3>3
    <3>6. QED
      BY <3>4, <3>5, Zenon DEF base
  <2>4. M(extra, {"root"}) = <<>> => M(added, {"root"}) = <<>>
    BY <1>2, <2>3, EmptySeq, ConcatEmptySeq
  <2>5. M(extra, SE) = <<>> => M(added, SE) = off
    <3>1. (<<>> \o off) \o <<>> = off
      BY <1>2, EmptySides
    <3>2. QED
      BY <1>2, <2>3, <3>1
  <2>6. \A a : HasArg(extra, a) => HasArg(added, a)
    <3>1. LiveArgs(t) \o off \in Seq(Args)
      BY <1>2, ConcatProperties
    <3>2. QED
      BY <3>1, HasConcat
  <2> HIDE DEF added
  <2>7. line \in Seq(Args)
    BY <1>1, <1>3, <2>2, MatchingReplaced
  <2>8. t = "full-os" /\ M(extra, {"root"}) = <<>> => M(line, {"root"}) = <<>>
    <3>1. t = "full-os" => {"root"} \subseteq removed
      OBVIOUS
    <3> HIDE DEF removed
    <3>2. {"root"} \subseteq removed => M(line, {"root"}) = M(added, {"root"})
      BY <1>1, <1>3, <2>2, MatchingReplaced
    <3>3. QED
      BY <2>4, <3>1, <3>2
  <2>9. M(extra, SE) = <<>> => M(line, SE) = IF disable THEN selinuxModeToArgs("disabled") ELSE M(e.args, SE)
    <3>1. CASE disable
      <4>1. SE \subseteq removed
        BY <3>1
      <4> HIDE DEF removed
      <4>2. M(line, SE) = M(added, SE)
        BY <1>1, <1>3, <2>2, <4>1, MatchingReplaced
      <4>3. QED
        BY <2>5, <3>1, <4>2
    <3>2. CASE ~disable
      <4>1. SE \intersect removed = {}
        BY <1>3, <3>2
      <4> HIDE DEF removed
      <4>2. M(added, SE) = <<>> => M(line, SE) = M(e.args, SE)
        BY <1>1, <1>3, <2>2, <4>1, MatchingReplaced
      <4>3. QED
        BY <2>5, <3>2, <4>2
    <3>3. QED
      BY <3>1, <3>2
  <2>10. \A a : HasArg(extra, a) => HasArg(line, a)
    BY <1>1, <2>2, <2>6, HasReplaced
  <2> HIDE DEF line, M
  <2> DEFINE new == LiveOSEntry(boot, e, t, disable, extra)
             initrd == IF t = "full-os" THEN "shared" ELSE e.initrd
  <2>11. initrd \in STRING /\ (t = "full-os" => initrd = "shared")
    BY <1>1, StringLiterals
  <2>12. new = [initrd |-> initrd, args |-> line]
    BY <2>1 DEF Entry
  <2> HIDE DEF new, initrd
  <2>13. new \in [initrd : STRING, args : Seq(Args)] /\ new.initrd = initrd /\ new.args = line
    BY <2>7, <2>11, <2>12
  <2>14. QED
    BY <2>8, <2>9, <2>10, <2>11, <2>13 DEF M, new, LiveEdited, Entries
<1>5. CASE boot # "bls"
  <2> DEFINE rooted == IF t = "full-os" THEN updateKernelCommandLineArgsHelper(e.args, {"root"}, <<>>) ELSE e.args
             selinux == IF disable THEN updateSELinuxCommandLineHelperAll(rooted, "disabled") ELSE rooted
             added == LiveArgs(t) \o extra
             line == appendKernelCommandLineArgs(selinux, added)
  <2>1. LiveOSEntry(boot, e, t, disable, extra) = Entry(InitrdPath(boot, e, t), line)
    BY <1>5 DEF LiveOSEntry, updateGrubCfgForLiveOS
  <2>2. InitrdPath(boot, e, t) \in STRING /\ (t = "full-os" => InitrdPath(boot, e, t) = "shared")
    BY <1>1, StringLiterals DEF InitrdPath
  <2>3. rooted \in Seq(Args) /\ (t = "full-os" => M(rooted, {"root"}) = <<>>) /\ M(rooted, SE) = M(e.args, SE)
    <3>1. CASE t = "full-os"
      <4>1. /\ updateKernelCommandLineArgsHelper(e.args, {"root"}, <<>>) \in Seq(Args)
            /\ M(updateKernelCommandLineArgsHelper(e.args, {"root"}, <<>>), {"root"}) = <<>>
            /\ M(updateKernelCommandLineArgsHelper(e.args, {"root"}, <<>>), SE) = M(e.args, SE)
        BY <1>1, RootDropped
      <4> HIDE DEF M
      <4>2. QED
        BY <3>1, <4>1
    <3>2. QED
      BY <1>1, <3>1
  <2> HIDE DEF rooted
  <2>4. selinux \in Seq(Args)
        /\ M(selinux, {"root"}) = M(rooted, {"root"})
        /\ M(selinux, SE) = IF disable THEN selinuxModeToArgs("disabled") ELSE M(rooted, SE)
    <3>1. CASE disable
      <4>1. selinux = updateKernelCommandLineArgsHelper(rooted, SE, off)
        BY <3>1 DEF updateSELinuxCommandLineHelperAll
      <4> HIDE DEF selinux, off
      <4>2. updateKernelCommandLineArgsHelper(rooted, SE, off) \in Seq(Args)
        BY <1>2, <2>3, UpdateSeq
      <4>3. M(updateKernelCommandLineArgsHelper(rooted, SE, off), {"root"}) = M(rooted, {"root"})
        <5>1. Untouched({"root"}, SE, off)
          BY <1>2, <1>3, Zenon DEF Untouched
        <5>2. QED
          BY <1>2, <2>3, <5>1, MatchingUntouched
      <4>4. M(updateKernelCommandLineArgsHelper(rooted, SE, off), SE) = M(off, SE)
        BY <1>2, <2>3, MatchingUpdated
      <4>5. off = selinuxModeToArgs("disabled")
        BY <3>1 DEF off
      <4> HIDE DEF M
      <4>6. QED
        BY <1>2, <3>1, <4>1, <4>2, <4>3, <4>4, <4>5
    <3>2. QED
      BY <2>3, <3>1
  <2> HIDE DEF selinux
  <2>5. added \in Seq(Args)
    BY <1>2, ConcatProperties
  <2>6. ASSUME NEW names PROVE M(added, names) = M(LiveArgs(t), names) \o M(extra, names)
    BY <1>2, ConcatArgs
  <2>7. (M(extra, {"root"}) = <<>> => M(added, {"root"}) = <<>>) /\ (M(extra, SE) = <<>> => M(added, SE) = <<>>)
    <3>1. <<>> \o <<>> = <<>>
      BY EmptySeq, ConcatEmptySeq
    <3>2. QED
      BY <1>2, <2>6, <3>1
  <2>8. \A a : HasArg(extra, a) => HasArg(added, a)
    BY <1>2, HasConcat
  <2> HIDE DEF added
  <2>9. line \in Seq(Args)
    BY <2>4, <2>5, InsertSeq
  <2>10. t = "full-os" /\ M(extra, {"root"}) = <<>> => M(line, {"root"}) = <<>>
    BY <2>3, <2>4, <2>5, <2>7, MatchingInsert
  <2>11. M(extra, SE) = <<>> => M(line, SE) = IF disable THEN selinuxModeToArgs("disabled") ELSE M(e.args, SE)
    BY <2>3, <2>4, <2>5, <2>7, MatchingInsert
  <2>12. \A a : HasArg(extra, a) => HasArg(line, a)
    BY <2>4, <2>5, <2>8, HasInsert
  <2> HIDE DEF line, M
  <2> DEFINE new == LiveOSEntry(boot, e, t, disable, extra)
             initrd == InitrdPath(boot, e, t)
  <2>13. new = [initrd |-> initrd, args |-> line]
    BY <2>1 DEF Entry
  <2> HIDE DEF new, initrd
  <2>14. new \in [initrd : STRING, args : Seq(Args)] /\ new.initrd = initrd /\ new.args = line
    BY <2>2, <2>9, <2>13 DEF initrd
  <2>15. QED
    BY <2>2, <2>10, <2>11, <2>12, <2>14 DEF M, new, initrd, LiveEdited, Entries
<1>6. QED
  BY <1>4, <1>5

\* root= is the given value, all else that is not root= is kept, and so are the SELinux
\* arguments.
RootSet(line, new, root) ==
    /\ new \in Seq(Args)
    /\ findKernelCommandLineArgValue(new, "root") = root
    /\ \A a : HasArg(line, a) /\ a.name # "root" => HasArg(new, a)
    /\ findMatchingCommandLineArgs(new, selinuxArgNames) = findMatchingCommandLineArgs(line, selinuxArgNames)

\* The new root= argument is typed, and found as root= only.
LEMMA RootArg ==
    ASSUME NEW root \in STRING
    PROVE  /\ <<Arg("root", root)>> \in Seq(Args)
           /\ findMatchingCommandLineArgs(<<Arg("root", root)>>, {"root"}) = <<Arg("root", root)>>
           /\ findMatchingCommandLineArgs(<<Arg("root", root)>>, selinuxArgNames) = <<>>
<1>1. Arg("root", root) \in Args /\ <<Arg("root", root)>> \in Seq(Args) /\ Arg("root", root).name = "root"
  BY ArgsOf, StringLiterals
<1>2. \A names : findMatchingCommandLineArgs(<<Arg("root", root)>>, names) =
                     IF Arg("root", root).name \in names THEN <<Arg("root", root)>> ELSE <<>>
  BY <1>1, MatchingOne
<1>3. QED
  BY <1>1, <1>2, SELinuxNames

\* root= of an entry of the Boot Loader Specification is replaced.
LEMMA RootSetBls ==
    ASSUME NEW line \in Seq(Args), NEW root \in STRING, NEW extra \in Seq(Args),
           findMatchingCommandLineArgs(extra, {"root"}) = <<>>,
           findMatchingCommandLineArgs(extra, selinuxArgNames) = <<>>
    PROVE  RootSet(line, updateBLSEntryOptions(line, {"root"}, <<Arg("root", root)>> \o extra), root)
<1> DEFINE arg == <<Arg("root", root)>>
           added == arg \o extra
           new == Without(line, {"root"}) \o added
<1>1. /\ arg \in Seq(Args) /\ findMatchingCommandLineArgs(arg, {"root"}) = arg
      /\ findMatchingCommandLineArgs(arg, selinuxArgNames) = <<>>
  BY RootArg
<1>2. updateBLSEntryOptions(line, {"root"}, added) = new
  BY DEF updateBLSEntryOptions
<1>3. {"root"} \in SUBSET STRING /\ {"root"} \subseteq {"root"} /\ selinuxArgNames \in SUBSET STRING
      /\ selinuxArgNames \intersect {"root"} = {}
  BY SELinuxNames
<1>4. findMatchingCommandLineArgs(added, {"root"}) = arg
  <2> HIDE DEF arg
  <2>1. findMatchingCommandLineArgs(added, {"root"}) =
            findMatchingCommandLineArgs(arg, {"root"}) \o findMatchingCommandLineArgs(extra, {"root"})
    BY <1>1, ConcatArgs
  <2>2. findMatchingCommandLineArgs(arg, {"root"}) \o findMatchingCommandLineArgs(extra, {"root"}) = arg
    BY <1>1, ConcatEmptySeq
  <2> HIDE DEF added
  <2>3. QED
    BY <2>1, <2>2
<1>5. findMatchingCommandLineArgs(added, selinuxArgNames) = <<>>
  <2> HIDE DEF arg
  <2>1. findMatchingCommandLineArgs(added, selinuxArgNames) = <<>> \o <<>>
    BY <1>1, ConcatArgs
  <2>2. QED
    BY <2>1, EmptySeq, ConcatEmptySeq
<1>6. added \in Seq(Args)
  BY <1>1, ConcatProperties
<1> HIDE DEF added
<1>7. new \in Seq(Args) /\ findMatchingCommandLineArgs(new, {"root"}) = findMatchingCommandLineArgs(added, {"root"})
  BY <1>3, <1>6, MatchingReplaced
<1>8. findMatchingCommandLineArgs(new, selinuxArgNames) = findMatchingCommandLineArgs(line, selinuxArgNames)
  BY <1>3, <1>5, <1>6, MatchingReplaced
<1>9. \A a : HasArg(line, a) /\ a.name # "root" => HasArg(new, a)
  BY <1>6, HasReplaced
<1> HIDE DEF new
<1>10. findKernelCommandLineArgValue(new, "root") = root
  BY <1>4, <1>7, FindOne DEF arg
<1>11. RootSet(line, new, root)
  BY <1>7, <1>8, <1>9, <1>10 DEF RootSet
<1>12. QED
  BY <1>2, <1>11 DEF added

\* root= of a grub.cfg entry is replaced.
LEMMA RootSetGrub ==
    ASSUME NEW line \in Seq(Args), NEW root \in STRING
    PROVE  RootSet(line, updateKernelCommandLineArgsHelper(line, {"root"}, <<Arg("root", root)>>), root)
<1> DEFINE arg == <<Arg("root", root)>>
           new == updateKernelCommandLineArgsHelper(line, {"root"}, arg)
<1>1. /\ arg \in Seq(Args) /\ findMatchingCommandLineArgs(arg, {"root"}) = arg
      /\ findMatchingCommandLineArgs(arg, selinuxArgNames) = <<>>
  BY RootArg
<1>2. {"root"} \subseteq {"root"} /\ selinuxArgNames \in SUBSET STRING /\ selinuxArgNames \intersect {"root"} = {}
  BY SELinuxNames
<1> HIDE DEF arg
<1>3. new \in Seq(Args)
  BY <1>1, UpdateSeq
<1>4. findMatchingCommandLineArgs(new, {"root"}) = arg
  BY <1>1, <1>2, MatchingUpdated
<1>5. findMatchingCommandLineArgs(new, selinuxArgNames) = findMatchingCommandLineArgs(line, selinuxArgNames)
  <2>1. Untouched(selinuxArgNames, {"root"}, arg)
    BY <1>1, <1>2, Zenon DEF Untouched
  <2>2. QED
    BY <1>1, <2>1, MatchingUntouched
<1>6. \A a : HasArg(line, a) /\ a.name # "root" => HasArg(new, a)
  BY <1>1, HasUpdate
<1> HIDE DEF new
<1>7. findKernelCommandLineArgValue(new, "root") = root
  BY <1>4, FindOne DEF arg
<1>8. RootSet(line, new, root)
  BY <1>3, <1>5, <1>6, <1>7 DEF RootSet
<1>9. QED
  BY <1>8 DEF new, arg

\* Replacing the value of every root= leaves as many as there were.
LEMMA RootReplaced ==
    ASSUME NEW line \in Seq(Args), NEW root \in STRING
    PROVE  LET new == replaceKernelCommandLineArgValueAll(line, "root", root) IN
           /\ new \in Seq(Args)
           /\ findMatchingCommandLineArgs(new, {"root"}) \in Seq({Arg("root", root)})
           /\ Len(findMatchingCommandLineArgs(new, {"root"})) = Len(findMatchingCommandLineArgs(line, {"root"}))
           /\ findMatchingCommandLineArgs(new, selinuxArgNames) = findMatchingCommandLineArgs(line, selinuxArgNames)
<1> DEFINE R(s) == replaceKernelCommandLineArgValueAll(s, "root", root)
           M(s) == findMatchingCommandLineArgs(s, {"root"})
           SE(s) == findMatchingCommandLineArgs(s, selinuxArgNames)
           arg == Arg("root", root)
           T == {s \in Seq(Args) : R(s) \in Seq(Args) /\ M(R(s)) \in Seq({arg}) /\ Len(M(R(s))) = Len(M(s)) /\ SE(R(s)) = SE(s)}
<1>1. arg \in Args /\ arg.name = "root"
  BY ArgsOf, StringLiterals
<1>2. <<>> \in T
  <2>1. R(<<>>) = <<>>
    BY DEF replaceKernelCommandLineArgValueAll
  <2>2. M(<<>>) = <<>> /\ SE(<<>>) = <<>>
    BY MatchingEmpty
  <2> HIDE DEF R, M, SE
  <2>3. QED
    BY <2>1, <2>2, EmptySeq
<1>3. ASSUME NEW s \in Seq(Args), NEW a \in Args, s \in T PROVE Append(s, a) \in T
  <2> DEFINE b == IF a.name = "root" THEN arg ELSE a
  <2>1. b \in Args /\ (a.name = "root" <=> b.name = "root") /\ (b.name = "root" => b = arg) /\ (b.name # "root" => b = a)
    BY <1>1
  <2>2. R(Append(s, a)) = Append(R(s), b)
    <3>1. DOMAIN s = 1..Len(s) /\ Len(s) \in Nat /\ DOMAIN Append(s, a) = 1..(Len(s) + 1) /\ Append(s, a)[Len(s) + 1] = a
          /\ \A i \in 1..Len(s) : Append(s, a)[i] = s[i]
      BY LenProperties, AppendProperties
    <3>2. R(s) \in Seq(Args)
      BY <1>3
    <3>3. DOMAIN R(s) = 1..Len(s) /\ \A i \in 1..Len(s) : R(s)[i] = IF s[i].name = "root" THEN arg ELSE s[i]
      BY <3>1 DEF replaceKernelCommandLineArgValueAll
    <3>4. /\ DOMAIN R(Append(s, a)) = 1..(Len(s) + 1)
          /\ \A i \in 1..(Len(s) + 1) : R(Append(s, a))[i] = IF Append(s, a)[i].name = "root" THEN arg ELSE Append(s, a)[i]
          /\ R(Append(s, a)) = [i \in DOMAIN R(Append(s, a)) |-> R(Append(s, a))[i]]
      BY <3>1 DEF replaceKernelCommandLineArgValueAll
    <3> HIDE DEF R, b
    <3>5. Len(R(s)) = Len(s)
      BY <3>1, <3>2, <3>3, LenProperties
    <3>6. /\ DOMAIN Append(R(s), b) = 1..(Len(s) + 1) /\ Append(R(s), b)[Len(s) + 1] = b
          /\ \A i \in 1..Len(s) : Append(R(s), b)[i] = R(s)[i]
          /\ Append(R(s), b) \in Seq(Args)
      BY <2>1, <3>1, <3>2, <3>5, AppendProperties, LenProperties
    <3>7. \A i \in 1..(Len(s) + 1) : R(Append(s, a))[i] = Append(R(s), b)[i]
      <4>1. TAKE i \in 1..(Len(s) + 1)
      <4>2. CASE i = Len(s) + 1
        BY <3>1, <3>4, <3>6, <4>2 DEF b
      <4>3. CASE i # Len(s) + 1
        <5>1. i \in 1..Len(s)
          BY <3>1, <4>3
        <5>2. QED
          BY <3>1, <3>3, <3>4, <3>6, <5>1
      <4>4. QED
        BY <4>2, <4>3
    <3>8. Append(R(s), b) = [i \in DOMAIN Append(R(s), b) |-> Append(R(s), b)[i]]
      <4> DEFINE t == Append(R(s), b)
      <4>1. t \in Seq(Args)
        BY <3>6
      <4> HIDE DEF t
      <4>2. t \in [1..Len(t) -> Args]
        BY <4>1, LenProperties
      <4>3. t = [i \in DOMAIN t |-> t[i]]
        BY <4>2
      <4>4. QED
        BY <4>3 DEF t
    <3>9. QED
      BY <3>4, <3>6, <3>7, <3>8
  <2>3. R(s) \in Seq(Args) /\ M(R(s)) \in Seq({arg}) /\ Len(M(R(s))) = Len(M(s)) /\ SE(R(s)) = SE(s)
    BY <1>3
  <2>4. /\ M(Append(s, a)) = IF a.name \in {"root"} THEN Append(M(s), a) ELSE M(s)
        /\ SE(Append(s, a)) = IF a.name \in selinuxArgNames THEN Append(SE(s), a) ELSE SE(s)
    BY MatchingAppend
  <2> HIDE DEF R, b
  <2>5. /\ M(Append(R(s), b)) = IF b.name \in {"root"} THEN Append(M(R(s)), b) ELSE M(R(s))
        /\ SE(Append(R(s), b)) = IF b.name \in selinuxArgNames THEN Append(SE(R(s)), b) ELSE SE(R(s))
    BY <2>1, <2>3, MatchingAppend
  <2>6. Append(s, a) \in Seq(Args) /\ Append(R(s), b) \in Seq(Args) /\ M(s) \in Seq(Args)
    BY <2>1, <2>3, AppendProperties, MatchingSeq
  <2> HIDE DEF M, SE, arg
  <2>7. CASE a.name = "root"
    <3>1. b = arg /\ Append(M(R(s)), b) \in Seq({arg}) /\ Len(Append(M(R(s)), b)) = Len(M(R(s))) + 1
          /\ Len(Append(M(s), a)) = Len(M(s)) + 1
      BY <2>1, <2>3, <2>6, <2>7, AppendProperties
    <3>2. SE(Append(s, a)) = SE(Append(R(s), b))
      BY <2>1, <2>3, <2>4, <2>5, <2>7, SELinuxNames
    <3>3. QED
      BY <2>1, <2>2, <2>3, <2>4, <2>5, <2>6, <2>7, <3>1, <3>2
  <2>8. CASE a.name # "root"
    <3>1. M(Append(s, a)) = M(s) /\ M(Append(R(s), b)) = M(R(s)) /\ SE(Append(s, a)) = SE(Append(R(s), b))
      BY <2>1, <2>3, <2>4, <2>5, <2>8
    <3>2. QED
      BY <2>2, <2>3, <2>6, <3>1
  <2>9. QED
    BY <2>7, <2>8
<1>4. Seq(Args) \subseteq T
  <2> HIDE DEF T
  <2>1. QED
    BY <1>2, <1>3, SeqSet
<1>5. QED
  BY <1>4

\* replaceKernelCommandLineArgValueAll, and the arguments of a PXE entry.
LEMMA RootSetPxe ==
    ASSUME NEW line \in Seq(Args), NEW root \in STRING, CanReplaceRoot(line)
    PROVE  RootSet(line, appendKernelCommandLineArgs(replaceKernelCommandLineArgValueAll(line, "root", root),
                                                     pxeBootstrapKernelsArgs), root)
<1> DEFINE replaced == replaceKernelCommandLineArgValueAll(line, "root", root)
           extra == pxeBootstrapKernelsArgs
           new == appendKernelCommandLineArgs(replaced, extra)
           arg == Arg("root", root)
           found == findMatchingCommandLineArgs(new, {"root"})
<1>1. /\ replaced \in Seq(Args)
      /\ findMatchingCommandLineArgs(replaced, {"root"}) \in Seq({arg})
      /\ Len(findMatchingCommandLineArgs(replaced, {"root"})) = Len(findMatchingCommandLineArgs(line, {"root"}))
      /\ findMatchingCommandLineArgs(replaced, selinuxArgNames) = findMatchingCommandLineArgs(line, selinuxArgNames)
  BY RootReplaced
<1>2. /\ extra \in Seq(Args) /\ findMatchingCommandLineArgs(extra, {"root"}) = <<>>
      /\ findMatchingCommandLineArgs(extra, selinuxArgNames) = <<>>
  BY TemplateArgs, SELinuxNames
<1>3. \A a : HasArg(line, a) /\ a.name # "root" => HasArg(replaced, a)
  <2>1. SUFFICES ASSUME NEW i \in 1..Len(line), line[i].name # "root" PROVE HasArg(replaced, line[i])
    BY DEF HasArg
  <2>2. Len(line) \in Nat /\ DOMAIN line = 1..Len(line)
    BY LenProperties
  <2>3. DOMAIN replaced = 1..Len(line) /\ replaced[i] = line[i]
    BY <2>1, <2>2 DEF replaceKernelCommandLineArgValueAll
  <2> HIDE DEF replaced
  <2>4. DOMAIN replaced = 1..Len(replaced)
    BY <1>1, LenProperties
  <2>5. QED
    BY <2>3, <2>4 DEF HasArg
<1> HIDE DEF replaced, extra
<1>4. new \in Seq(Args)
  BY <1>1, <1>2, InsertSeq
<1>5. \A a : HasArg(line, a) /\ a.name # "root" => HasArg(new, a)
  BY <1>1, <1>2, <1>3, HasInsert
<1>6. findMatchingCommandLineArgs(new, selinuxArgNames) = findMatchingCommandLineArgs(line, selinuxArgNames)
  BY <1>1, <1>2, MatchingInsert
<1>7. found = findMatchingCommandLineArgs(replaced, {"root"})
  BY <1>1, <1>2, MatchingInsert
<1>8. found \in Seq({arg}) /\ Len(found) = 1
  BY <1>1, <1>7 DEF CanReplaceRoot
<1> HIDE DEF new, found, arg
<1>9. found # <<>> /\ found[1] = arg
  BY <1>8, EmptySeq, ElementOfSeq
<1>10. findKernelCommandLineArgValue(new, "root") = root
  BY <1>8, <1>9 DEF findKernelCommandLineArgValue, found, arg, Arg
<1>11. RootSet(line, new, root)
  BY <1>4, <1>5, <1>6, <1>10 DEF RootSet
<1>12. QED
  BY <1>11 DEF new, replaced, extra

\* What the entries of an ISO, of PXE artifacts and of finished PXE artifacts are.
LEMMA IsoEntry ==
    ASSUME NEW boot, NEW e \in Entries, NEW t
    PROVE  LET new == updateGrubCfgForIso(boot, e, t) IN
           IF t = "full-os" THEN new = e
           ELSE new \in Entries /\ new.initrd = e.initrd /\ RootSet(e.args, new.args, "live")
<1>1. e.args \in Seq(Args) /\ e.initrd \in STRING /\ DOMAIN e = {"initrd", "args"}
  BY DEF Entries
<1> DEFINE none == <<>>
           bls == updateBLSEntryOptions(e.args, {"root"}, <<Arg("root", "live")>> \o none)
           grub == updateKernelCommandLineArgsHelper(e.args, {"root"}, <<Arg("root", "live")>>)
<1>2. none \in Seq(Args) /\ findMatchingCommandLineArgs(none, {"root"}) = <<>>
      /\ findMatchingCommandLineArgs(none, selinuxArgNames) = <<>>
  BY EmptySeq, MatchingEmpty
<1>3. RootSet(e.args, bls, "live")
  <2> HIDE DEF none
  <2>1. "live" \in STRING
    BY StringLiterals
  <2>2. QED
    BY <1>1, <1>2, <2>1, RootSetBls
<1>4. RootSet(e.args, grub, "live")
  BY <1>1, RootSetGrub, StringLiterals
<1> DEFINE new == updateGrubCfgForIso(boot, e, t)
<1>5. CASE t = "full-os"
  BY <1>5 DEF updateGrubCfgForIso
<1>6. CASE t # "full-os" /\ boot = "bls"
  <2>1. new = [e EXCEPT !.args = bls]
    BY <1>6 DEF updateGrubCfgForIso, setLiveOSBLSEntriesRoot
  <2> HIDE DEF bls, new
  <2>2. new.args = bls /\ new.initrd = e.initrd /\ new \in Entries
    BY <1>1, <1>3, <2>1 DEF Entries, RootSet
  <2>3. QED
    BY <1>3, <1>6, <2>2 DEF new
<1>7. CASE t # "full-os" /\ boot # "bls"
  <2>1. new = [e EXCEPT !.args = grub]
    BY <1>7 DEF updateGrubCfgForIso
  <2> HIDE DEF grub, new
  <2>2. new.args = grub /\ new.initrd = e.initrd /\ new \in Entries
    BY <1>1, <1>4, <2>1 DEF Entries, RootSet
  <2>3. QED
    BY <1>4, <1>7, <2>2 DEF new
<1>8. QED
  BY <1>5, <1>6, <1>7

\* The file to download has a name.
LEMMA PxeUrl ==
    ASSUME NEW url, url.file \in STRING
    PROVE  getPxeBootstrapFileUrl(url) \in STRING
BY StringLiterals DEF getPxeBootstrapFileUrl

\* updateGrubCfgForPxe replaces root= of the entries of a bootstrap image.
LEMMA PxeEntry ==
    ASSUME NEW e \in Entries, NEW t, NEW url, url.file \in STRING, t # "full-os" => CanReplaceRoot(e.args)
    PROVE  LET new == updateGrubCfgForPxe(e, t, url) IN
           IF t = "full-os" THEN new = e
           ELSE new \in Entries /\ new.initrd = e.initrd /\ RootSet(e.args, new.args, getPxeBootstrapFileUrl(url))
<1>1. e.args \in Seq(Args) /\ e.initrd \in STRING /\ DOMAIN e = {"initrd", "args"}
  BY DEF Entries
<1> DEFINE root == getPxeBootstrapFileUrl(url)
           line == appendKernelCommandLineArgs(replaceKernelCommandLineArgValueAll(e.args, "root", root),
                                               pxeBootstrapKernelsArgs)
           new == updateGrubCfgForPxe(e, t, url)
<1>2. CASE t = "full-os"
  BY <1>2 DEF updateGrubCfgForPxe
<1>3. CASE t # "full-os"
  <2>1. RootSet(e.args, line, root)
    BY <1>1, <1>3, PxeUrl, RootSetPxe
  <2>2. new = [e EXCEPT !.args = line]
    BY <1>3 DEF updateGrubCfgForPxe
  <2> HIDE DEF line, new, root
  <2>3. new.args = line /\ new.initrd = e.initrd /\ new \in Entries
    BY <1>1, <2>1, <2>2 DEF Entries, RootSet
  <2>4. QED
    BY <1>3, <2>1, <2>3 DEF new, root
<1>4. QED
  BY <1>2, <1>3

\* finalizeLiveOSPxeBLSEntries replaces root= of the entries of a bootstrap image.
LEMMA FinalEntry ==
    ASSUME NEW e \in Entries, NEW t, NEW url, url.file \in STRING
    PROVE  LET new == finalizeLiveOSPxeBLSEntries(e, t, url) IN
           IF t = "full-os" THEN new = e
           ELSE new \in Entries /\ new.initrd = e.initrd /\ RootSet(e.args, new.args, getPxeBootstrapFileUrl(url))
<1>1. e.args \in Seq(Args) /\ e.initrd \in STRING /\ DOMAIN e = {"initrd", "args"}
  BY DEF Entries
<1> DEFINE root == getPxeBootstrapFileUrl(url)
           line == updateBLSEntryOptions(e.args, {"root"}, <<Arg("root", root)>> \o pxeBootstrapKernelsArgs)
           new == finalizeLiveOSPxeBLSEntries(e, t, url)
<1>2. CASE t = "full-os"
  BY <1>2 DEF finalizeLiveOSPxeBLSEntries
<1>3. CASE t # "full-os"
  <2>1. /\ pxeBootstrapKernelsArgs \in Seq(Args)
        /\ findMatchingCommandLineArgs(pxeBootstrapKernelsArgs, {"root"}) = <<>>
        /\ findMatchingCommandLineArgs(pxeBootstrapKernelsArgs, selinuxArgNames) = <<>>
    BY TemplateArgs, SELinuxNames
  <2>2. RootSet(e.args, line, root)
    BY <1>1, <2>1, PxeUrl, RootSetBls
  <2>3. new = [e EXCEPT !.args = line]
    BY <1>3 DEF finalizeLiveOSPxeBLSEntries, setLiveOSBLSEntriesRoot
  <2> HIDE DEF line, new, root
  <2>4. new.args = line /\ new.initrd = e.initrd /\ new \in Entries
    BY <1>1, <2>2, <2>3 DEF Entries, RootSet
  <2>5. QED
    BY <1>3, <2>2, <2>4 DEF new, root
<1>4. QED
  BY <1>2, <1>3

-----------------------------------------------------------------------------
(* Configurations.                                                          *)

\* mergeKernelCommandLine stays in a set that the arguments of every file stay in.
LEMMA MergedIn ==
    ASSUME NEW chain, Len(chain) \in Nat, NEW T, <<>> \in T,
           \A i \in 1..Len(chain), s \in T : s \o chain[i].extra \in T
    PROVE  mergeKernelCommandLine(chain) \in T
<1> DEFINE n == Len(chain)
           step == [i \in 1..n |-> [s \in T |-> s \o chain[i].extra]]
           Merged(f) == f = [i \in 0..n |-> IF i = 0 THEN <<>> ELSE f[i - 1] \o chain[i].extra]
<1>1. \E f : Merged(f)
  <2>1. \A i \in 1..n, s \in T : step[i][s] = s \o chain[i].extra /\ step[i][s] \in T
    OBVIOUS
  <2> DEFINE none == <<>>
  <2>2. none \in T /\ n \in Nat
    OBVIOUS
  <2> HIDE DEF step, none, n
  <2>3. PICK f : StepByStep(f, T, none, step, n)
    <3>1. none \in T /\ n \in Nat /\ \A i \in 1..n, s \in T : step[i][s] \in T
      BY <2>1, <2>2
    <3>2. QED
      BY <3>1, RecursionExists
  <2>4. \A i \in 1..n : f[i] = f[i - 1] \o chain[i].extra
    <3>1. TAKE i \in 1..n
    <3>2. f[i - 1] \in T
      BY <2>2, <2>3 DEF StepByStep
    <3>3. QED
      BY <2>1, <2>3, <3>2 DEF StepByStep
  <2>5. f = [i \in 0..n |-> IF i = 0 THEN none ELSE f[i - 1] \o chain[i].extra]
    <3>1. \A i \in 0..n : f[i] = IF i = 0 THEN none ELSE f[i - 1] \o chain[i].extra
      <4>1. TAKE i \in 0..n
      <4>2. CASE i = 0
        BY <2>3, <4>2 DEF StepByStep
      <4>3. CASE i # 0
        <5>1. i \in 1..n
          BY <2>2, <4>3
        <5>2. QED
          BY <2>4, <4>3, <5>1
      <4>4. QED
        BY <4>2, <4>3
    <3>2. f = [i \in 0..n |-> f[i]]
      BY <2>3 DEF StepByStep
    <3>3. QED
      BY <3>1, <3>2, Zenon
  <2>6. QED
    BY <2>5 DEF none
<1>2. \E f : Merged(f) /\ mergeKernelCommandLine(chain) = f[n]
  BY <1>1, Zenon DEF mergeKernelCommandLine
<1>3. PICK f : Merged(f) /\ mergeKernelCommandLine(chain) = f[n]
  BY <1>2
<1> DEFINE Good == {m \in Nat : m <= n => f[m] \in T}
<1>4. 0 \in Good
  BY <1>3
<1>5. ASSUME NEW m \in Nat, m \in Good PROVE m + 1 \in Good
  <2>1. SUFFICES ASSUME m + 1 <= n PROVE f[m + 1] \in T
    OBVIOUS
  <2>2. f[m] \in T /\ m + 1 \in 1..n /\ m + 1 \in 0..n /\ m + 1 # 0 /\ (m + 1) - 1 = m
    BY <1>5, <2>1
  <2>3. f[m + 1] = f[m] \o chain[m + 1].extra
    BY <1>3, <2>2
  <2>4. QED
    BY <2>2, <2>3
<1>6. Nat \subseteq Good
  <2> HIDE DEF Good
  <2>1. QED
    BY <1>4, <1>5, NatSet
<1>7. n \in Good
  <2> HIDE DEF Good
  <2>1. QED
    BY <1>6
<1>8. QED
  BY <1>3, <1>7

\* No file of a chain of a request has an argument of the names.
ExtrasLeave(names) ==
    \A r \in Requests : \A i \in DOMAIN r.chain : \A j \in DOMAIN r.chain[i].extra : r.chain[i].extra[j].name \notin names

Urls == [base : STRING, file : STRING]

\* The configurations of a run.
ConfigOK(c) ==
    /\ c.out \in {"iso", "pxe"} /\ c.os \in BOOLEAN /\ c.selinux \in SELinuxModes \union {""}
    /\ c.extra \in Seq(Args)
    /\ c.type \in InitramfsTypes \union {""}
    /\ c.kdump \in {"", "keep", "none"}
    /\ c.url \in Urls

\* The resolved value of a setting is one that a file has, or the unset one.
LEMMA LastSetIn ==
    ASSUME NEW chain, Len(chain) \in Nat, NEW field, NEW unset, NEW V, unset \in V,
           \A i \in 1..Len(chain) : chain[i][field] \in V
    PROVE  LastSet(chain, field, unset) \in V
<1> DEFINE set == {i \in 1..Len(chain) : chain[i][field] # unset}
<1>1. CASE set = {}
  BY <1>1 DEF LastSet
<1>2. CASE set # {}
  <2>1. LastOf(set) \in set
    BY <1>2, LastOfSet
  <2>2. LastSet(chain, field, unset) = chain[LastOf(set)][field]
    BY <1>2 DEF LastSet, LastOf
  <2>3. QED
    BY <2>1, <2>2
<1>3. QED
  BY <1>1, <1>2

\* Every configuration is resolved from a request.
LEMMA ConfigShape ==
    ASSUME NEW c \in Configs
    PROVE  \E r \in Requests :
              /\ c = resolvePxeConfig(r)
              /\ r.out \in {"iso", "pxe"} /\ r.os \in BOOLEAN /\ r.selinux \in SELinuxModes \union {""}
              /\ r.chain \in Seq(Sections)
BY LiveOsAssumption DEF Configs

\* Every resolved configuration has values of its schema.
LEMMA ConfigsOK ==
    ASSUME NEW c \in Configs
    PROVE  ConfigOK(c)
<1>1. PICK r \in Requests :
              /\ c = resolvePxeConfig(r)
              /\ r.out \in {"iso", "pxe"} /\ r.os \in BOOLEAN /\ r.selinux \in SELinuxModes \union {""}
              /\ r.chain \in Seq(Sections)
  BY ConfigShape
<1> DEFINE chain == r.chain
           urls == [i \in DOMAIN chain |-> chain[i].url]
<1>2. /\ Len(chain) \in Nat /\ DOMAIN chain = 1..Len(chain)
      /\ \A i \in 1..Len(chain) : /\ chain[i].extra \in Seq(Args)
                                  /\ chain[i]["type"] \in InitramfsTypes \union {""}
                                  /\ chain[i]["kdump"] \in {"", "keep", "none"}
                                  /\ chain[i].url \in Urls
  <2>1. \A i \in 1..Len(chain) : chain[i] \in Sections
    BY <1>1, ElementOfSeq
  <2>2. QED
    BY <1>1, <2>1, LenProperties DEF Sections, Urls
<1>3. /\ Len(urls) = Len(chain)
      /\ \A i \in 1..Len(urls) : urls[i]["base"] \in STRING /\ urls[i]["file"] \in STRING
  <2>1. DOMAIN urls = 1..Len(chain) /\ \A i \in 1..Len(chain) : urls[i] = chain[i].url
    BY <1>2
  <2>2. urls \in Seq(Urls)
    <3> DEFINE n == Len(chain)
    <3>1. urls \in [1..n -> Urls] /\ n \in Nat
      BY <1>2
    <3> HIDE DEF urls, n
    <3>2. QED
      BY <3>1, SeqDef
  <2> HIDE DEF urls
  <2>3. Len(urls) = Len(chain)
    <3>1. DOMAIN urls = 1..Len(urls) /\ Len(urls) \in Nat
      BY <2>2, LenProperties
    <3>2. QED
      BY <1>2, <2>1, <3>1, SameLength
  <2>4. QED
    BY <1>2, <2>1, <2>3 DEF Urls
<1>4. /\ c.out = r.out /\ c.os = r.os /\ c.selinux = r.selinux
      /\ c.extra = mergeKernelCommandLine(chain)
      /\ c.type = LastSet(chain, "type", "")
      /\ c.kdump = LastSet(chain, "kdump", "")
      /\ c.url = [base |-> LastSet(urls, "base", ""), file |-> LastSet(urls, "file", "")]
  BY <1>1 DEF resolvePxeConfig
<1> HIDE DEF chain, urls
<1>5. mergeKernelCommandLine(chain) \in Seq(Args)
  <2>1. \A i \in 1..Len(chain), s \in Seq(Args) : s \o chain[i].extra \in Seq(Args)
    BY <1>2, ConcatProperties
  <2>2. <<>> \in Seq(Args)
    BY EmptySeq
  <2>3. QED
    BY <1>2, <2>1, <2>2, MergedIn
<1>6. LastSet(chain, "type", "") \in InitramfsTypes \union {""}
  <2> DEFINE V == InitramfsTypes \union {""}
  <2>1. "" \in V /\ \A i \in 1..Len(chain) : chain[i]["type"] \in V
    BY <1>2
  <2> HIDE DEF V
  <2>2. LastSet(chain, "type", "") \in V
    BY <1>2, <2>1, LastSetIn
  <2>3. QED
    BY <2>2 DEF V
<1>7. LastSet(chain, "kdump", "") \in {"", "keep", "none"}
  <2> DEFINE V == {"", "keep", "none"}
  <2>1. "" \in V /\ \A i \in 1..Len(chain) : chain[i]["kdump"] \in V
    BY <1>2
  <2> HIDE DEF V
  <2>2. LastSet(chain, "kdump", "") \in V
    BY <1>2, <2>1, LastSetIn
  <2>3. QED
    BY <2>2 DEF V
<1>8. LastSet(urls, "base", "") \in STRING /\ LastSet(urls, "file", "") \in STRING
  <2>1. "" \in STRING
    BY StringLiterals
  <2>2. Len(urls) \in Nat
    BY <1>2, <1>3
  <2>3. LastSet(urls, "base", "") \in STRING
    BY <1>3, <2>1, <2>2, LastSetIn
  <2>4. LastSet(urls, "file", "") \in STRING
    BY <1>3, <2>1, <2>2, LastSetIn
  <2>5. QED
    BY <2>3, <2>4
<1>9. c.url \in Urls
  <2> DEFINE base == LastSet(urls, "base", "")
             f == LastSet(urls, "file", "")
  <2>1. base \in STRING /\ f \in STRING /\ c.url = [base |-> base, file |-> f]
    BY <1>4, <1>8
  <2> HIDE DEF base, f
  <2>2. QED
    BY <2>1 DEF Urls
<1>10. QED
  BY <1>1, <1>4, <1>5, <1>6, <1>7, <1>9 DEF ConfigOK

\* The merged extra arguments have none of the names that no file uses.
LEMMA ExtrasLeft ==
    ASSUME NEW c \in Configs, NEW names, ExtrasLeave(names)
    PROVE  findMatchingCommandLineArgs(c.extra, names) = <<>>
<1>1. PICK r \in Requests : c = resolvePxeConfig(r) /\ r.chain \in Seq(Sections)
  BY ConfigShape
<1> DEFINE chain == r.chain
           T == {s \in Seq(Args) : findMatchingCommandLineArgs(s, names) = <<>>}
<1>2. c.extra = mergeKernelCommandLine(chain)
  BY <1>1 DEF resolvePxeConfig
<1>3. Len(chain) \in Nat /\ DOMAIN chain = 1..Len(chain) /\ \A i \in 1..Len(chain) : chain[i].extra \in Seq(Args)
  <2>1. \A i \in 1..Len(chain) : chain[i] \in Sections
    BY <1>1, ElementOfSeq
  <2>2. QED
    BY <1>1, <2>1, LenProperties DEF Sections
<1>4. \A i \in 1..Len(chain) : findMatchingCommandLineArgs(chain[i].extra, names) = <<>>
  <2>1. TAKE i \in 1..Len(chain)
  <2>2. \A j \in 1..Len(chain[i].extra) : chain[i].extra[j].name \notin names
    <3>1. DOMAIN chain[i].extra = 1..Len(chain[i].extra)
      BY <1>3, LenProperties
    <3>2. QED
      BY <1>3, <3>1 DEF ExtrasLeave
  <2>3. QED
    BY <1>3, <2>2, MatchingNone
<1>5. <<>> \in T
  BY EmptySeq, MatchingEmpty
<1>6. ASSUME NEW i \in 1..Len(chain), NEW s \in T PROVE s \o chain[i].extra \in T
  <2> DEFINE t == chain[i].extra
  <2>1. t \in Seq(Args) /\ findMatchingCommandLineArgs(t, names) = <<>>
    BY <1>3, <1>4
  <2> HIDE DEF t
  <2>2. s \o t \in Seq(Args)
    BY <2>1, ConcatProperties
  <2>3. findMatchingCommandLineArgs(s \o t, names) = findMatchingCommandLineArgs(s, names) \o findMatchingCommandLineArgs(t, names)
    BY <2>1, ConcatArgs
  <2>4. <<>> \o <<>> = <<>>
    BY EmptySeq, ConcatEmptySeq
  <2>5. findMatchingCommandLineArgs(s \o t, names) = <<>>
    BY <2>1, <2>3, <2>4
  <2>6. QED
    BY <2>2, <2>5 DEF t
<1>7. mergeKernelCommandLine(chain) \in T
  <2> HIDE DEF T, chain
  <2>1. QED
    BY <1>3, <1>5, <1>6, MergedIn
<1>8. QED
  BY <1>2, <1>7

-----------------------------------------------------------------------------
(* The invariant.  AfterX are the phases a run is in once it has done X.    *)

\* The phases after each of the first steps of building an output.
AfterStore == {"savedConfigs", "grub", "images", "stage", "ok"}
AfterSaved == {"grub", "images", "stage", "ok"}
AfterGrub == {"images", "stage", "ok"}
AfterImages == {"stage", "ok"}

StoreFields == {"exists", "kind", "os", "vmlinuz", "initrds", "initrdImg", "squashfs", "lines", "kdump", "kdumpKernels",
                "additionalKdump", "dracut", "files", "saved"}

RawFields == {"exists", "os", "uki", "vmlinuz", "lines", "initrdImg", "initrds", "kdump"}

RequestedModes == SELinuxModes \union {""}

\* What updateSavedConfigs makes; what it saves has no URL.
SavedConfigs == [kdump : {"", "keep", "none"}, args : Seq(Args), dracut : -1..2, policy : {"none", "old", "new"},
                 requested : RequestedModes, url : Urls]

Bootstrapped(s) == s.vmlinuz \subseteq DOMAIN s.initrds /\ \A k \in s.vmlinuz : s.initrds[k] = "real"

\* An artifact store that an output can be made from.
StoreOK(s) ==
    /\ DOMAIN s = StoreFields /\ s.exists = TRUE /\ s.kind = "iso"
    /\ s.os \in Oses /\ BootFilesOK(s) /\ s.kdump \subseteq Kernels
    /\ s.additionalKdump \subseteq Kernels /\ s.squashfs \in BOOLEAN /\ s.saved \in SavedConfigs

\* The full OS of an ISO has kdump images only if the saved configurations keep them, and
\* then those of all kernels that have one on the media.
KdumpPlaced(image) ==
    IF image.saved.kdump = "keep" THEN image.os.kdump = {} \/ KdumpBootFiles(image) \subseteq image.os.kdump
    ELSE image.os.kdump = {}

\* An ISO that some run made.
IsoOK(s) ==
    /\ StoreOK(s)
    /\ s.saved.url = NoUrls
    /\ KdumpPlaced(s)
    /\ s.squashfs => Bootstrapped(s)

RawOK(r) == DOMAIN r = RawFields /\ r.exists = TRUE /\ r.os \in Oses /\ BootFilesOK(r) /\ r.kdump \subseteq Kernels

SavedKdump(old, c) == IF c.kdump = "" THEN old.kdump ELSE c.kdump

OldSaved == IF IsIso(input) THEN input.saved ELSE NoSavedConfigs

OldFiles == IF IsIso(input) THEN input.files ELSE {}

\* Where the run is; the type of the initramfs follows from the input and the request.
Control ==
    /\ phase \in Running \union {"ok", "failed"}
    /\ runs \in 1..MaxRuns
    /\ cfg \in Configs
    /\ input \in DiskImages \/ IsoOK(input)
    /\ saved \in SavedConfigs
    /\ phase \notin {"convertInput", "failed"} => type = resolveInitramfsType(input, cfg)
    /\ phase \in Running => iso = None /\ pxe = None

\* The raw image, once there is one, has every kdump image of the input that has its kernel.
RawInv ==
    /\ raw = None \/ RawOK(raw)
    /\ phase \in {"customizeOs", "artifactStore"} =>
          /\ RawOK(raw)
          /\ store = IF IsIso(input) THEN createIsoArtifactStoreFromIsoImage(input) ELSE None
          /\ KdumpOf(input) \intersect raw.vmlinuz \subseteq raw.kdump
    /\ phase = "customizeOs" => KdumpOf(input) \subseteq raw.kdump

\* What an ISO that is only packed again has from its input.
Packed ==
    /\ raw = None /\ IsIso(input) /\ ~rebuildFullOsImage(input, cfg)
    /\ store.os = input.os /\ store.vmlinuz = input.vmlinuz /\ store.initrds = input.initrds
    /\ store.kdump = KdumpBootFiles(input) /\ store.additionalKdump = LooseKdump(input)
    /\ store.squashfs = input.squashfs

\* What a store made from the raw image has of its input: every kdump image of a kernel, and
\* among the additional files those without one.
Stored ==
    /\ KdumpOf(input) \intersect store.vmlinuz \subseteq store.kdump
    /\ store.additionalKdump \intersect store.vmlinuz \subseteq store.kdump
    /\ IsIso(input) => LooseKdump(input) \subseteq store.additionalKdump

\* The store has them too, or is the input again; its images match the type of the initramfs.
StoreInv ==
    /\ store.exists => StoreOK(store)
    /\ phase \in AfterStore =>
          /\ StoreOK(store)
          /\ IF raw.exists THEN Stored ELSE Packed
          /\ store.files = OldFiles
    /\ phase = "savedConfigs" => store.saved = OldSaved
    /\ phase \in {"savedConfigs", "grub", "images"} /\ raw.exists => ~store.squashfs
    /\ phase = "images" => raw.exists
    /\ phase \in AfterImages =>
          /\ raw.exists => store.os.kdump = cleanFullOSFolderForLiveOS(cfg, store)
          /\ IF type = "bootstrap" THEN store.squashfs = TRUE ELSE store.squashfs = FALSE
          /\ type = "bootstrap" => Bootstrapped(store)

SavedInv ==
    phase \in AfterSaved =>
        /\ saved.kdump = SavedKdump(OldSaved, cfg)
        /\ saved.args = CombinedArgs(OldSaved.args, cfg.extra)
        /\ saved.url = CombinedUrls(OldSaved.url, cfg.url)
        /\ ~raw.exists => saved.dracut = OldSaved.dracut /\ saved.policy = OldSaved.policy
        /\ store.saved = persistSavedConfigs(saved)

EntriesOf(lines, vmlinuz) ==
    DOMAIN lines # {} /\ DOMAIN lines \subseteq vmlinuz /\ \A k \in DOMAIN lines : lines[k] \in Entries

PxeLinesInv == phase \in AfterGrub /\ cfg.out = "pxe" => EntriesOf(pxeLines, store.vmlinuz)

\* What createIsoImage and createPXEArtifacts made.
StagedIso == stageLiveOSFiles(cfg, type, store, store.lines)

FinalLines ==
    IF store.os.boot = "bls" THEN [k \in DOMAIN pxeLines |-> finalizeLiveOSPxeBLSEntries(pxeLines[k], type, cfg.url)]
    ELSE pxeLines

StagedPxe == stageLiveOSFiles(cfg, type, store, FinalLines)

OutputInv ==
    phase = "ok" =>
        /\ iso = IF cfg.out = "iso" \/ type = "bootstrap" THEN StagedIso ELSE None
        /\ IF cfg.out = "iso" THEN pxe = None
           ELSE /\ pxe.exists = TRUE
                /\ pxe.media = [StagedPxe EXCEPT !.squashfs = FALSE]
                /\ type = "bootstrap" => pxe.image = getPxeBootstrapFileUrl(cfg.url) /\ CanGetPxeBootstrapFileUrl(cfg.url)

MediaInv == Control /\ RawInv /\ StoreInv /\ SavedInv /\ PxeLinesInv /\ OutputInv

-----------------------------------------------------------------------------
(* What holds of the entries that go to an output.                          *)

\* The entries the outputs are made from.
LineSets ==
    (IF cfg.out = "iso" \/ type = "bootstrap" THEN {store.lines} ELSE {})
      \union (IF cfg.out = "pxe" THEN {pxeLines} ELSE {})

OutputEntries == UNION {{lines[k] : k \in DOMAIN lines} : lines \in LineSets}

\* root= of grub-pxe.cfg is the URL of the saved configurations.
PxeRootInv ==
    phase \in AfterGrub /\ cfg.out = "pxe" /\ type = "bootstrap" /\ store.os.boot # "bls" =>
        \A k \in DOMAIN pxeLines :
            findKernelCommandLineArgValue(pxeLines[k].args, "root") = getPxeBootstrapFileUrl(saved.url)

\* root= of a full OS is gone, and its entries have the one initrd; the one of an ISO is its label.
RootInv ==
    phase \in AfterGrub =>
        IF type = "full-os"
        THEN \A e \in OutputEntries : findMatchingCommandLineArgs(e.args, {"root"}) = <<>> /\ e.initrd = "shared"
        ELSE \A k \in DOMAIN store.lines : findKernelCommandLineArgValue(store.lines[k].args, "root") = "live"

\* What the runs before this one asked for is saved in the ISO they made, and what is saved goes to
\* every entry.
KeptInv ==
    /\ IF IsIso(input)
       THEN (\A a \in kept.args : HasArg(input.saved.args, a)) /\ kept.files \subseteq input.files
       ELSE kept = NothingKept
    /\ phase \in AfterGrub => \A e \in OutputEntries : \A a : HasArg(saved.args, a) => HasArg(e.args, a)

Off(os, args) == ModeOf(os, args) = "disabled"

\* What /etc/default/grub says when it says disabled holds for the entries.
DfltSpeaksForEntries(x) ==
    x.os.boot # "legacy" /\ Off(x.os, x.os.dflt) => \A k \in DOMAIN x.lines : Off(x.os, x.lines[k].args)

\* Nothing asks for force-enforcing where entries are of the Boot Loader Specification.
NotForcedBls(x) ==
    x.os.boot = "bls" =>
        /\ \A r \in Requests : r.selinux # "force-enforcing"
        /\ getSELinuxModeFromLinuxArgs(x.os.dflt) # "force-enforcing"
        /\ \A k \in DOMAIN x.lines : getSELinuxModeFromLinuxArgs(x.lines[k].args) # "force-enforcing"

SELinuxReadable(x) == DfltSpeaksForEntries(x) /\ NotForcedBls(x)

\* Every image on the way can be read; a store without a raw image is still its input; and the
\* entries of the outputs have SELinux off where it is not supported.
SELinuxInv ==
    /\ SELinuxReadable(input)
    /\ IsIso(input) /\ ~verifyNoLiveOsSelinuxBlockers(input.saved) =>
          \A k \in DOMAIN input.lines : Off(input.os, input.lines[k].args)
    /\ phase \in {"customizeOs", "artifactStore"} => SELinuxReadable(raw)
    /\ phase \in AfterStore => SELinuxReadable(store)
    /\ phase \in {"savedConfigs", "grub"} =>
          IF raw.exists THEN store.os = raw.os /\ store.lines = raw.lines
          ELSE store.lines = input.lines
    /\ phase \in AfterGrub /\ ~verifyNoLiveOsSelinuxBlockers(saved) => \A e \in OutputEntries : Off(store.os, e.args)

-----------------------------------------------------------------------------
(* Images, stores and outputs.                                              *)

\* The saved configurations of a first run have the shape of all others.
LEMMA SavedNone ==
    NoSavedConfigs \in SavedConfigs /\ NoUrls \in Urls
<1> DEFINE unset == ""
<1>1. unset \in STRING /\ unset \in {"", "keep", "none"} /\ unset \in RequestedModes
  BY StringLiterals DEF RequestedModes
<1>2. NoUrls = [base |-> unset, file |-> unset]
  BY DEF NoUrls
<1>3. NoSavedConfigs = [kdump |-> unset, args |-> <<>>, dracut |-> -1, policy |-> "none", requested |-> unset,
                        url |-> NoUrls]
  BY DEF NoSavedConfigs
<1> HIDE DEF unset
<1>4. NoUrls \in Urls
  BY <1>1, <1>2 DEF Urls
<1> DEFINE none == <<>>
           unknown == -1
<1>5. none \in Seq(Args) /\ unknown \in -1..2
  OBVIOUS
<1> HIDE DEF none, unknown
<1>6. [kdump |-> unset, args |-> none, dracut |-> unknown, policy |-> "none", requested |-> unset, url |-> NoUrls]
        \in SavedConfigs
  BY <1>1, <1>4, <1>5 DEF SavedConfigs
<1> QED
  BY <1>3, <1>4, <1>6 DEF none, unknown

\* What LiveOsAssumption says of a disk image.
LEMMA DiskImagesOK ==
    ASSUME NEW image \in DiskImages
    PROVE  /\ ~IsIso(image) /\ image.os \in Oses /\ BootFilesOK(image)
           /\ DOMAIN image = {"kind", "os", "uki", "vmlinuz", "lines", "initrds"}
BY LiveOsAssumption DEF IsIso

\* The raw image made from a disk image, and its kdump images.
LEMMA RawFromDisk ==
    ASSUME NEW image \in DiskImages
    PROVE  /\ RawOK(convertImageToRaw(image))
           /\ KdumpOf(image) \subseteq convertImageToRaw(image).kdump
           /\ convertImageToRaw(image).os = image.os /\ convertImageToRaw(image).lines = image.lines
BY DiskImagesOK DEF RawOK, RawFields, convertImageToRaw, BootFilesOK, KdumpOf, Oses

\* The raw image made from an ISO has the kdump images of both places.
LEMMA RawFromIso ==
    ASSUME NEW image, IsoOK(image)
    PROVE  /\ RawOK(createWriteableImageFromArtifacts(image))
           /\ KdumpOf(image) \subseteq createWriteableImageFromArtifacts(image).kdump
           /\ createWriteableImageFromArtifacts(image).os = image.os
           /\ createWriteableImageFromArtifacts(image).lines = image.lines
<1> DEFINE r == createWriteableImageFromArtifacts(image)
<1>1. StoreOK(image)
  BY DEF IsoOK
<1>2. /\ DOMAIN r = RawFields /\ r.exists = TRUE /\ r.os = image.os /\ r.vmlinuz = image.vmlinuz /\ r.lines = image.lines
      /\ r.initrds = Merge(image.initrds, DummyInitrds(image)) /\ r.kdump = image.kdump \union image.os.kdump
  BY DEF RawFields, createWriteableImageFromArtifacts
<1>3. DOMAIN r.initrds \subseteq Kernels
  BY <1>1, <1>2 DEF Merge, DummyInitrds, StoreOK, BootFilesOK
<1>4. BootFilesOK(r)
  BY <1>1, <1>2, <1>3 DEF StoreOK, BootFilesOK
<1>5. r.kdump \subseteq Kernels
  BY <1>1, <1>2 DEF StoreOK, Oses
<1> QED
  BY <1>1, <1>2, <1>4, <1>5 DEF RawOK, KdumpOf, StoreOK

\* The artifact store of an ISO holds what the ISO has.
LEMMA StoreFromIso ==
    ASSUME NEW image, IsoOK(image)
    PROVE  LET s == createIsoArtifactStoreFromIsoImage(image) IN
           /\ StoreOK(s) /\ s.files = image.files /\ s.saved = image.saved
           /\ s.os = image.os /\ s.vmlinuz = image.vmlinuz /\ s.initrds = image.initrds
           /\ s.kdump = KdumpBootFiles(image) /\ s.additionalKdump = LooseKdump(image)
           /\ s.squashfs = image.squashfs /\ s.lines = image.lines
<1> DEFINE boot == KdumpBootFiles(image)
           loose == LooseKdump(image)
           t1 == [image EXCEPT !.kdump = boot]
           t2 == [t1 EXCEPT !.additionalKdump = loose]
           t == [t2 EXCEPT !.kdumpKernels = {}]
           s == [t EXCEPT !.dracut = t.saved.dracut]
<1>1. StoreOK(image)
  BY DEF IsoOK
<1>2. s = createIsoArtifactStoreFromIsoImage(image)
  BY DEF createIsoArtifactStoreFromIsoImage, createIsoInfoStoreFromIsoImage, createIsoFilesStoreFromIsoImage
<1>2a. boot \subseteq Kernels /\ loose \subseteq Kernels
  BY <1>1 DEF KdumpBootFiles, LooseKdump, StoreOK
<1> HIDE DEF boot, loose
<1>2b. DOMAIN t1 = StoreFields /\ t1.kdump = boot /\ \A f \in StoreFields \ {"kdump"} : t1[f] = image[f]
  BY <1>1 DEF StoreOK, StoreFields
<1> HIDE DEF t1
<1>2c. /\ DOMAIN t2 = StoreFields /\ t2.additionalKdump = loose
       /\ \A f \in StoreFields \ {"additionalKdump"} : t2[f] = t1[f]
  BY <1>2b DEF StoreFields
<1> HIDE DEF t2
<1>3. DOMAIN t = StoreFields /\ \A f \in StoreFields \ {"kdumpKernels"} : t[f] = t2[f]
  BY <1>2c
<1>4. DOMAIN s = StoreFields /\ \A f \in StoreFields \ {"kdumpKernels", "dracut"} : s[f] = t[f]
  BY <1>3
<1> HIDE DEF t, s
<1>5. \A f \in StoreFields \ {"kdump", "additionalKdump", "kdumpKernels", "dracut"} : s[f] = image[f]
  BY <1>2b, <1>2c, <1>3, <1>4
<1>6. /\ s.exists = image.exists /\ s.kind = image.kind /\ s.os = image.os /\ s.vmlinuz = image.vmlinuz
      /\ s.initrds = image.initrds /\ s.squashfs = image.squashfs /\ s.lines = image.lines
      /\ s.files = image.files /\ s.saved = image.saved
  BY <1>5 DEF StoreFields
<1>6a. s.kdump = boot /\ s.additionalKdump = loose
  BY <1>2b, <1>2c, <1>3, <1>4 DEF StoreFields
<1>7. StoreOK(s)
  BY <1>1, <1>2a, <1>4, <1>6, <1>6a DEF StoreOK, BootFilesOK
<1> QED
  BY <1>2, <1>6, <1>6a, <1>7 DEF boot, loose

\* The store of a mounted image, and what is carried over from the input's.
LEMMA StoreFromRaw ==
    ASSUME NEW r, RawOK(r), NEW old,
           old = None \/ (old.exists = TRUE /\ old.saved \in SavedConfigs /\ old.additionalKdump \subseteq Kernels)
    PROVE  LET s == createIsoInfoStoreFromMountedImage(createIsoFilesStoreFromMountedImage(r, old), r) IN
           /\ StoreOK(s) /\ s.files = IF old.exists THEN old.files ELSE {}
           /\ s.saved = IF old.exists THEN old.saved ELSE NoSavedConfigs
           /\ s.os = r.os /\ s.vmlinuz = r.vmlinuz /\ s.lines = r.lines
           /\ s.kdump = KdumpBootFiles(r)
           /\ s.additionalKdump = LooseKdump(r) \union (IF old.exists THEN old.additionalKdump ELSE {})
           /\ s.squashfs = FALSE
<1> DEFINE t == createIsoFilesStoreFromMountedImage(r, old)
           s == [t EXCEPT !.dracut = r.os.dracut]
<1>1. s = createIsoInfoStoreFromMountedImage(createIsoFilesStoreFromMountedImage(r, old), r)
  BY DEF createIsoInfoStoreFromMountedImage
<1>2. /\ DOMAIN t = StoreFields /\ t.exists = TRUE /\ t.kind = "iso" /\ t.os = r.os /\ t.vmlinuz = r.vmlinuz
      /\ t.initrds = r.initrds /\ t.squashfs = FALSE /\ t.lines = r.lines /\ t.kdump = KdumpBootFiles(r)
      /\ t.additionalKdump = LooseKdump(r) \union (IF old.exists THEN old.additionalKdump ELSE {})
      /\ t.files = IF old.exists THEN old.files ELSE {}
      /\ t.saved = IF old.exists THEN old.saved ELSE NoSavedConfigs
  BY DEF createIsoFilesStoreFromMountedImage, StoreFields
<1> HIDE DEF t
<1>3. DOMAIN s = StoreFields /\ \A f \in StoreFields \ {"dracut"} : s[f] = t[f]
  BY <1>2
<1> HIDE DEF s
<1>4. /\ DOMAIN s = StoreFields /\ s.exists = TRUE /\ s.kind = "iso" /\ s.os = r.os /\ s.vmlinuz = r.vmlinuz
      /\ s.initrds = r.initrds /\ s.squashfs = FALSE /\ s.lines = r.lines /\ s.kdump = KdumpBootFiles(r)
      /\ s.additionalKdump = LooseKdump(r) \union (IF old.exists THEN old.additionalKdump ELSE {})
      /\ s.files = IF old.exists THEN old.files ELSE {}
      /\ s.saved = IF old.exists THEN old.saved ELSE NoSavedConfigs
  BY <1>2, <1>3 DEF StoreFields
<1>5. s.saved \in SavedConfigs
  BY <1>4, SavedNone DEF None
<1>5a. s.kdump \subseteq Kernels /\ s.additionalKdump \subseteq Kernels
  BY <1>4 DEF KdumpBootFiles, LooseKdump, RawOK, None
<1>6. StoreOK(s)
  BY <1>4, <1>5, <1>5a DEF StoreOK, RawOK, BootFilesOK
<1> QED
  BY <1>1, <1>4, <1>6

\* Customizing keeps an image that has boot entries for kernels it has.
LEMMA FreshEntries ==
    ASSUME NEW os \in Oses
    PROVE  Entry("own", FreshLine(os)) \in Entries
<1>1. <<Arg("root", "partition")>> \in Seq(Args)
  BY ArgsOf, StringLiterals
<1>2. FreshLine(os) \in Seq(Args)
  BY <1>1, ConcatArgs DEF FreshLine, Oses
<1> QED
  BY <1>2, StringLiterals DEF Entry, Entries

\* New SELinux arguments leave a command line.
LEMMA SELinuxUpdated ==
    ASSUME NEW line \in Seq(Args), NEW mode
    PROVE  updateKernelCommandLineArgsHelper(line, selinuxArgNames, selinuxModeToArgs(mode)) \in Seq(Args)
<1> DEFINE new == selinuxModeToArgs(mode)
<1>1. new \in Seq(Args)
  <2> DEFINE security == Arg("security", "selinux")
             selinux == Arg("selinux", "1")
             enforcing == Arg("enforcing", "1")
             off == Arg("selinux", "0")
  <2>1. security \in Args /\ selinux \in Args /\ enforcing \in Args /\ off \in Args
    BY ArgsOf, StringLiterals
  <2>2. new = <<off>> \/ new = <<security, selinux, enforcing>> \/ new = <<security, selinux>>
    BY DEF selinuxModeToArgs, getCommonSELinuxArgs
  <2> HIDE DEF security, selinux, enforcing, new, off
  <2>3. <<off>> \in Seq(Args) /\ <<security, selinux, enforcing>> \in Seq(Args) /\ <<security, selinux>> \in Seq(Args)
    BY <2>1
  <2> QED
    BY <2>2, <2>3
<1> HIDE DEF new
<1>2. updateKernelCommandLineArgsHelper(line, selinuxArgNames, new) \in Seq(Args)
  BY <1>1, UpdateSeq
<1> QED
  BY <1>2 DEF new

\* The OS after its customization.
LEMMA CustomizedOsOK ==
    ASSUME NEW os \in Oses, NEW mode \in RequestedModes, NEW dracut \in os.dracut..2
    PROVE  LET new == CustomizedOs(os, mode, dracut) IN
           /\ new \in Oses /\ new.boot = os.boot /\ new.kdump = os.kdump /\ new.distro = os.distro
           /\ new.seConfig = IF mode = "" THEN os.seConfig ELSE ConfigFileMode(mode)
           /\ new.dflt = IF mode = "" THEN os.dflt
                         ELSE updateKernelCommandLineArgsHelper(os.dflt, selinuxArgNames, selinuxModeToArgs(mode))
<1> DEFINE config == IF mode = "" THEN os.seConfig ELSE ConfigFileMode(mode)
           dflt == IF mode = "" THEN os.dflt
                   ELSE updateKernelCommandLineArgsHelper(os.dflt, selinuxArgNames, selinuxModeToArgs(mode))
           new == [[[os EXCEPT !.dracut = dracut] EXCEPT !.seConfig = config] EXCEPT !.dflt = dflt]
<1>1. os.dflt \in Seq(Args) /\ os.dracut \in -1..2 /\ os.seConfig \in STRING
  BY DEF Oses
<1>2. dflt \in Seq(Args)
  BY <1>1, SELinuxUpdated
<1>3. config \in STRING
  BY <1>1, StringLiterals DEF ConfigFileMode, SELinuxModes, RequestedModes
<1>4. CustomizedOs(os, mode, dracut) = new
  BY DEF CustomizedOs, Oses
<1> HIDE DEF config, dflt
<1>5. new \in Oses /\ new.boot = os.boot /\ new.kdump = os.kdump /\ new.distro = os.distro /\ new.seConfig = config
      /\ new.dflt = dflt
  <2>1. [os EXCEPT !.dracut = dracut] \in Oses
    <3> DEFINE low == os.dracut
    <3>1. low \in -1..2 /\ dracut \in low..2
      BY <1>1
    <3> HIDE DEF low
    <3>2. dracut \in -1..2
      BY <3>1
    <3> QED
      BY <3>2 DEF Oses
  <2>2. [[os EXCEPT !.dracut = dracut] EXCEPT !.seConfig = config] \in Oses
    BY <1>3, <2>1 DEF Oses
  <2>3. new \in Oses
    BY <1>2, <2>2 DEF Oses
  <2> QED
    BY <2>3 DEF Oses
<1> QED
  BY <1>4, <1>5 DEF config, dflt

\* The boot entries of an image with these kernels; CustomizedLines reads no more of it.
LEMMA CustomizedLinesOK ==
    ASSUME NEW r, r.os \in Oses, r.vmlinuz \subseteq Kernels, DOMAIN r.lines # {}, DOMAIN r.lines \subseteq r.vmlinuz,
           \A k \in DOMAIN r.lines : r.lines[k] \in Entries,
           NEW kernels \in SUBSET Kernels, kernels # {}, NEW regenerated \in BOOLEAN, NEW mode
    PROVE  EntriesOf(CustomizedLines(r, kernels, regenerated, mode), kernels)
<1> DEFINE new == CustomizedLines(r, kernels, regenerated, mode)
<1>1. Entry("own", FreshLine(r.os)) \in Entries
  BY FreshEntries
<1>2. CASE r.os.boot = "mkconfig"
  BY <1>1, <1>2 DEF CustomizedLines, FreshLines, EntriesOf
<1>3. CASE r.os.boot = "bls"
  BY <1>1, <1>3 DEF CustomizedLines, EntriesOf
<1>4. CASE r.os.boot \notin {"mkconfig", "bls"}
  <2> DEFINE old == r.lines[CHOOSE x \in DOMAIN r.lines : TRUE]
             edited == IF mode = "" THEN old
                       ELSE [old EXCEPT !.args = updateKernelCommandLineArgsHelper(@, selinuxArgNames, selinuxModeToArgs(mode))]
  <2>1. old \in Entries
    OBVIOUS
  <2>2. edited \in Entries
    <3> HIDE DEF old
    <3>1. old.args \in Seq(Args)
      BY <2>1 DEF Entries
    <3>2. updateKernelCommandLineArgsHelper(old.args, selinuxArgNames, selinuxModeToArgs(mode)) \in Seq(Args)
      BY <3>1, SELinuxUpdated
    <3> QED
      BY <2>1, <3>2 DEF Entries
  <2>3. new = [k \in kernels |-> edited]
    BY <1>4 DEF CustomizedLines
  <2> HIDE DEF new, edited
  <2>4. DOMAIN new = kernels /\ \A k \in kernels : new[k] = edited
    BY <2>3
  <2>5. EntriesOf(new, kernels)
    BY <2>2, <2>4 DEF EntriesOf
  <2> QED
    BY <2>5 DEF new
<1> QED
  BY <1>2, <1>3, <1>4

\* What customizeOSContents makes of an image.
CustomizedImage(r, os, kernels, regenerated, mode, kdump) ==
    [r EXCEPT !.os = os, !.vmlinuz = kernels,
              !.lines = CustomizedLines([r EXCEPT !.os = os], kernels, regenerated, mode),
              !.initrds = [k \in kernels |-> IF k \in DOMAIN @ THEN @[k] ELSE "real"],
              !.kdump = kdump]

CustomizedFrom(r, os, kernels, regenerated, mode, kdump, new) ==
    /\ RawOK(new) /\ new.os = os /\ new.vmlinuz = kernels /\ new.kdump = kdump
    /\ new.lines = CustomizedLines([r EXCEPT !.os = os], kernels, regenerated, mode)

\* The raw image after the customization of its OS.
LEMMA CustomizedRaw ==
    ASSUME NEW r, RawOK(r), NEW os \in Oses, NEW kernels \in SUBSET Kernels, kernels # {}, NEW regenerated \in BOOLEAN,
           NEW mode, NEW kdump \in SUBSET Kernels
    PROVE  CustomizedFrom(r, os, kernels, regenerated, mode, kdump, CustomizedImage(r, os, kernels, regenerated, mode, kdump))
<1> DEFINE r1 == [r EXCEPT !.os = os]
           r2 == [r1 EXCEPT !.vmlinuz = kernels]
           lines == CustomizedLines(r1, kernels, regenerated, mode)
           r3 == [r2 EXCEPT !.lines = lines]
           initrds == [k \in kernels |-> IF k \in DOMAIN r3.initrds THEN r3.initrds[k] ELSE "real"]
           r4 == [r3 EXCEPT !.initrds = initrds]
           r5 == [r4 EXCEPT !.kdump = kdump]
<1>1. DOMAIN r1 = RawFields /\ r1.os = os /\ r1.vmlinuz = r.vmlinuz /\ r1.lines = r.lines /\ r1.exists = TRUE
  BY DEF RawOK, RawFields
<1>2. EntriesOf(lines, kernels)
  <2> HIDE DEF r1, lines
  <2>1. /\ r1.os \in Oses /\ r1.vmlinuz \subseteq Kernels /\ DOMAIN r1.lines # {} /\ DOMAIN r1.lines \subseteq r1.vmlinuz
        /\ \A k \in DOMAIN r1.lines : r1.lines[k] \in Entries
    BY <1>1 DEF RawOK, BootFilesOK
  <2>2. EntriesOf(CustomizedLines(r1, kernels, regenerated, mode), kernels)
    BY <2>1, CustomizedLinesOK
  <2> QED
    BY <2>2 DEF lines
<1> HIDE DEF lines
<1>3. DOMAIN r2 = RawFields /\ r2.os = os /\ r2.vmlinuz = kernels /\ r2.exists = TRUE
  <2> HIDE DEF r1
  <2> QED
    BY <1>1 DEF RawFields
<1>4. DOMAIN r3 = RawFields /\ r3.os = os /\ r3.vmlinuz = kernels /\ r3.exists = TRUE /\ r3.lines = lines
  <2> HIDE DEF r2
  <2> QED
    BY <1>3 DEF RawFields
<1> HIDE DEF initrds
<1>5. /\ DOMAIN r4 = RawFields /\ r4.os = os /\ r4.vmlinuz = kernels /\ r4.exists = TRUE /\ r4.lines = lines
      /\ r4.initrds = initrds
  <2> HIDE DEF r3
  <2> QED
    BY <1>4 DEF RawFields
<1>6. /\ DOMAIN r5 = RawFields /\ r5.os = os /\ r5.vmlinuz = kernels /\ r5.exists = TRUE /\ r5.lines = lines
      /\ r5.initrds = initrds /\ r5.kdump = kdump
  <2> HIDE DEF r4
  <2> QED
    BY <1>5 DEF RawFields
<1>7. DOMAIN initrds \subseteq Kernels
  BY DEF initrds
<1>8. r5 = CustomizedImage(r, os, kernels, regenerated, mode, kdump)
  BY DEF CustomizedImage, initrds, lines
<1> HIDE DEF r5
<1>9. RawOK(r5)
  BY <1>2, <1>6, <1>7 DEF RawOK, BootFilesOK, EntriesOf
<1> QED
  BY <1>6, <1>8, <1>9 DEF lines, CustomizedFrom

\* A store keeps its shape when it gets other entries, saved configurations or full OS.
LEMMA StoreWithLines ==
    ASSUME NEW s, StoreOK(s), NEW lines, EntriesOf(lines, s.vmlinuz)
    PROVE  StoreOK([s EXCEPT !.lines = lines])
BY DEF StoreOK, StoreFields, BootFilesOK, EntriesOf

\* An artifact store with other saved configurations.
LEMMA StoreWithSaved ==
    ASSUME NEW s, StoreOK(s), NEW configs \in SavedConfigs
    PROVE  StoreOK([s EXCEPT !.saved = configs])
BY DEF StoreOK, StoreFields, BootFilesOK

\* The store that createLiveOSImages leaves.
LiveOSImages(s, c, t) ==
    LET cleaned == [s EXCEPT !.os.kdump = cleanFullOSFolderForLiveOS(c, s)]
    IN IF t = "full-os" THEN createFullOSInitrdImage(cleaned)
       ELSE [createSquashfsImage(cleaned) EXCEPT !.initrds = createBootstrapInitrdImages(s), !.initrdImg = FALSE]

ImagesMade(s, c, t, new) ==
    /\ StoreOK(new) /\ new.vmlinuz = s.vmlinuz /\ new.lines = s.lines /\ new.kdump = s.kdump
    /\ new.additionalKdump = s.additionalKdump /\ new.files = s.files /\ new.saved = s.saved
    /\ new.os.distro = s.os.distro /\ new.os.boot = s.os.boot /\ new.os.seConfig = s.os.seConfig
    /\ new.os.dflt = s.os.dflt
    /\ new.os.kdump = cleanFullOSFolderForLiveOS(c, s)
    /\ IF t = "full-os" THEN new.squashfs = FALSE ELSE new.squashfs = TRUE /\ Bootstrapped(new)

\* The images of either type are made for every kernel.
LEMMA StoreWithImages ==
    ASSUME NEW s, StoreOK(s), s.squashfs = FALSE, NEW c, NEW t
    PROVE  ImagesMade(s, c, t, LiveOSImages(s, c, t))
<1> DEFINE kdump == cleanFullOSFolderForLiveOS(c, s)
           os == [s.os EXCEPT !.kdump = kdump]
           s1 == [s EXCEPT !.os = os]
           full == [s1 EXCEPT !.initrdImg = TRUE]
           s2 == [s1 EXCEPT !.squashfs = TRUE]
           s3 == [s2 EXCEPT !.initrds = createBootstrapInitrdImages(s)]
           boot == [s3 EXCEPT !.initrdImg = FALSE]
           new == IF t = "full-os" THEN full ELSE boot
<1>1. kdump \in SUBSET Kernels
  BY DEF cleanFullOSFolderForLiveOS, StoreOK
<1>2. os \in Oses
  BY <1>1 DEF StoreOK, Oses
<1>3. /\ os.kdump = kdump
      /\ os.distro = s.os.distro /\ os.boot = s.os.boot /\ os.seConfig = s.os.seConfig /\ os.dflt = s.os.dflt
  <2> HIDE DEF kdump
  <2> QED
    BY <1>2 DEF Oses, StoreOK
<1> HIDE DEF os, kdump
<1>4. DOMAIN s1 = StoreFields /\ s1.os = os /\ \A f \in StoreFields \ {"os"} : s1[f] = s[f]
  BY DEF StoreOK, StoreFields
<1> HIDE DEF s1
<1>5. DOMAIN full = StoreFields /\ \A f \in StoreFields \ {"initrdImg"} : full[f] = s1[f]
  BY <1>4
<1>6. DOMAIN s2 = StoreFields /\ s2.squashfs = TRUE /\ \A f \in StoreFields \ {"squashfs"} : s2[f] = s1[f]
  BY <1>4 DEF StoreFields
<1> HIDE DEF s2
<1>7. /\ DOMAIN s3 = StoreFields /\ s3.initrds = createBootstrapInitrdImages(s)
      /\ \A f \in StoreFields \ {"initrds"} : s3[f] = s2[f]
  BY <1>6 DEF StoreFields
<1> HIDE DEF s3
<1>8. DOMAIN boot = StoreFields /\ \A f \in StoreFields \ {"initrdImg"} : boot[f] = s3[f]
  BY <1>7
<1> HIDE DEF full, boot
<1>9. /\ DOMAIN new = StoreFields /\ new.exists = s.exists /\ new.kind = s.kind /\ new.os = os /\ new.vmlinuz = s.vmlinuz
      /\ new.lines = s.lines /\ new.kdump = s.kdump /\ new.additionalKdump = s.additionalKdump
      /\ new.files = s.files /\ new.saved = s.saved
  <2>1. CASE t = "full-os"
    BY <1>4, <1>5, <2>1 DEF StoreFields
  <2>2. CASE t # "full-os"
    BY <1>4, <1>6, <1>7, <1>8, <2>2 DEF StoreFields
  <2> QED
    BY <2>1, <2>2
<1>10. /\ new.initrds = IF t = "full-os" THEN s.initrds ELSE createBootstrapInitrdImages(s)
       /\ IF t = "full-os" THEN new.squashfs = FALSE ELSE new.squashfs = TRUE
  <2>1. CASE t = "full-os"
    BY <1>4, <1>5, <2>1 DEF StoreFields
  <2>2. CASE t # "full-os"
    BY <1>6, <1>7, <1>8, <2>2 DEF StoreFields
  <2> QED
    BY <2>1, <2>2
<1>11. new = LiveOSImages(s, c, t)
  BY DEF LiveOSImages, createFullOSInitrdImage, createSquashfsImage, full, boot, s3, s2, s1, os, kdump
<1> HIDE DEF new
<1>13. DOMAIN new.initrds \subseteq Kernels
  BY <1>10 DEF createBootstrapInitrdImages, StoreOK, BootFilesOK
<1>14. BootFilesOK(new)
  BY <1>9, <1>13 DEF StoreOK, BootFilesOK
<1>15. StoreOK(new)
  BY <1>2, <1>9, <1>10, <1>14 DEF StoreOK
<1>16. t # "full-os" => Bootstrapped(new)
  BY <1>9, <1>10 DEF createBootstrapInitrdImages, Bootstrapped
<1> QED
  BY <1>3, <1>9, <1>10, <1>11, <1>15, <1>16 DEF kdump, ImagesMade

\* The media that a store becomes.
StagedAs(s, c, t, lines, m) ==
    /\ DOMAIN m = StoreFields /\ m.exists = TRUE /\ m.kind = "iso" /\ m.os = s.os /\ m.vmlinuz = s.vmlinuz
    /\ m.squashfs = s.squashfs /\ m.saved = s.saved /\ m.lines = lines /\ m.files = s.files \union c.files
    /\ m.kdump = (IF c.kdump = "none" THEN s.kdump ELSE {}) \union s.additionalKdump
    /\ m.initrds = IF t = "full-os" THEN NoLines ELSE s.initrds
    /\ t = "full-os" => m.initrdImg = TRUE
    /\ EntriesOf(lines, s.vmlinuz) => StoreOK(m)

\* stageLiveOSFiles puts these files on the media.
LEMMA Staged ==
    ASSUME NEW s, StoreOK(s), NEW c, NEW t, NEW lines
    PROVE  StagedAs(s, c, t, lines, stageLiveOSFiles(c, t, s, lines))
<1> DEFINE m1 == [s EXCEPT !.lines = lines]
           m2 == [m1 EXCEPT !.files = m1.files \union c.files]
           m3 == [m2 EXCEPT !.kdump = (IF c.kdump = "none" THEN m2.kdump ELSE {}) \union s.additionalKdump]
           m3a == [m3 EXCEPT !.additionalKdump = {}]
           m4 == [m3a EXCEPT !.initrds = IF t = "full-os" THEN NoLines ELSE m3a.initrds]
           m == [m4 EXCEPT !.initrdImg = (t = "full-os")]
<1>1. DOMAIN m1 = StoreFields /\ m1.lines = lines /\ \A f \in StoreFields \ {"lines"} : m1[f] = s[f]
  BY DEF StoreOK, StoreFields
<1> HIDE DEF m1
<1>2. DOMAIN m2 = StoreFields /\ m2.files = m1.files \union c.files /\ \A f \in StoreFields \ {"files"} : m2[f] = m1[f]
  BY <1>1 DEF StoreFields
<1> HIDE DEF m2
<1>3. /\ DOMAIN m3 = StoreFields /\ m3.kdump = (IF c.kdump = "none" THEN m2.kdump ELSE {}) \union s.additionalKdump
      /\ \A f \in StoreFields \ {"kdump"} : m3[f] = m2[f]
  BY <1>2 DEF StoreFields
<1> HIDE DEF m3
<1>3a. /\ DOMAIN m3a = StoreFields /\ m3a.additionalKdump = {}
       /\ \A f \in StoreFields \ {"additionalKdump"} : m3a[f] = m3[f]
  BY <1>3 DEF StoreFields
<1> HIDE DEF m3a
<1>4. /\ DOMAIN m4 = StoreFields /\ m4.initrds = IF t = "full-os" THEN NoLines ELSE m3a.initrds
      /\ \A f \in StoreFields \ {"initrds"} : m4[f] = m3a[f]
  BY <1>3a DEF StoreFields
<1> HIDE DEF m4
<1>5. /\ DOMAIN m = StoreFields /\ m.initrdImg = (t = "full-os")
      /\ \A f \in StoreFields \ {"initrdImg"} : m[f] = m4[f]
  BY <1>4 DEF StoreFields
<1>6. m = stageLiveOSFiles(c, t, s, lines)
  BY DEF stageLiveOSFiles, m4, m3a, m3, m2, m1
<1> HIDE DEF m
<1>7. /\ m.exists = s.exists /\ m.kind = s.kind /\ m.os = s.os /\ m.vmlinuz = s.vmlinuz /\ m.squashfs = s.squashfs
      /\ m.saved = s.saved
  BY <1>1, <1>2, <1>3, <1>3a, <1>4, <1>5 DEF StoreFields
<1>8. m.lines = lines /\ m.files = s.files \union c.files
  BY <1>1, <1>2, <1>3, <1>3a, <1>4, <1>5 DEF StoreFields
<1>9. /\ m.kdump = (IF c.kdump = "none" THEN s.kdump ELSE {}) \union s.additionalKdump /\ m.additionalKdump = {}
      /\ m.initrds = IF t = "full-os" THEN NoLines ELSE s.initrds
  BY <1>1, <1>2, <1>3, <1>3a, <1>4, <1>5 DEF StoreFields
<1>10. DOMAIN m.initrds \subseteq Kernels
  BY <1>9 DEF NoLines, StoreOK, BootFilesOK
<1>11. m.kdump \subseteq Kernels /\ m.additionalKdump \subseteq Kernels
  BY <1>9 DEF StoreOK
<1>12. EntriesOf(lines, s.vmlinuz) => BootFilesOK(m)
  BY <1>7, <1>8, <1>10 DEF EntriesOf, BootFilesOK, StoreOK
<1>13. EntriesOf(lines, s.vmlinuz) => StoreOK(m)
  BY <1>5, <1>7, <1>11, <1>12 DEF StoreOK
<1> QED
  BY <1>5, <1>6, <1>7, <1>8, <1>9, <1>13 DEF StoreOK, StagedAs

-----------------------------------------------------------------------------
(* Every step keeps MediaInv.                                               *)

\* The type of the initramfs is always decided.
LEMMA TypeResolved ==
    ASSUME NEW c \in Configs, NEW in
    PROVE  resolveInitramfsType(in, c) \in InitramfsTypes
BY ConfigsOK DEF ConfigOK, resolveInitramfsType, TypeOfIso, DefaultType, InitramfsTypes

\* The first run starts with the invariant.
LEMMA MediaInit ==
    ASSUME Init
    PROVE  MediaInv
<1>1. Control
  <2>1. saved \in SavedConfigs
    BY SavedNone DEF Init
  <2>2. runs \in 1..MaxRuns
    <3>1. runs = 1
      BY DEF Init
    <3>2. MaxRuns \in Nat \ {0}
      BY LiveOsAssumption
    <3> QED
      BY <3>1, <3>2
  <2> QED
    BY <2>1, <2>2 DEF Init, Control, Running
<1>2. RawInv /\ StoreInv /\ SavedInv /\ PxeLinesInv /\ OutputInv
  BY DEF Init, RawInv, StoreInv, SavedInv, PxeLinesInv, OutputInv, None, AfterStore, AfterSaved, AfterGrub, AfterImages
<1> QED
  BY <1>1, <1>2 DEF MediaInv

\* convertInputImageToWriteableFormat keeps it.
LEMMA MediaConvertInput ==
    ASSUME MediaInv, convertInputImageToWriteableFormat
    PROVE  MediaInv'
<1> USE DEF convertInputImageToWriteableFormat
<1>1. /\ phase = "convertInput" /\ cfg \in Configs /\ (input \in DiskImages \/ IsoOK(input))
      /\ UNCHANGED <<input, cfg, saved, pxeLines, iso, pxe, runs>>
      /\ phase' \in {"customizeOs", "artifactStore", "savedConfigs"}
      /\ iso = None /\ pxe = None
  BY DEF MediaInv, Control, Running
<1>2. CASE ~IsIso(input)
  <2>1. input \in DiskImages
    BY <1>1, <1>2 DEF IsoOK, StoreOK, IsIso
  <2>2. /\ raw' = convertImageToRaw(input) /\ store' = None /\ phase' \in {"customizeOs", "artifactStore"}
    BY <1>2 DEF rebuildFullOsImage
  <2>3. RawInv'
    BY <1>1, <1>2, <2>1, <2>2, RawFromDisk DEF RawInv, KdumpOf, IsIso
  <2>4. StoreInv'
    BY <2>2 DEF StoreInv, None, AfterStore, AfterImages
  <2>5. Control'
    BY <1>1, <2>2 DEF MediaInv, Control, Running, IsoOK, StoreOK, BootFilesOK, Bootstrapped, KdumpPlaced, KdumpBootFiles
  <2>6. (SavedInv /\ PxeLinesInv /\ OutputInv)'
    BY <2>2 DEF SavedInv, PxeLinesInv, OutputInv, AfterSaved, AfterGrub
  <2> QED
    BY <2>3, <2>4, <2>5, <2>6 DEF MediaInv
<1>3. CASE IsIso(input)
  <2>1. IsoOK(input)
    BY <1>1, <1>3, DiskImagesOK
  <2>2. /\ raw' = IF rebuildFullOsImage(input, cfg) THEN createWriteableImageFromArtifacts(input) ELSE None
        /\ store' = createIsoArtifactStoreFromIsoImage(input)
        /\ rebuildFullOsImage(input, cfg) => phase' \in {"customizeOs", "artifactStore"}
        /\ ~rebuildFullOsImage(input, cfg) => phase' = "savedConfigs"
    BY <1>3 DEF rebuildFullOsImage
  <2>3. RawInv'
    <3> DEFINE r == createWriteableImageFromArtifacts(input)
    <3>1. RawOK(r) /\ KdumpOf(input) \subseteq r.kdump
      BY <2>1, RawFromIso
    <3>2. KdumpOf(input') = KdumpOf(input) /\ IsIso(input')
      BY <1>1, <1>3
    <3> HIDE DEF r
    <3>3. CASE rebuildFullOsImage(input, cfg)
      <4>1. raw' = r
        BY <2>2, <3>3 DEF r
      <4>2. RawOK(raw)' /\ (KdumpOf(input) \subseteq raw.kdump)'
        BY <3>1, <3>2, <4>1 DEF RawOK, BootFilesOK
      <4>3. (store = IF IsIso(input) THEN createIsoArtifactStoreFromIsoImage(input) ELSE None)'
        BY <1>1, <2>2, <3>2
      <4> QED
        BY <4>2, <4>3 DEF RawInv
    <3>4. CASE ~rebuildFullOsImage(input, cfg)
      BY <2>2, <3>4 DEF RawInv
    <3> QED
      BY <3>3, <3>4
  <2>4. StoreInv'
    <3> DEFINE s == createIsoArtifactStoreFromIsoImage(input)
    <3>1. /\ StoreOK(s) /\ s.files = input.files /\ s.saved = input.saved
          /\ s.os = input.os /\ s.vmlinuz = input.vmlinuz /\ s.initrds = input.initrds
          /\ s.kdump = KdumpBootFiles(input) /\ s.additionalKdump = LooseKdump(input) /\ s.squashfs = input.squashfs
      BY <2>1, StoreFromIso
    <3> HIDE DEF s
    <3>2. store' = s /\ input' = input /\ cfg' = cfg
      BY <1>1, <2>2 DEF s
    <3>3. StoreOK(store)'
      BY <3>1, <3>2 DEF StoreOK, BootFilesOK
    <3>4. OldFiles' = input.files /\ OldSaved' = input.saved
      BY <1>3, <3>2 DEF OldFiles, OldSaved, IsIso
    <3>5. CASE rebuildFullOsImage(input, cfg)
      BY <2>2, <3>3, <3>5 DEF StoreInv, AfterStore, AfterImages
    <3>6. CASE ~rebuildFullOsImage(input, cfg)
      <4>1. Packed'
        BY <1>3, <2>2, <3>1, <3>2, <3>6 DEF Packed, IsIso, KdumpBootFiles, LooseKdump
      <4>2. phase' = "savedConfigs" /\ ~raw'.exists
        <5>1. phase' = "savedConfigs" /\ raw' = None
          BY <2>2, <3>6
        <5> QED
          BY <5>1 DEF None
      <4>3. store'.files = OldFiles' /\ store'.saved = OldSaved'
        BY <3>1, <3>2, <3>4
      <4> QED
        BY <3>3, <4>1, <4>2, <4>3 DEF StoreInv, AfterStore, AfterImages
    <3> QED
      BY <3>5, <3>6
  <2>5. Control'
    <3>1. type' = resolveInitramfsType(input', cfg')
      BY <1>1
    <3>2. (input \in DiskImages \/ IsoOK(input))' /\ (cfg \in Configs)' /\ (saved \in SavedConfigs)' /\ (runs \in 1..MaxRuns)'
      BY <1>1, <2>1 DEF MediaInv, Control, IsoOK, StoreOK, BootFilesOK, Bootstrapped, KdumpPlaced, KdumpBootFiles
    <3>3. phase' \in Running \union {"ok", "failed"} /\ iso' = None /\ pxe' = None
      BY <1>1 DEF Running
    <3> QED
      BY <3>1, <3>2, <3>3 DEF Control
  <2>6. (SavedInv /\ PxeLinesInv /\ OutputInv)'
    BY <1>1 DEF SavedInv, PxeLinesInv, OutputInv, AfterSaved, AfterGrub
  <2> QED
    BY <2>3, <2>4, <2>5, <2>6 DEF MediaInv
<1> QED
  BY <1>2, <1>3

\* customizeOSContents keeps it.
LEMMA MediaCustomizeOs ==
    ASSUME MediaInv, customizeOSContents
    PROVE  MediaInv'
<1>1. PICK kernels \in (SUBSET Kernels) \ {{}}, dracut \in raw.os.dracut..2,
           regenerated \in IF raw.os.boot = "bls" THEN BOOLEAN ELSE {FALSE}, kdumpStays \in BOOLEAN :
         raw' = CustomizedImage(raw, CustomizedOs(raw.os, cfg.selinux, dracut), kernels, regenerated, cfg.selinux,
                                IF kdumpStays THEN raw.kdump ELSE raw.kdump \intersect kernels)
  BY DEF customizeOSContents, CustomizedImage
<1>2. /\ phase = "customizeOs" /\ phase' = "artifactStore"
      /\ UNCHANGED <<input, cfg, store, type, saved, pxeLines, iso, pxe, runs>>
  BY DEF customizeOSContents
<1>3. RawOK(raw) /\ KdumpOf(input) \subseteq raw.kdump
  BY <1>2 DEF MediaInv, RawInv
<1> DEFINE os == CustomizedOs(raw.os, cfg.selinux, dracut)
           kdump == IF kdumpStays THEN raw.kdump ELSE raw.kdump \intersect kernels
<1>4. os \in Oses
  BY <1>2, <1>3, ConfigsOK, CustomizedOsOK DEF MediaInv, Control, ConfigOK, RawOK, RequestedModes
<1>5. kernels \in SUBSET Kernels /\ kernels # {} /\ regenerated \in BOOLEAN /\ kdump \in SUBSET Kernels
  <2>1. regenerated \in BOOLEAN
    BY <1>1
  <2>2. kdump \in SUBSET Kernels
    BY <1>3 DEF RawOK
  <2>3. kernels \in SUBSET Kernels /\ kernels # {}
    BY <1>1
  <2> QED
    BY <2>1, <2>2, <2>3
<1>6. raw' = CustomizedImage(raw, os, kernels, regenerated, cfg.selinux, kdump)
  BY <1>1
<1> HIDE DEF os, kdump
<1>7. RawOK(raw') /\ raw'.vmlinuz = kernels /\ raw'.kdump = kdump
  <2> DEFINE new == CustomizedImage(raw, os, kernels, regenerated, cfg.selinux, kdump)
  <2>1. RawOK(new) /\ new.vmlinuz = kernels /\ new.kdump = kdump
    <3>1. RawOK(raw) /\ os \in Oses /\ kernels \in SUBSET Kernels /\ kernels # {} /\ regenerated \in BOOLEAN /\ kdump \in SUBSET Kernels
      BY <1>3, <1>4, <1>5
    <3>2. \A mode : CustomizedFrom(raw, os, kernels, regenerated, mode, kdump,
                                   CustomizedImage(raw, os, kernels, regenerated, mode, kdump))
      BY <3>1, CustomizedRaw
    <3> QED
      BY <3>2 DEF CustomizedFrom
  <2>2. raw' = new
    BY <1>6
  <2> HIDE DEF new
  <2> QED
    BY <2>1, <2>2
<1>8. RawInv'
  <2>1. KdumpOf(input') \intersect raw'.vmlinuz \subseteq raw'.kdump
    <3> SUFFICES ASSUME NEW k \in KdumpOf(input), k \in kernels PROVE k \in kdump
      BY <1>2, <1>7 DEF KdumpOf
    <3> QED
      BY <1>3 DEF kdump
  <2> QED
    BY <1>2, <1>7, <2>1 DEF RawInv, MediaInv
<1>9. (Control /\ StoreInv /\ SavedInv /\ PxeLinesInv /\ OutputInv)'
  <2>1. Control'
    BY <1>2 DEF MediaInv, Control, Running, IsoOK, StoreOK, BootFilesOK, Bootstrapped, KdumpPlaced, KdumpBootFiles
  <2>2. StoreInv'
    BY <1>2 DEF MediaInv, StoreInv, AfterStore, AfterImages, StoreOK, BootFilesOK
  <2> QED
    BY <1>2, <2>1, <2>2 DEF SavedInv, PxeLinesInv, OutputInv, AfterSaved, AfterGrub
<1> QED
  BY <1>8, <1>9 DEF MediaInv

\* createIsoArtifactStoreFromMountedImage keeps it.
LEMMA MediaArtifactStore ==
    ASSUME MediaInv, createIsoArtifactStoreFromMountedImage
    PROVE  MediaInv'
<1>1. /\ phase = "artifactStore" /\ phase' = "savedConfigs"
      /\ store' = createIsoInfoStoreFromMountedImage(createIsoFilesStoreFromMountedImage(raw, store), raw)
      /\ UNCHANGED <<input, cfg, raw, type, saved, pxeLines, iso, pxe, runs>>
  BY DEF createIsoArtifactStoreFromMountedImage
<1>2. /\ RawOK(raw) /\ KdumpOf(input) \intersect raw.vmlinuz \subseteq raw.kdump
      /\ store = IF IsIso(input) THEN createIsoArtifactStoreFromIsoImage(input) ELSE None
  BY <1>1 DEF MediaInv, RawInv
<1>3. /\ store = None \/ (store.exists = TRUE /\ store.saved \in SavedConfigs /\ store.additionalKdump \subseteq Kernels)
      /\ (IF store.exists THEN store.additionalKdump ELSE {}) = IF IsIso(input) THEN LooseKdump(input) ELSE {}
      /\ OldFiles = (IF store.exists THEN store.files ELSE {})
      /\ OldSaved = (IF store.exists THEN store.saved ELSE NoSavedConfigs)
  <2>1. CASE IsIso(input)
    <3>1. IsoOK(input)
      BY <2>1, DiskImagesOK DEF MediaInv, Control
    <3> DEFINE s == createIsoArtifactStoreFromIsoImage(input)
    <3>2. StoreOK(s) /\ s.files = input.files /\ s.saved = input.saved /\ s.additionalKdump = LooseKdump(input)
      BY <3>1, StoreFromIso
    <3> HIDE DEF s
    <3>3. store = s
      BY <1>2, <2>1 DEF s
    <3> QED
      BY <2>1, <3>2, <3>3 DEF StoreOK, OldFiles, OldSaved
  <2>2. CASE ~IsIso(input)
    BY <1>2, <2>2 DEF None, OldFiles, OldSaved
  <2> QED
    BY <2>1, <2>2
<1> DEFINE s == createIsoInfoStoreFromMountedImage(createIsoFilesStoreFromMountedImage(raw, store), raw)
<1>4. /\ StoreOK(s) /\ s.files = OldFiles /\ s.saved = OldSaved
      /\ s.os = raw.os /\ s.vmlinuz = raw.vmlinuz /\ s.squashfs = FALSE /\ s.kdump = KdumpBootFiles(raw)
      /\ s.additionalKdump = LooseKdump(raw) \union (IF store.exists THEN store.additionalKdump ELSE {})
  BY <1>2, <1>3, StoreFromRaw
<1> HIDE DEF s
<1>5. store' = s
  BY <1>1 DEF s
<1>6. StoreInv'
  <2>1. StoreOK(store)'
    BY <1>4, <1>5 DEF StoreOK, BootFilesOK
  <2>2. raw'.exists /\ Stored'
    <3>1. s.additionalKdump = LooseKdump(raw) \union IF IsIso(input) THEN LooseKdump(input) ELSE {}
      BY <1>3, <1>4
    <3>2. IsIso(input) => LooseKdump(input) \subseteq KdumpOf(input)
      BY DEF LooseKdump, KdumpOf
    <3>3. KdumpOf(input) \intersect s.vmlinuz \subseteq s.kdump
      BY <1>2, <1>4 DEF KdumpBootFiles
    <3>4. s.additionalKdump \intersect s.vmlinuz \subseteq s.kdump
      <4> SUFFICES ASSUME NEW k \in s.additionalKdump, k \in s.vmlinuz PROVE k \in s.kdump
        OBVIOUS
      <4>1. k \notin LooseKdump(raw)
        BY <1>4 DEF LooseKdump
      <4>2. IsIso(input) /\ k \in LooseKdump(input)
        BY <3>1, <4>1
      <4> QED
        BY <3>2, <3>3, <4>2
    <3>5. KdumpOf(input)' = KdumpOf(input) /\ LooseKdump(input)' = LooseKdump(input) /\ IsIso(input)' = IsIso(input)
      BY <1>1 DEF KdumpOf, LooseKdump, IsIso
    <3>6. raw'.exists
      BY <1>1, <1>2 DEF RawOK
    <3> QED
      BY <1>5, <3>1, <3>3, <3>4, <3>5, <3>6 DEF Stored
  <2>3. store'.files = OldFiles' /\ store'.saved = OldSaved' /\ ~store'.squashfs
    BY <1>1, <1>4, <1>5 DEF OldFiles, OldSaved, IsIso
  <2> QED
    BY <1>1, <2>1, <2>2, <2>3 DEF StoreInv, AfterStore, AfterImages
<1>7. Control'
  BY <1>1 DEF MediaInv, Control, Running, IsoOK, StoreOK, BootFilesOK, Bootstrapped, KdumpPlaced, KdumpBootFiles
<1>8. RawInv'
  BY <1>1, <1>2 DEF RawInv, RawOK, BootFilesOK
<1>9. (SavedInv /\ PxeLinesInv /\ OutputInv)'
  BY <1>1 DEF SavedInv, PxeLinesInv, OutputInv, AfterSaved, AfterGrub
<1> QED
  BY <1>6, <1>7, <1>8, <1>9 DEF MediaInv

\* The updated saved configurations, from the old ones and the request.
LEMMA SavedUpdated ==
    ASSUME NEW old \in SavedConfigs, NEW hasOld, NEW rebuilt, NEW c \in Configs, NEW os \in Oses
    PROVE  LET new == UpdatedSavedConfigs(old, hasOld, rebuilt, c, os) IN
           /\ new \in SavedConfigs
           /\ persistSavedConfigs(new) \in SavedConfigs
           /\ new.kdump = SavedKdump(old, c)
           /\ new.args = CombinedArgs(old.args, c.extra)
           /\ new.url = CombinedUrls(old.url, c.url)
           /\ ~rebuilt => new.dracut = old.dracut /\ new.policy = old.policy
<1> DEFINE new == UpdatedSavedConfigs(old, hasOld, rebuilt, c, os)
<1>1. ConfigOK(c)
  BY ConfigsOK
<1>2. CombinedUrls(old.url, c.url) \in Urls
  BY <1>1, StringLiterals DEF SavedConfigs, ConfigOK, CombinedUrls, Urls
<1>3. CombinedArgs(old.args, c.extra) \in Seq(Args)
  <2>1. old.args \in Seq(Args) /\ c.extra \in Seq(Args)
    BY <1>1 DEF SavedConfigs, ConfigOK
  <2>2. old.args \o c.extra \in Seq(Args)
    BY <2>1
  <2> QED
    BY <2>2 DEF CombinedArgs
<1>4. new \in SavedConfigs
  BY <1>1, <1>2, <1>3 DEF UpdatedSavedConfigs, SavedConfigs, ConfigOK, Oses, RequestedModes
<1>5. persistSavedConfigs(new) \in SavedConfigs
  <2> HIDE DEF new
  <2> QED
    BY <1>4, SavedNone DEF persistSavedConfigs, SavedConfigs
<1> QED
  BY <1>4, <1>5 DEF UpdatedSavedConfigs, SavedKdump

\* updateSavedConfigs keeps it.
LEMMA MediaSavedConfigs ==
    ASSUME MediaInv, updateSavedConfigs
    PROVE  MediaInv'
<1>1. /\ phase = "savedConfigs" /\ phase' = "grub"
      /\ saved' = UpdatedSavedConfigs(store.saved, IsIso(input), Rebuilt, cfg, store.os)
      /\ store' = [store EXCEPT !.saved = persistSavedConfigs(saved')]
      /\ UNCHANGED <<input, cfg, raw, type, pxeLines, iso, pxe, runs>>
  BY DEF updateSavedConfigs
<1>2. /\ StoreOK(store) /\ store.files = OldFiles /\ store.saved = OldSaved
      /\ IF raw.exists THEN Stored ELSE Packed
      /\ raw.exists => ~store.squashfs
      /\ cfg \in Configs
  BY <1>1 DEF MediaInv, StoreInv, AfterStore, Control
<1> DEFINE new == UpdatedSavedConfigs(store.saved, IsIso(input), Rebuilt, cfg, store.os)
<1>3. /\ new \in SavedConfigs /\ persistSavedConfigs(new) \in SavedConfigs
      /\ new.kdump = SavedKdump(OldSaved, cfg)
      /\ new.args = CombinedArgs(OldSaved.args, cfg.extra)
      /\ new.url = CombinedUrls(OldSaved.url, cfg.url)
      /\ ~raw.exists => new.dracut = OldSaved.dracut /\ new.policy = OldSaved.policy
  <2>1. store.saved \in SavedConfigs /\ store.os \in Oses
    BY <1>2 DEF StoreOK
  <2>2. /\ new \in SavedConfigs /\ persistSavedConfigs(new) \in SavedConfigs
        /\ new.kdump = SavedKdump(store.saved, cfg)
        /\ new.args = CombinedArgs(store.saved.args, cfg.extra)
        /\ new.url = CombinedUrls(store.saved.url, cfg.url)
        /\ ~Rebuilt => new.dracut = store.saved.dracut /\ new.policy = store.saved.policy
    <3> DEFINE hasOld == IsIso(input)
               rebuilt == Rebuilt
               updated == UpdatedSavedConfigs(store.saved, hasOld, rebuilt, cfg, store.os)
    <3> HIDE DEF hasOld, rebuilt
    <3>1. /\ updated \in SavedConfigs /\ persistSavedConfigs(updated) \in SavedConfigs
          /\ updated.kdump = SavedKdump(store.saved, cfg)
          /\ updated.args = CombinedArgs(store.saved.args, cfg.extra)
          /\ updated.url = CombinedUrls(store.saved.url, cfg.url)
          /\ ~rebuilt => updated.dracut = store.saved.dracut /\ updated.policy = store.saved.policy
      BY <1>2, <2>1, SavedUpdated
    <3>2. updated = new
      BY DEF hasOld, rebuilt
    <3> HIDE DEF updated, new
    <3> QED
      BY <3>1, <3>2 DEF rebuilt
  <2> HIDE DEF new
  <2> QED
    BY <1>2, <2>2 DEF Rebuilt
<1> HIDE DEF new
<1>4. saved' = new
  BY <1>1 DEF new
<1> DEFINE s == [store EXCEPT !.saved = persistSavedConfigs(new)]
<1>5. store' = s
  BY <1>1, <1>4
<1>6. StoreOK(s)
  BY <1>2, <1>3, StoreWithSaved
<1>7. s.saved = persistSavedConfigs(new) /\ \A f \in StoreFields \ {"saved"} : s[f] = store[f]
  BY <1>2 DEF StoreOK, StoreFields
<1> HIDE DEF s
<1>8. /\ s.os = store.os /\ s.vmlinuz = store.vmlinuz /\ s.initrds = store.initrds /\ s.kdump = store.kdump
      /\ s.additionalKdump = store.additionalKdump /\ s.squashfs = store.squashfs /\ s.files = store.files
  BY <1>7 DEF StoreFields
<1>9. StoreInv'
  <2>1. StoreOK(store)'
    BY <1>5, <1>6 DEF StoreOK, BootFilesOK
  <2>2. (IF raw.exists THEN Stored ELSE Packed)'
    BY <1>1, <1>2, <1>5, <1>8 DEF KdumpOf, IsIso, Stored, Packed, KdumpBootFiles, LooseKdump, None
  <2>3. store'.files = OldFiles'
    BY <1>1, <1>2, <1>5, <1>8 DEF OldFiles, IsIso
  <2>4. raw'.exists => ~store'.squashfs
    BY <1>1, <1>2, <1>5, <1>8
  <2> QED
    BY <1>1, <2>1, <2>2, <2>3, <2>4 DEF StoreInv, AfterStore, AfterImages
<1>10. SavedInv'
  <2>1. OldSaved' = OldSaved
    BY <1>1 DEF OldSaved, IsIso
  <2> QED
    BY <1>1, <1>3, <1>4, <1>5, <1>7, <2>1 DEF SavedInv
<1>11. Control'
  BY <1>1, <1>3, <1>4 DEF MediaInv, Control, Running, IsoOK, StoreOK, BootFilesOK, Bootstrapped, KdumpPlaced, KdumpBootFiles
<1>12. RawInv'
  BY <1>1 DEF MediaInv, RawInv, RawOK, BootFilesOK
<1>13. (PxeLinesInv /\ OutputInv)'
  BY <1>1 DEF PxeLinesInv, OutputInv, AfterGrub
<1> QED
  BY <1>9, <1>10, <1>11, <1>12, <1>13 DEF MediaInv

\* The entries updateGrubCfg makes: first for any LiveOS, then for the ISO.
LiveOf(e) == LiveOSEntry(store.os.boot, e, type, disableSELinux(raw, saved), saved.args)

LiveLines == [k \in DOMAIN store.lines |-> LiveOf(store.lines[k])]

IsoOf(e) == IF isIsoBootImageNeeded(cfg, type) THEN updateGrubCfgForIso(store.os.boot, e, type) ELSE e

IsoLines == [k \in DOMAIN store.lines |-> IsoOf(LiveLines[k])]

PxeLines ==
    IF store.os.boot = "bls" THEN IsoLines
    ELSE [k \in DOMAIN store.lines |-> updateGrubCfgForPxe(LiveLines[k], type, saved.url)]

\* The parts of a step of updateGrubCfg.
LEMMA GrubStep ==
    ASSUME updateGrubCfg
    PROVE  /\ phase = "grub" /\ phase' \in {"images", "stage"} /\ (phase' = "images" <=> raw.exists)
           /\ UNCHANGED <<input, cfg, raw, type, saved, iso, pxe, kept, runs>>
           /\ KernelsAccepted(store.os.boot, store.vmlinuz) /\ SELinuxDecisionAccepted(raw, saved)
           /\ cfg.out = "pxe" /\ type = "bootstrap" /\ store.os.boot # "bls" =>
                 \A k \in DOMAIN store.lines : CanReplaceRoot(LiveLines[k].args)
           /\ store' = [store EXCEPT !.lines = IF isIsoBootImageNeeded(cfg, type) \/ store.os.boot = "bls"
                                               THEN IsoLines ELSE @]
           /\ cfg.out = "pxe" => pxeLines' = PxeLines
<1>1. EveryKernel(store.lines, LAMBDA e : LiveOSEntry(store.os.boot, e, type, disableSELinux(raw, saved), saved.args)) = LiveLines
  BY DEF EveryKernel, LiveLines, LiveOf
<1>2. IsoLines = IF isIsoBootImageNeeded(cfg, type)
                 THEN EveryKernel(LiveLines, LAMBDA e : updateGrubCfgForIso(store.os.boot, e, type)) ELSE LiveLines
  BY DEF EveryKernel, IsoLines, LiveLines, IsoOf
<1>3. EveryKernel(LiveLines, LAMBDA e : updateGrubCfgForPxe(e, type, saved.url)) =
        [k \in DOMAIN store.lines |-> updateGrubCfgForPxe(LiveLines[k], type, saved.url)]
  BY DEF EveryKernel, LiveLines
<1> DEFINE live == EveryKernel(store.lines, LAMBDA e : LiveOSEntry(store.os.boot, e, type, disableSELinux(raw, saved), saved.args))
           isoLines == IF isIsoBootImageNeeded(cfg, type)
                       THEN EveryKernel(live, LAMBDA e : updateGrubCfgForIso(store.os.boot, e, type)) ELSE live
           pxeLive == EveryKernel(live, LAMBDA e : updateGrubCfgForPxe(e, type, saved.url))
<1>4. /\ phase = "grub" /\ phase' = IF Rebuilt THEN "images" ELSE "stage"
      /\ UNCHANGED <<input, cfg, raw, type, saved, iso, pxe, kept, runs>>
      /\ KernelsAccepted(store.os.boot, store.vmlinuz) /\ SELinuxDecisionAccepted(raw, saved)
      /\ cfg.out = "pxe" => PxeGrubCfgAccepted(store.os.boot, live, type, saved)
      /\ store' = [store EXCEPT !.lines = IF isIsoBootImageNeeded(cfg, type) \/ store.os.boot = "bls" THEN isoLines ELSE @]
      /\ pxeLines' = IF cfg.out # "pxe" THEN NoLines ELSE IF store.os.boot = "bls" THEN isoLines ELSE pxeLive
  BY DEF updateGrubCfg
<1>5. live = LiveLines /\ isoLines = IsoLines
  BY <1>1, <1>2
<1>6. pxeLive = [k \in DOMAIN store.lines |-> updateGrubCfgForPxe(LiveLines[k], type, saved.url)]
  BY <1>3, <1>5
<1> HIDE DEF live, isoLines, pxeLive
<1>7. DOMAIN LiveLines = DOMAIN store.lines
  BY DEF LiveLines
<1>8. cfg.out = "pxe" /\ type = "bootstrap" /\ store.os.boot # "bls" =>
        \A k \in DOMAIN store.lines : CanReplaceRoot(LiveLines[k].args)
  BY <1>4, <1>5, <1>7 DEF PxeGrubCfgAccepted
<1>9. cfg.out = "pxe" => pxeLines' = PxeLines
  BY <1>4, <1>5, <1>6 DEF PxeLines
<1>10. store' = [store EXCEPT !.lines = IF isIsoBootImageNeeded(cfg, type) \/ store.os.boot = "bls"
                                        THEN IsoLines ELSE @]
  BY <1>4, <1>5
<1>11. phase = "grub" /\ phase' \in {"images", "stage"} /\ (phase' = "images" <=> raw.exists)
  BY <1>4 DEF Rebuilt
<1> QED
  BY <1>4, <1>8, <1>9, <1>10, <1>11

\* How an entry of an output comes from the one made for any LiveOS.
FromLive(live, e) ==
    /\ e \in Entries /\ e.initrd = live.initrd
    /\ IF type = "full-os" THEN e = live ELSE \E root : RootSet(live.args, e.args, root)

\* The entries that updateGrubCfg writes for an ISO and for PXE.
LEMMA GrubLines ==
    ASSUME MediaInv, updateGrubCfg
    PROVE  /\ StoreOK(store) /\ saved \in SavedConfigs /\ type \in InitramfsTypes /\ ConfigOK(cfg)
           /\ \A k \in DOMAIN store.lines : LiveLines[k] = LiveOf(store.lines[k]) /\ LiveLines[k] \in Entries
           /\ \A k \in DOMAIN store.lines :
                 IF isIsoBootImageNeeded(cfg, type)
                 THEN /\ FromLive(LiveLines[k], IsoLines[k])
                      /\ type # "full-os" => findKernelCommandLineArgValue(IsoLines[k].args, "root") = "live"
                 ELSE IsoLines[k] = LiveLines[k]
           /\ cfg.out = "pxe" => \A k \in DOMAIN store.lines :
                 /\ FromLive(LiveLines[k], PxeLines[k])
                 /\ type # "full-os" /\ store.os.boot # "bls" =>
                       findKernelCommandLineArgValue(PxeLines[k].args, "root") = getPxeBootstrapFileUrl(saved.url)
<1>1. phase = "grub"
  BY GrubStep
<1>2. StoreOK(store) /\ saved \in SavedConfigs /\ cfg \in Configs /\ type = resolveInitramfsType(input, cfg)
  BY <1>1 DEF MediaInv, StoreInv, Control, AfterStore
<1>3. type \in InitramfsTypes /\ ConfigOK(cfg)
  BY <1>2, TypeResolved, ConfigsOK
<1>4. saved.args \in Seq(Args) /\ saved.url.file \in STRING
  BY <1>2 DEF SavedConfigs, Urls
<1>5. \A e \in Entries : LiveOf(e) \in Entries
  <2> SUFFICES ASSUME NEW e \in Entries PROVE LiveOf(e) \in Entries
    OBVIOUS
  <2> DEFINE disable == disableSELinux(raw, saved)
  <2>1. disable \in BOOLEAN
    BY DEF disableSELinux
  <2> HIDE DEF disable
  <2>2. LiveEdited(e, type, disable, saved.args, LiveOSEntry(store.os.boot, e, type, disable, saved.args))
    BY <1>4, <2>1, LiveEntry
  <2> QED
    BY <2>2 DEF LiveOf, LiveEdited, disable
<1>6. ASSUME NEW k \in DOMAIN store.lines
      PROVE  LiveLines[k] = LiveOf(store.lines[k]) /\ LiveLines[k] \in Entries
  BY <1>2, <1>5 DEF LiveLines, StoreOK, BootFilesOK
<1>7. ASSUME NEW k \in DOMAIN store.lines
      PROVE  IF isIsoBootImageNeeded(cfg, type)
             THEN /\ FromLive(LiveLines[k], IsoLines[k])
                  /\ type # "full-os" => findKernelCommandLineArgValue(IsoLines[k].args, "root") = "live"
             ELSE IsoLines[k] = LiveLines[k]
  <2> DEFINE live == LiveLines[k]
             boot == store.os.boot
             new == updateGrubCfgForIso(boot, live, type)
  <2>1. live \in Entries
    BY <1>6
  <2> HIDE DEF live, boot
  <2>2. IF type = "full-os" THEN new = live
        ELSE new \in Entries /\ new.initrd = live.initrd /\ RootSet(live.args, new.args, "live")
    BY <2>1, IsoEntry
  <2> HIDE DEF new
  <2>3. FromLive(live, new) /\ (type # "full-os" => findKernelCommandLineArgValue(new.args, "root") = "live")
    BY <2>1, <2>2 DEF FromLive, RootSet
  <2> QED
    BY <2>3 DEF IsoLines, IsoOf, live, new, boot
<1>8. ASSUME cfg.out = "pxe", NEW k \in DOMAIN store.lines
      PROVE  /\ FromLive(LiveLines[k], PxeLines[k])
             /\ type # "full-os" /\ store.os.boot # "bls" =>
                   findKernelCommandLineArgValue(PxeLines[k].args, "root") = getPxeBootstrapFileUrl(saved.url)
  <2>1. CASE store.os.boot = "bls"
    <3>1. PxeLines[k] = IsoLines[k]
      BY <2>1 DEF PxeLines
    <3>2. CASE isIsoBootImageNeeded(cfg, type)
      BY <1>7, <2>1, <3>1, <3>2
    <3>3. CASE ~isIsoBootImageNeeded(cfg, type)
      <4>1. type = "full-os"
        BY <1>3, <3>3 DEF isIsoBootImageNeeded, InitramfsTypes
      <4>2. IsoLines[k] = LiveLines[k]
        BY <1>7, <3>3
      <4> QED
        BY <1>6, <2>1, <3>1, <4>1, <4>2 DEF FromLive
    <3> QED
      BY <3>2, <3>3
  <2>2. CASE store.os.boot # "bls"
    <3> DEFINE live == LiveLines[k]
               url == saved.url
               new == updateGrubCfgForPxe(live, type, url)
    <3>1. PxeLines[k] = new
      BY <2>2 DEF PxeLines
    <3>2. live \in Entries /\ url.file \in STRING
      BY <1>4, <1>6
    <3>3. type # "full-os" => CanReplaceRoot(live.args)
      BY <1>3, <1>8, <2>2, GrubStep DEF InitramfsTypes
    <3> HIDE DEF live, url
    <3>4. IF type = "full-os" THEN new = live
          ELSE new \in Entries /\ new.initrd = live.initrd /\ RootSet(live.args, new.args, getPxeBootstrapFileUrl(url))
      BY <3>2, <3>3, PxeEntry
    <3> HIDE DEF new
    <3>5. /\ FromLive(live, new)
          /\ type # "full-os" => findKernelCommandLineArgValue(new.args, "root") = getPxeBootstrapFileUrl(url)
      BY <3>2, <3>4 DEF FromLive, RootSet
    <3> QED
      BY <3>1, <3>5 DEF live, url
  <2> QED
    BY <2>1, <2>2
<1> QED
  BY <1>2, <1>3, <1>6, <1>7, <1>8

\* updateGrubCfg changes no more of the store than its entries.
LEMMA GrubStore ==
    ASSUME MediaInv, updateGrubCfg
    PROVE  /\ StoreOK(store') /\ store'.os = store.os /\ store'.vmlinuz = store.vmlinuz /\ store'.initrds = store.initrds
           /\ store'.kdump = store.kdump /\ store'.additionalKdump = store.additionalKdump /\ store'.squashfs = store.squashfs /\ store'.files = store.files
           /\ store'.saved = store.saved
           /\ store'.lines = IF isIsoBootImageNeeded(cfg, type) \/ store.os.boot = "bls" THEN IsoLines ELSE store.lines
           /\ DOMAIN store'.lines = DOMAIN store.lines
           /\ cfg.out = "pxe" => EntriesOf(PxeLines, store.vmlinuz) /\ DOMAIN PxeLines = DOMAIN store.lines
<1> DEFINE lines == IF isIsoBootImageNeeded(cfg, type) \/ store.os.boot = "bls" THEN IsoLines ELSE store.lines
           s == [store EXCEPT !.lines = lines]
<1>1. StoreOK(store)
  BY GrubLines
<1>2. store' = s
  BY <1>1, GrubStep DEF StoreOK, StoreFields
<1>3. DOMAIN IsoLines = DOMAIN store.lines /\ DOMAIN PxeLines = DOMAIN store.lines
  BY DEF IsoLines, PxeLines
<1>4. \A k \in DOMAIN store.lines : IsoLines[k] \in Entries
  BY GrubLines DEF FromLive
<1>5. DOMAIN store.lines # {} /\ DOMAIN store.lines \subseteq store.vmlinuz /\ \A k \in DOMAIN store.lines : store.lines[k] \in Entries
  BY <1>1 DEF StoreOK, BootFilesOK
<1>6. EntriesOf(lines, store.vmlinuz)
  BY <1>3, <1>4, <1>5 DEF EntriesOf
<1>7. cfg.out = "pxe" => EntriesOf(PxeLines, store.vmlinuz)
  BY <1>3, <1>5, GrubLines DEF EntriesOf, FromLive
<1>8. DOMAIN lines = DOMAIN store.lines
  BY <1>3
<1> HIDE DEF lines
<1>9. StoreOK(s)
  BY <1>1, <1>6, StoreWithLines
<1>10. s.lines = lines /\ \A f \in StoreFields \ {"lines"} : s[f] = store[f]
  BY <1>1 DEF StoreOK, StoreFields
<1> HIDE DEF s
<1>11. /\ s.os = store.os /\ s.vmlinuz = store.vmlinuz /\ s.initrds = store.initrds
       /\ s.kdump = store.kdump /\ s.additionalKdump = store.additionalKdump /\ s.squashfs = store.squashfs /\ s.files = store.files
       /\ s.saved = store.saved
  BY <1>10 DEF StoreFields
<1> QED
  BY <1>2, <1>3, <1>7, <1>8, <1>9, <1>10, <1>11 DEF lines

\* updateGrubCfg keeps it.
LEMMA MediaGrub ==
    ASSUME MediaInv, updateGrubCfg
    PROVE  MediaInv'
<1>1. /\ phase = "grub" /\ phase' \in {"images", "stage"} /\ (phase' = "images" <=> raw.exists)
      /\ UNCHANGED <<input, cfg, raw, type, saved, iso, pxe, runs>>
      /\ cfg.out = "pxe" => pxeLines' = PxeLines
  BY GrubStep
<1>2. Control'
  BY <1>1 DEF MediaInv, Control, Running, IsoOK, StoreOK, BootFilesOK, Bootstrapped, KdumpPlaced, KdumpBootFiles
<1>3. RawInv'
  BY <1>1 DEF MediaInv, RawInv, RawOK, BootFilesOK
<1>4. /\ StoreOK(store)
      /\ IF raw.exists THEN Stored ELSE Packed
      /\ store.files = OldFiles
      /\ raw.exists => ~store.squashfs
  BY <1>1 DEF MediaInv, StoreInv, AfterStore
<1>5. StoreOK(store)'
  BY GrubStore DEF StoreOK, BootFilesOK
<1>6. (IF raw.exists THEN Stored ELSE Packed)'
  BY <1>1, <1>4, GrubStore DEF KdumpOf, IsIso, Stored, Packed, KdumpBootFiles, LooseKdump, None
<1>7. store'.files = OldFiles'
  BY <1>1, <1>4, GrubStore DEF OldFiles, IsIso
<1>8. phase' \in AfterImages => (IF type' = "bootstrap" THEN store'.squashfs = TRUE ELSE store'.squashfs = FALSE) /\ (type' = "bootstrap" => Bootstrapped(store'))
  <2> SUFFICES ASSUME phase' = "stage" PROVE (IF type' = "bootstrap" THEN store'.squashfs = TRUE ELSE store'.squashfs = FALSE) /\ (type' = "bootstrap" => Bootstrapped(store'))
    BY <1>1 DEF AfterImages
  <2>1. Packed /\ IsoOK(input)
    BY <1>1, <1>4, DiskImagesOK DEF Packed, MediaInv, Control
  <2>2. type = resolveInitramfsType(input, cfg) /\ IsIso(input) /\ ~convertingInitramfsType(input, cfg)
    BY <1>1, <2>1 DEF Packed, MediaInv, Control, rebuildFullOsImage
  <2>3. type = TypeOfIso(input)
    BY <2>2, Zenon DEF resolveInitramfsType, convertingInitramfsType
  <2>4. input.squashfs \in BOOLEAN /\ (input.squashfs => Bootstrapped(input))
    BY <2>1 DEF IsoOK, StoreOK
  <2>5. store'.squashfs = input.squashfs /\ store'.vmlinuz = input.vmlinuz /\ store'.initrds = input.initrds
    BY <2>1, GrubStore DEF Packed
  <2>6. IF type = "bootstrap" THEN input.squashfs = TRUE ELSE input.squashfs = FALSE
    BY <2>3, <2>4 DEF TypeOfIso
  <2> QED
    BY <1>1, <2>4, <2>5, <2>6 DEF Bootstrapped
<1>9. StoreInv'
  <2>1. phase' = "images" /\ raw'.exists => ~store'.squashfs
    BY <1>1, <1>4, GrubStore
  <2>2. phase' \in AfterImages => ~raw'.exists
    BY <1>1 DEF AfterImages
  <2>3. phase' # "savedConfigs" /\ phase' # "grub"
    BY <1>1
  <2> QED
    BY <1>1, <1>5, <1>6, <1>7, <1>8, <2>1, <2>2, <2>3 DEF StoreInv
<1>10. SavedInv'
  <2>1. OldSaved' = OldSaved
    BY <1>1 DEF OldSaved, IsIso
  <2>2. SavedInv
    BY DEF MediaInv
  <2> QED
    BY <1>1, <2>1, <2>2, GrubStore DEF SavedInv, AfterSaved
<1>11. PxeLinesInv'
  <2>1. cfg.out = "pxe" => EntriesOf(PxeLines, store.vmlinuz)
    BY GrubStore
  <2>2. cfg'.out = "pxe" => EntriesOf(pxeLines', store'.vmlinuz)
    BY <1>1, <2>1, GrubStore
  <2> QED
    BY <2>2 DEF PxeLinesInv, EntriesOf
<1>12. OutputInv'
  BY <1>1 DEF OutputInv
<1> QED
  BY <1>2, <1>3, <1>9, <1>10, <1>11, <1>12 DEF MediaInv

\* createLiveOSImages keeps it.
LEMMA MediaImages ==
    ASSUME MediaInv, createLiveOSImages
    PROVE  MediaInv'
<1>1. /\ phase = "images" /\ phase' = "stage"
      /\ UNCHANGED <<input, cfg, raw, type, saved, pxeLines, iso, pxe, runs>>
  BY DEF createLiveOSImages
<1> DEFINE new == LiveOSImages(store, cfg, type)
<1>2. store' = new
  BY DEF createLiveOSImages, LiveOSImages
<1>3. /\ StoreOK(store)
      /\ IF raw.exists THEN Stored ELSE Packed
      /\ store.files = OldFiles /\ (raw.exists => ~store.squashfs)
  BY <1>1 DEF MediaInv, StoreInv, AfterStore
<1>4. raw.exists /\ store.squashfs = FALSE
  BY <1>1, <1>3 DEF MediaInv, StoreInv, StoreOK
<1>4a. ImagesMade(store, cfg, type, new)
  BY <1>3, <1>4, StoreWithImages
<1> HIDE DEF new
<1>5. /\ StoreOK(new) /\ new.vmlinuz = store.vmlinuz /\ new.kdump = store.kdump
      /\ new.additionalKdump = store.additionalKdump
      /\ new.files = store.files /\ new.saved = store.saved
      /\ new.os.kdump = cleanFullOSFolderForLiveOS(cfg, store)
      /\ IF type = "full-os" THEN new.squashfs = FALSE ELSE new.squashfs = TRUE /\ Bootstrapped(new)
  BY <1>4a DEF ImagesMade
<1>6. type \in InitramfsTypes
  BY <1>1, TypeResolved DEF MediaInv, Control
<1>7. StoreOK(store)'
  BY <1>2, <1>5 DEF StoreOK, BootFilesOK
<1>8. raw'.exists /\ Stored'
  BY <1>1, <1>2, <1>3, <1>4, <1>5 DEF Stored, KdumpOf, IsIso, LooseKdump
<1>9. store'.files = OldFiles'
  BY <1>1, <1>2, <1>3, <1>5 DEF OldFiles, IsIso
<1>10. store'.os.kdump = cleanFullOSFolderForLiveOS(cfg', store')
  BY <1>1, <1>2, <1>5 DEF cleanFullOSFolderForLiveOS
<1>11. (IF type' = "bootstrap" THEN store'.squashfs = TRUE ELSE store'.squashfs = FALSE) /\ (type' = "bootstrap" => Bootstrapped(store'))
  BY <1>1, <1>2, <1>5, <1>6 DEF InitramfsTypes, StoreOK
<1>12. StoreInv'
  BY <1>1, <1>7, <1>8, <1>9, <1>10, <1>11 DEF StoreInv, AfterImages, Bootstrapped, cleanFullOSFolderForLiveOS
<1>13. SavedInv'
  <2>1. OldSaved' = OldSaved /\ SavedInv
    BY <1>1 DEF OldSaved, IsIso, MediaInv
  <2> QED
    BY <1>1, <1>2, <1>5, <2>1 DEF SavedInv, AfterSaved
<1>14. PxeLinesInv'
  BY <1>1, <1>2, <1>5 DEF MediaInv, PxeLinesInv, EntriesOf, AfterGrub
<1>15. Control'
  BY <1>1 DEF MediaInv, Control, Running, IsoOK, StoreOK, BootFilesOK, Bootstrapped, KdumpPlaced, KdumpBootFiles
<1>16. RawInv'
  BY <1>1 DEF MediaInv, RawInv, RawOK, BootFilesOK
<1>17. OutputInv'
  BY <1>1 DEF OutputInv
<1> QED
  BY <1>12, <1>13, <1>14, <1>15, <1>16, <1>17 DEF MediaInv

\* The steps that end a run leave all that its outputs are made from.
LEMMA MediaEnded ==
    ASSUME MediaInv, phase \in Running, phase' \in {"ok", "failed"},
           UNCHANGED <<input, cfg, raw, store, type, saved, pxeLines, runs>>,
           phase' = "ok" => phase = "stage" /\ OutputInv'
    PROVE  MediaInv'
<1>1. Control'
  BY DEF MediaInv, Control, Running, IsoOK, StoreOK, BootFilesOK, Bootstrapped, KdumpPlaced, KdumpBootFiles
<1>2. RawInv'
  BY DEF MediaInv, RawInv, RawOK, BootFilesOK
<1>3. StoreInv'
  <2>1. OldFiles' = OldFiles /\ (Stored => Stored') /\ (Packed => Packed')
    BY DEF OldFiles, IsIso, KdumpOf, KdumpBootFiles, LooseKdump, Stored, Packed, None, rebuildFullOsImage, convertingInitramfsType, TypeOfIso
  <2>2. CASE phase' = "ok"
    BY <2>1, <2>2 DEF MediaInv, StoreInv, AfterStore, AfterImages, StoreOK, BootFilesOK, Bootstrapped,
                      cleanFullOSFolderForLiveOS
  <2>3. CASE phase' = "failed"
    BY <2>3 DEF MediaInv, StoreInv, AfterStore, AfterImages, StoreOK, BootFilesOK
  <2> QED
    BY <2>2, <2>3
<1>4. SavedInv'
  <2>1. OldSaved' = OldSaved
    BY DEF OldSaved, IsIso
  <2> QED
    BY <2>1 DEF MediaInv, SavedInv, AfterSaved
<1>5. PxeLinesInv'
  BY DEF MediaInv, PxeLinesInv, EntriesOf, AfterGrub
<1>6. OutputInv'
  BY DEF OutputInv
<1> QED
  BY <1>1, <1>2, <1>3, <1>4, <1>5, <1>6 DEF MediaInv

\* createIsoImage and createPXEArtifacts keep it.
LEMMA MediaOutput ==
    ASSUME MediaInv, createIsoImage \/ createPXEArtifacts
    PROVE  MediaInv'
<1>1. phase = "stage" /\ phase' = "ok" /\ UNCHANGED <<input, cfg, raw, store, type, saved, pxeLines, runs>>
  BY DEF createIsoImage, createPXEArtifacts
<1>2. StagedIso' = StagedIso /\ StagedPxe' = StagedPxe
  BY <1>1 DEF StagedIso, StagedPxe, FinalLines
<1>3. CASE createIsoImage
  <2>1. cfg.out = "iso" /\ pxe' = pxe /\ iso' = StagedIso
    BY <1>3 DEF createIsoImage, StagedIso
  <2>2. pxe = None
    BY <1>1 DEF MediaInv, Control, Running
  <2>3. OutputInv'
    BY <1>1, <1>2, <2>1, <2>2 DEF OutputInv
  <2> QED
    BY <1>1, <2>3, MediaEnded DEF Running
<1>4. CASE createPXEArtifacts
  <2>1. cfg.out = "pxe" /\ (type = "bootstrap" => CanGetPxeBootstrapFileUrl(cfg.url))
    BY <1>4 DEF createPXEArtifacts
  <2>2. iso' = IF type = "bootstrap" THEN StagedIso ELSE None
    BY <1>4 DEF createPXEArtifacts, StagedIso
  <2>3. FinalLines = IF store.os.boot = "bls"
                     THEN EveryKernel(pxeLines, LAMBDA e : finalizeLiveOSPxeBLSEntries(e, type, cfg.url)) ELSE pxeLines
    BY DEF FinalLines, EveryKernel
  <2> DEFINE lines == IF store.os.boot = "bls"
                      THEN EveryKernel(pxeLines, LAMBDA e : finalizeLiveOSPxeBLSEntries(e, type, cfg.url)) ELSE pxeLines
             image == IF type = "bootstrap" THEN getPxeBootstrapFileUrl(cfg.url) ELSE ""
  <2>4. pxe' = [media |-> [stageLiveOSFiles(cfg, type, store, lines) EXCEPT !.squashfs = FALSE],
                image |-> image, exists |-> TRUE]
    BY <1>4 DEF createPXEArtifacts
  <2>5. lines = FinalLines
    BY <2>3
  <2> HIDE DEF lines, image
  <2>6. pxe'.exists = TRUE /\ pxe'.media = [StagedPxe EXCEPT !.squashfs = FALSE] /\ pxe'.image = image
    BY <2>4, <2>5 DEF StagedPxe
  <2>7. type = "bootstrap" => image = getPxeBootstrapFileUrl(cfg.url)
    BY DEF image
  <2>8. OutputInv'
    BY <1>1, <1>2, <2>1, <2>2, <2>6, <2>7 DEF OutputInv
  <2> QED
    BY <1>1, <2>8, MediaEnded DEF Running
<1> QED
  BY <1>3, <1>4

\* What the next run starts from.
LEMMA IsoMade ==
    ASSUME MediaInv, phase = "ok", iso.exists
    PROVE  IsoOK(iso) /\ iso = StagedIso /\ StagedAs(store, cfg, type, store.lines, iso)
<1>1. /\ StoreOK(store) /\ (IF raw.exists THEN Stored ELSE Packed)
      /\ raw.exists => store.os.kdump = cleanFullOSFolderForLiveOS(cfg, store)
      /\ IF type = "bootstrap" THEN store.squashfs = TRUE ELSE store.squashfs = FALSE
      /\ type = "bootstrap" => Bootstrapped(store)
  BY DEF MediaInv, StoreInv, AfterStore, AfterImages
<1>2. iso = StagedIso
  BY DEF MediaInv, OutputInv, None
<1>3. StagedAs(store, cfg, type, store.lines, iso)
  BY <1>1, <1>2, Staged DEF StagedIso
<1>4. EntriesOf(store.lines, store.vmlinuz)
  BY <1>1 DEF StoreOK, BootFilesOK, EntriesOf
<1>5. /\ StoreOK(iso) /\ iso.saved = store.saved /\ iso.os = store.os /\ iso.squashfs = store.squashfs
      /\ iso.kdump = (IF cfg.kdump = "none" THEN store.kdump ELSE {}) \union store.additionalKdump
      /\ iso.vmlinuz = store.vmlinuz
      /\ type = "bootstrap" => iso.initrds = store.initrds
  BY <1>3, <1>4 DEF StagedAs
<1>6. /\ saved.kdump = SavedKdump(OldSaved, cfg) /\ store.saved = persistSavedConfigs(saved)
      /\ saved \in SavedConfigs /\ cfg \in Configs
  BY DEF MediaInv, Control, SavedInv, AfterSaved
<1>7. iso.saved.url = NoUrls /\ iso.saved.kdump = SavedKdump(OldSaved, cfg)
  BY <1>5, <1>6 DEF persistSavedConfigs, SavedConfigs
<1>8. KdumpPlaced(iso)
  <2>1. CASE cfg.kdump = "keep" /\ raw.exists
    <3>1. iso.saved.kdump = "keep" /\ iso.os.kdump = store.kdump
      BY <1>1, <1>5, <1>7, <2>1, Zenon DEF SavedKdump, cleanFullOSFolderForLiveOS
    <3>2. iso.kdump = store.additionalKdump
      BY <1>5, <2>1
    <3>3. KdumpBootFiles(iso) \subseteq iso.os.kdump
      BY <1>1, <1>5, <2>1, <3>1, <3>2 DEF Stored, KdumpBootFiles
    <3> QED
      BY <3>1, <3>3 DEF KdumpPlaced
  <2>2. CASE cfg.kdump # "keep" /\ raw.exists
    <3>1. iso.os.kdump = {}
      BY <1>1, <1>5, <2>2 DEF cleanFullOSFolderForLiveOS
    <3> QED
      BY <3>1 DEF KdumpPlaced
  <2>3. CASE ~raw.exists
    <3>1. Packed /\ IsoOK(input) /\ OldSaved = input.saved
      BY <1>1, <2>3, DiskImagesOK DEF Packed, MediaInv, Control, OldSaved
    <3>2. ~isKdumpBootFilesConfigChanging(cfg.kdump, input.saved.kdump)
      BY <3>1 DEF Packed, rebuildFullOsImage
    <3>3. KdumpPlaced(input)
      BY <3>1 DEF IsoOK
    <3>4. store.os = input.os /\ store.additionalKdump = LooseKdump(input) /\ store.vmlinuz = input.vmlinuz
      BY <3>1 DEF Packed
    <3>5. (iso.saved.kdump = "keep") <=> (input.saved.kdump = "keep")
      BY <1>7, <3>1, <3>2, Zenon DEF SavedKdump, isKdumpBootFilesConfigChanging
    <3>6. CASE iso.saved.kdump = "keep"
      <4>1. cfg.kdump # "none"
        BY <3>2, <3>5, <3>6, Zenon DEF isKdumpBootFilesConfigChanging
      <4>2. KdumpBootFiles(iso) = {}
        BY <1>5, <3>4, <4>1 DEF KdumpBootFiles, LooseKdump
      <4> QED
        BY <3>6, <4>2 DEF KdumpPlaced
    <3>7. CASE iso.saved.kdump # "keep"
      <4>1. input.os.kdump = {}
        BY <3>3, <3>5, <3>7 DEF KdumpPlaced
      <4> QED
        BY <1>5, <3>4, <3>7, <4>1 DEF KdumpPlaced
    <3> QED
      BY <3>6, <3>7
  <2> QED
    BY <2>1, <2>2, <2>3
<1>9. iso.squashfs => Bootstrapped(iso)
  BY <1>1, <1>5 DEF Bootstrapped
<1> QED
  BY <1>2, <1>3, <1>5, <1>7, <1>8, <1>9 DEF IsoOK

\* A run on the ISO of the last one, or on a disk image, starts with it.
LEMMA MediaNextRun ==
    ASSUME MediaInv, NextRun
    PROVE  MediaInv'
<1>1. PICK c \in Configs : IF phase = "ok" /\ iso.exists THEN Begin(iso, c, WithAsked(kept, cfg)) ELSE Begin(input, c, kept)
  BY DEF NextRun
<1>2. runs' = runs + 1 /\ runs < MaxRuns /\ runs \in 1..MaxRuns /\ MaxRuns \in Nat
  BY LiveOsAssumption DEF NextRun, MediaInv, Control
<1>3. /\ cfg' = c /\ phase' = "convertInput" /\ raw' = None /\ store' = None /\ saved' = NoSavedConfigs
      /\ iso' = None /\ pxe' = None
  BY <1>1 DEF Begin
<1>4. input' \in DiskImages \/ IsoOK(input')
  <2>1. CASE phase = "ok" /\ iso.exists
    BY <1>1, <2>1, IsoMade DEF Begin
  <2>2. CASE ~(phase = "ok" /\ iso.exists)
    <3>1. input' = input
      BY <1>1, <2>2 DEF Begin
    <3>2. input \in DiskImages \/ IsoOK(input)
      BY DEF MediaInv, Control
    <3> QED
      BY <3>1, <3>2
  <2> QED
    BY <2>1, <2>2
<1>5. runs' \in 1..MaxRuns
  BY <1>2
<1>6. Control'
  <2>1. IsoOK(input') <=> IsoOK(input)'
    BY DEF IsoOK, StoreOK, BootFilesOK, Bootstrapped, KdumpPlaced, KdumpBootFiles
  <2> QED
    BY <1>3, <1>4, <1>5, <2>1, SavedNone DEF Control, Running
<1>7. (RawInv /\ StoreInv /\ SavedInv /\ PxeLinesInv /\ OutputInv)'
  BY <1>3 DEF RawInv, StoreInv, SavedInv, PxeLinesInv, OutputInv, None, AfterStore, AfterSaved, AfterGrub, AfterImages
<1> QED
  BY <1>6, <1>7 DEF MediaInv

\* A step that changes nothing keeps it.
LEMMA MediaStutters ==
    ASSUME MediaInv, UNCHANGED vars
    PROVE  MediaInv'
<1>1. UNCHANGED <<input, cfg, raw, store, type, saved, pxeLines, runs, iso, pxe, phase>>
  BY DEF vars
<1>2. (Control /\ RawInv)'
  BY <1>1 DEF MediaInv, Control, RawInv, RawOK, IsoOK, StoreOK, BootFilesOK, Bootstrapped, KdumpPlaced, KdumpBootFiles, KdumpOf, IsIso
<1>3. StoreInv'
  <2>1. OldFiles' = OldFiles /\ OldSaved' = OldSaved /\ (Stored => Stored') /\ (Packed => Packed')
    BY <1>1 DEF OldFiles, OldSaved, IsIso, KdumpOf, KdumpBootFiles, LooseKdump, Stored, Packed, None
  <2> QED
    BY <1>1, <2>1 DEF MediaInv, StoreInv, StoreOK, BootFilesOK, Bootstrapped, cleanFullOSFolderForLiveOS
<1>4. (SavedInv /\ PxeLinesInv)'
  BY <1>1 DEF MediaInv, SavedInv, PxeLinesInv, EntriesOf, OldSaved, IsIso
<1>5. OutputInv'
  BY <1>1 DEF MediaInv, OutputInv, StagedIso, StagedPxe, FinalLines
<1> QED
  BY <1>2, <1>3, <1>4, <1>5 DEF MediaInv

\* Every step keeps it.
LEMMA MediaStep ==
    ASSUME MediaInv, [Next]_vars
    PROVE  MediaInv'
<1>1. CASE UNCHANGED vars
  BY <1>1, MediaStutters
<1>2. CASE Fail
  <2>1. /\ phase \in Running /\ phase' = "failed" /\ UNCHANGED <<input, cfg, raw, store, type, saved, pxeLines, runs>>
    BY <1>2 DEF Fail
  <2> QED
    BY <2>1, MediaEnded
<1>3. CASE Finished
  BY <1>3, MediaStutters DEF Finished
<1> QED
  BY <1>1, <1>2, <1>3, MediaConvertInput, MediaCustomizeOs, MediaArtifactStore, MediaSavedConfigs, MediaGrub, MediaImages,
     MediaOutput, MediaNextRun DEF Next

\* Of all images, requests and numbers of runs: the types hold of every artifact, what an
\* ISO that is only packed again has is its input's, and an output is the store, staged.
THEOREM LiveMediaInv == Spec => []MediaInv
<1>1. Init => MediaInv
  BY MediaInit
<1>2. MediaInv /\ [Next]_vars => MediaInv'
  BY MediaStep
<1> QED
  BY <1>1, <1>2, PTL DEF Spec

-----------------------------------------------------------------------------
(* What the outputs of a run are.                                           *)

\* What an output has from the artifact store.
\* What createIsoImage and createPXEArtifacts take from the store.
MediaOf(m) ==
    /\ m.exists = TRUE /\ m.os = store.os /\ m.vmlinuz = store.vmlinuz /\ m.files = store.files \union cfg.files
    /\ m.kdump = (IF cfg.kdump = "none" THEN store.kdump ELSE {}) \union store.additionalKdump
    /\ m.initrds = IF type = "full-os" THEN NoLines ELSE store.initrds
    /\ type = "full-os" => m.initrdImg = TRUE

\* The entries of an output are those of the store, or the ones of a PXE output finished.
FinalOf(old, e) ==
    /\ e \in Entries /\ e.initrd = old.initrd
    /\ \/ e = old
       \/ type # "full-os" /\ store.os.boot = "bls" /\ RootSet(old.args, e.args, getPxeBootstrapFileUrl(cfg.url))

\* The entries of the PXE artifacts are those of grub-pxe.cfg, with the root= of the run.
LEMMA FinalLinesOf ==
    ASSUME MediaInv, phase = "ok", cfg.out = "pxe"
    PROVE  /\ EntriesOf(pxeLines, store.vmlinuz) /\ DOMAIN FinalLines = DOMAIN pxeLines
           /\ \A k \in DOMAIN pxeLines : FinalOf(pxeLines[k], FinalLines[k])
           /\ \A k \in DOMAIN pxeLines : store.os.boot = "bls" /\ type # "full-os" =>
                 findKernelCommandLineArgValue(FinalLines[k].args, "root") = getPxeBootstrapFileUrl(cfg.url)
           /\ store.os.boot # "bls" => FinalLines = pxeLines
<1>1. EntriesOf(pxeLines, store.vmlinuz) /\ cfg \in Configs
  BY DEF MediaInv, PxeLinesInv, AfterGrub, Control
<1>2. cfg.url.file \in STRING
  BY <1>1, ConfigsOK DEF ConfigOK, Urls
<1>3. ASSUME NEW k \in DOMAIN pxeLines
      PROVE  /\ FinalOf(pxeLines[k], FinalLines[k])
             /\ store.os.boot = "bls" /\ type # "full-os" =>
                   findKernelCommandLineArgValue(FinalLines[k].args, "root") = getPxeBootstrapFileUrl(cfg.url)
  <2> DEFINE old == pxeLines[k]
             url == cfg.url
             new == finalizeLiveOSPxeBLSEntries(old, type, url)
  <2>1. old \in Entries
    BY <1>1 DEF EntriesOf
  <2>2. CASE store.os.boot # "bls"
    BY <2>1, <2>2 DEF FinalLines, FinalOf
  <2>3. CASE store.os.boot = "bls"
    <3>1. FinalLines[k] = new
      BY <2>3 DEF FinalLines
    <3> HIDE DEF old, url
    <3>2. IF type = "full-os" THEN new = old
          ELSE new \in Entries /\ new.initrd = old.initrd /\ RootSet(old.args, new.args, getPxeBootstrapFileUrl(url))
      BY <1>2, <2>1, FinalEntry DEF url
    <3> HIDE DEF new
    <3>3. /\ FinalOf(old, new)
          /\ type # "full-os" => findKernelCommandLineArgValue(new.args, "root") = getPxeBootstrapFileUrl(url)
      BY <2>1, <2>3, <3>2 DEF FinalOf, RootSet, url
    <3> QED
      BY <3>1, <3>3 DEF old, url
  <2> QED
    BY <2>2, <2>3
<1>4. DOMAIN FinalLines = DOMAIN pxeLines /\ (store.os.boot # "bls" => FinalLines = pxeLines)
  BY DEF FinalLines
<1> QED
  BY <1>1, <1>3, <1>4

\* What is on the media of an output.
LEMMA OutputOf ==
    ASSUME MediaInv, NEW m \in Outputs
    PROVE  /\ phase = "ok" /\ MediaOf(m)
           /\ \/ m = iso /\ iso.exists
              \/ cfg.out = "pxe" /\ pxe.exists /\ m = pxe.media /\ m.lines = FinalLines
<1>1. phase = "ok" /\ ((iso.exists /\ m = iso) \/ (pxe.exists /\ m = pxe.media))
  BY DEF Outputs
<1>2. CASE iso.exists /\ m = iso
  <2>1. StagedAs(store, cfg, type, store.lines, iso)
    BY <1>1, <1>2, IsoMade
  <2> QED
    BY <1>1, <1>2, <2>1 DEF StagedAs, MediaOf
<1>3. CASE pxe.exists /\ m = pxe.media
  <2>1. cfg.out = "pxe" /\ m = [StagedPxe EXCEPT !.squashfs = FALSE]
    <3>1. cfg.out \in {"iso", "pxe"}
      BY ConfigsOK DEF MediaInv, Control, ConfigOK
    <3>2. ~(cfg.out = "iso")
      BY <1>1, <1>3 DEF MediaInv, OutputInv, None
    <3> QED
      BY <1>1, <1>3, <3>1, <3>2 DEF MediaInv, OutputInv
  <2>2. StoreOK(store)
    BY <1>1 DEF MediaInv, StoreInv, AfterStore
  <2>3. StagedAs(store, cfg, type, FinalLines, StagedPxe)
    BY <2>2, Staged DEF StagedPxe
  <2>4. \A f \in StoreFields \ {"squashfs"} : m[f] = StagedPxe[f]
    BY <2>1, <2>3 DEF StagedAs
  <2>5. /\ m.exists = StagedPxe.exists /\ m.os = StagedPxe.os /\ m.vmlinuz = StagedPxe.vmlinuz /\ m.files = StagedPxe.files /\ m.kdump = StagedPxe.kdump
        /\ m.initrds = StagedPxe.initrds /\ m.initrdImg = StagedPxe.initrdImg /\ m.lines = StagedPxe.lines
    BY <2>4 DEF StoreFields
  <2>6. MediaOf(m) /\ m.lines = FinalLines
    BY <2>3, <2>5 DEF StagedAs, MediaOf
  <2> QED
    BY <1>1, <1>3, <2>1, <2>6
<1> QED
  BY <1>1, <1>2, <1>3

\* Every entry of an output comes from one of OutputEntries.
LEMMA OutputEntry ==
    ASSUME MediaInv, NEW m \in Outputs, NEW e \in LinesOf(m)
    PROVE  \E old \in OutputEntries : FinalOf(old, e)
<1>1. phase = "ok" /\ ((m = iso /\ iso.exists) \/ (cfg.out = "pxe" /\ m.lines = FinalLines))
  BY OutputOf
<1>2. PICK k \in DOMAIN m.lines : e = m.lines[k]
  BY DEF LinesOf
<1>3. CASE m = iso /\ iso.exists
  <2>1. m.lines = store.lines /\ (cfg.out = "iso" \/ type = "bootstrap")
    <3>1. StagedAs(store, cfg, type, store.lines, iso)
      BY <1>1, <1>3, IsoMade
    <3>2. iso = IF cfg.out = "iso" \/ type = "bootstrap" THEN StagedIso ELSE None
      BY <1>1 DEF MediaInv, OutputInv
    <3>3. cfg.out = "iso" \/ type = "bootstrap"
      BY <1>3, <3>2 DEF None
    <3> QED
      BY <1>3, <3>1, <3>3 DEF StagedAs
  <2>2. e \in OutputEntries
    BY <1>2, <2>1 DEF OutputEntries, LineSets
  <2>3. e \in Entries
    BY <1>1, <1>2, <2>1 DEF MediaInv, StoreInv, AfterStore, StoreOK, BootFilesOK
  <2> QED
    BY <2>2, <2>3 DEF FinalOf
<1>4. CASE cfg.out = "pxe" /\ m.lines = FinalLines
  <2>1. k \in DOMAIN pxeLines /\ FinalOf(pxeLines[k], e)
    BY <1>1, <1>2, <1>4, FinalLinesOf
  <2>2. pxeLines[k] \in OutputEntries
    BY <1>4, <2>1 DEF OutputEntries, LineSets
  <2> QED
    BY <2>1, <2>2
<1> QED
  BY <1>1, <1>3, <1>4

-----------------------------------------------------------------------------
(* Types, and where kdump images go.                                        *)

\* The invariant has the types in it.
LEMMA MediaTypeOK ==
    ASSUME MediaInv
    PROVE  TypeOK
<1>1. phase \in Running \union {"ok"} /\ phase # "convertInput" => type \in InitramfsTypes
  BY TypeResolved DEF MediaInv, Control, Running
<1>2. saved \in SavedConfigs /\ (store.exists => StoreOK(store))
  BY DEF MediaInv, Control, StoreInv
<1>3. store.exists => DOMAIN store.initrds \subseteq Kernels /\ store.os.kdump \subseteq Kernels
  BY <1>2 DEF StoreOK, BootFilesOK, Oses
<1>4. saved.dracut \in -1..2
  BY <1>2 DEF SavedConfigs
<1> QED
  BY <1>1, <1>2, <1>3, <1>4, Zenon DEF TypeOK, MediaInv, Control, SavedConfigs

\* What is saved and stored has the shape of saved-configs.yaml and of an artifact
\* store, and the type of the initramfs is decided when the input has been read.
THEOREM LiveTypeOK == Spec => []TypeOK
BY LiveMediaInv, MediaTypeOK, PTL

\* The kdump images of an output are those of its store.
LEMMA MediaKdump ==
    ASSUME MediaInv
    PROVE  KdumpKept
<1> SUFFICES ASSUME NEW m \in Outputs
             PROVE  LET images == KdumpOf(input) \intersect m.vmlinuz IN
                    /\ cfg.kdump = "keep" /\ (Rebuilt \/ ~DroppedEarlier(input)) => images \subseteq m.os.kdump
                    /\ cfg.kdump = "none" => images \subseteq m.kdump
                    /\ IsIso(input) => LooseKdump(input) \subseteq m.kdump
  BY DEF KdumpKept
<1>1. phase = "ok" /\ MediaOf(m)
  BY OutputOf
<1>2. /\ IF raw.exists THEN Stored ELSE Packed
      /\ raw.exists => store.os.kdump = cleanFullOSFolderForLiveOS(cfg, store)
  BY <1>1 DEF MediaInv, StoreInv, AfterStore, AfterImages
<1>3. CASE raw.exists
  BY <1>1, <1>2, <1>3 DEF MediaOf, cleanFullOSFolderForLiveOS, Stored
<1>4. CASE ~raw.exists
  <2>1. Packed /\ IsoOK(input)
    BY <1>2, <1>4, DiskImagesOK DEF Packed, MediaInv, Control
  <2>2. ~isKdumpBootFilesConfigChanging(cfg.kdump, input.saved.kdump) /\ IsIso(input)
    BY <2>1 DEF Packed, rebuildFullOsImage
  <2>3. KdumpPlaced(input)
    BY <2>1 DEF IsoOK
  <2>4. /\ m.os = input.os /\ m.vmlinuz = input.vmlinuz
        /\ m.kdump = (IF cfg.kdump = "none" THEN KdumpBootFiles(input) ELSE {}) \union LooseKdump(input)
    BY <1>1, <2>1 DEF Packed, MediaOf
  <2>5. cfg.kdump = "keep" => input.saved.kdump = "keep"
    BY <2>2, Zenon DEF isKdumpBootFilesConfigChanging
  <2>6. cfg.kdump = "none" => input.saved.kdump # "keep"
    BY <2>2, Zenon DEF isKdumpBootFilesConfigChanging
  <2>7. KdumpOf(input) \intersect m.vmlinuz = (input.os.kdump \intersect m.vmlinuz) \union KdumpBootFiles(input)
    BY <2>2, <2>4 DEF KdumpOf, KdumpBootFiles
  <2>8. cfg.kdump = "keep" /\ (Rebuilt \/ ~DroppedEarlier(input)) => KdumpOf(input) \intersect m.vmlinuz \subseteq m.os.kdump
    <3> SUFFICES ASSUME cfg.kdump = "keep", Rebuilt \/ ~DroppedEarlier(input)
                 PROVE  KdumpOf(input) \intersect m.vmlinuz \subseteq m.os.kdump
      OBVIOUS
    <3>1. KdumpBootFiles(input) \subseteq input.os.kdump
      BY <1>4, <2>2, <2>3, <2>5 DEF Rebuilt, DroppedEarlier, KdumpPlaced
    <3> QED
      BY <2>4, <2>7, <3>1
  <2>9. cfg.kdump = "none" => KdumpOf(input) \intersect m.vmlinuz \subseteq m.kdump
    <3> SUFFICES ASSUME cfg.kdump = "none"
                 PROVE  KdumpOf(input) \intersect m.vmlinuz \subseteq m.kdump
      OBVIOUS
    <3>1. input.os.kdump = {}
      BY <2>3, <2>6 DEF KdumpPlaced
    <3> QED
      BY <2>4, <2>7, <3>1
  <2> QED
    BY <2>4, <2>8, <2>9
<1> QED
  BY <1>3, <1>4

\* Of all images and requests: a kdump image that still has its kernel is kept in the
\* full OS or beside it, as the run was told, also when the ISO is only packed again
\* and no image is made, unless a run before took away what was to be kept; one without
\* a kernel stays beside the full OS.
THEOREM LiveKdumpKept == Spec => []KdumpKept
BY LiveMediaInv, MediaKdump, PTL

-----------------------------------------------------------------------------
(* The entries: what a step before and after updateGrubCfg does to them.    *)

\* After updateGrubCfg no step changes an entry of the store.
LEMMA LaterSteps ==
    ASSUME MediaInv, [Next]_vars, phase' \in AfterGrub
    PROVE  \/ updateGrubCfg
           \/ /\ phase \in AfterGrub /\ UNCHANGED <<input, cfg, raw, type, saved, pxeLines, kept>>
              /\ store'.lines = store.lines /\ store'.os.distro = store.os.distro /\ store'.os.boot = store.os.boot
              /\ store'.os.seConfig = store.os.seConfig /\ store'.os.dflt = store.os.dflt
<1>1. CASE UNCHANGED vars
  BY <1>1 DEF vars
<1>2. CASE createLiveOSImages
  <2>1. /\ phase = "images" /\ UNCHANGED <<input, cfg, raw, type, saved, pxeLines, kept>>
        /\ store' = LiveOSImages(store, cfg, type)
    BY <1>2 DEF createLiveOSImages, LiveOSImages
  <2>2. StoreOK(store) /\ store.squashfs = FALSE
    BY <2>1 DEF MediaInv, StoreInv, AfterStore, StoreOK
  <2>3. ImagesMade(store, cfg, type, store')
    BY <2>1, <2>2, StoreWithImages
  <2> QED
    BY <2>1, <2>3 DEF ImagesMade, AfterGrub
<1>3. CASE createIsoImage \/ createPXEArtifacts
  BY <1>3 DEF createIsoImage, createPXEArtifacts, AfterGrub
<1>4. CASE Finished
  BY <1>4 DEF Finished, vars
<1>5. CASE convertInputImageToWriteableFormat \/ customizeOSContents \/ createIsoArtifactStoreFromMountedImage
             \/ updateSavedConfigs \/ Fail \/ NextRun
  BY <1>5 DEF convertInputImageToWriteableFormat, customizeOSContents, createIsoArtifactStoreFromMountedImage,
              updateSavedConfigs, Fail, NextRun, Begin, AfterGrub
<1> QED
  BY <1>1, <1>2, <1>3, <1>4, <1>5 DEF Next

\* The entries of the outputs stay when nothing they are made from changes.
LEMMA SameEntries ==
    ASSUME UNCHANGED <<cfg, type, pxeLines>>, store'.lines = store.lines
    PROVE  OutputEntries' = OutputEntries
BY DEF OutputEntries, LineSets

\* The entries updateGrubCfg leaves come from those of the store.
LEMMA GrubEntries ==
    ASSUME MediaInv, updateGrubCfg, NEW e \in OutputEntries'
    PROVE  \E k \in DOMAIN store.lines : FromLive(LiveOf(store.lines[k]), e)
<1>1. /\ UNCHANGED <<cfg, type>> /\ (cfg.out = "pxe" => pxeLines' = PxeLines)
  BY GrubStep
<1>2. PICK lines \in LineSets' : \E k \in DOMAIN lines : e = lines[k]
  BY DEF OutputEntries
<1>3. CASE lines = store'.lines /\ (cfg.out = "iso" \/ type = "bootstrap")
  <2>1. isIsoBootImageNeeded(cfg, type)
    BY <1>3 DEF isIsoBootImageNeeded
  <2>2. lines = IsoLines
    BY <1>3, <2>1, GrubStore
  <2>3. PICK k \in DOMAIN store.lines : e = IsoLines[k]
    BY <1>2, <2>2 DEF IsoLines
  <2> QED
    BY <2>1, <2>3, GrubLines
<1>4. CASE lines = pxeLines' /\ cfg.out = "pxe"
  <2>1. PICK k \in DOMAIN store.lines : e = PxeLines[k]
    BY <1>1, <1>2, <1>4, GrubStore
  <2> QED
    BY <1>4, <2>1, GrubLines
<1>5. \/ lines = store'.lines /\ (cfg.out = "iso" \/ type = "bootstrap")
      \/ lines = pxeLines' /\ cfg.out = "pxe"
  BY <1>1, <1>2 DEF LineSets
<1> QED
  BY <1>3, <1>4, <1>5

\* What is known of an entry once it is one of a LiveOS.
LEMMA LiveOfKnown ==
    ASSUME MediaInv, updateGrubCfg, NEW k \in DOMAIN store.lines
    PROVE  LiveEdited(store.lines[k], type, disableSELinux(raw, saved), saved.args, LiveOf(store.lines[k]))
<1> DEFINE disable == disableSELinux(raw, saved)
           e == store.lines[k]
           boot == store.os.boot
           extra == saved.args
           new == LiveOSEntry(boot, e, type, disable, extra)
<1>1. e \in Entries /\ disable \in BOOLEAN /\ extra \in Seq(Args)
  BY GrubLines DEF StoreOK, BootFilesOK, SavedConfigs, disableSELinux
<1> HIDE DEF disable, e, boot, extra
<1>2. LiveEdited(e, type, disable, extra, new)
  BY <1>1, LiveEntry
<1>3. LiveOf(store.lines[k]) = new
  BY DEF LiveOf, boot, e, disable, extra
<1> HIDE DEF new
<1> QED
  BY <1>2, <1>3 DEF disable, e, extra

-----------------------------------------------------------------------------
(* root= of a PXE output.                                                   *)

\* Every step keeps PxeRootInv.
LEMMA PxeRootStep ==
    ASSUME MediaInv, PxeRootInv, [Next]_vars
    PROVE  PxeRootInv'
<1> SUFFICES ASSUME phase' \in AfterGrub, cfg'.out = "pxe", type' = "bootstrap", store'.os.boot # "bls",
                    NEW k \in DOMAIN pxeLines'
             PROVE  findKernelCommandLineArgValue(pxeLines'[k].args, "root") = getPxeBootstrapFileUrl(saved'.url)
  BY DEF PxeRootInv
<1>1. CASE updateGrubCfg
  <2>1. cfg' = cfg /\ type' = type /\ saved' = saved /\ store'.os = store.os
    BY <1>1, GrubStep, GrubStore
  <2>2. pxeLines' = PxeLines /\ k \in DOMAIN store.lines
    BY <1>1, <2>1, GrubStep, GrubStore
  <2> QED
    BY <1>1, <2>1, <2>2, GrubLines
<1>2. CASE ~updateGrubCfg
  BY <1>2, LaterSteps DEF PxeRootInv
<1> QED
  BY <1>1, <1>2

\* PxeRootInv is enough for the PXE artifacts.
LEMMA MediaPxe ==
    ASSUME MediaInv, PxeRootInv
    PROVE  PxeFetchesItsImage
<1> SUFFICES ASSUME phase = "ok", pxe.exists, type = "bootstrap", NEW e \in LinesOf(pxe.media)
             PROVE  findKernelCommandLineArgValue(e.args, "root") = pxe.image
  BY DEF PxeFetchesItsImage
<1>1. /\ cfg.out = "pxe" /\ pxe.image = getPxeBootstrapFileUrl(cfg.url) /\ CanGetPxeBootstrapFileUrl(cfg.url)
  <2>1. cfg.out \in {"iso", "pxe"}
    BY ConfigsOK DEF MediaInv, Control, ConfigOK
  <2> QED
    BY <2>1 DEF MediaInv, OutputInv, None
<1>2. pxe.media.lines = FinalLines
  <2>1. StoreOK(store)
    BY DEF MediaInv, StoreInv, AfterStore
  <2>2. StagedAs(store, cfg, type, FinalLines, StagedPxe)
    BY <2>1, Staged DEF StagedPxe
  <2>3. pxe.media = [StagedPxe EXCEPT !.squashfs = FALSE]
    BY <1>1 DEF MediaInv, OutputInv
  <2> QED
    BY <2>2, <2>3 DEF StagedAs, StoreFields
<1>3. PICK k \in DOMAIN pxeLines : e = FinalLines[k]
  BY <1>1, <1>2, FinalLinesOf DEF LinesOf
<1>4. CASE store.os.boot = "bls"
  BY <1>1, <1>3, <1>4, FinalLinesOf
<1>5. CASE store.os.boot # "bls"
  <2>1. findKernelCommandLineArgValue(e.args, "root") = getPxeBootstrapFileUrl(saved.url)
    BY <1>1, <1>3, <1>5, FinalLinesOf DEF PxeRootInv, AfterGrub
  <2>2. saved.url = CombinedUrls(NoUrls, cfg.url)
    <3>1. saved.url = CombinedUrls(OldSaved.url, cfg.url)
      BY DEF MediaInv, SavedInv, AfterSaved
    <3>2. OldSaved.url = NoUrls
      BY DiskImagesOK DEF MediaInv, Control, OldSaved, IsoOK, NoSavedConfigs
    <3> QED
      BY <3>1, <3>2
  <2>3. getPxeBootstrapFileUrl(saved.url) = getPxeBootstrapFileUrl(cfg.url)
    <3> DEFINE none == ""
    <3>1. saved.url.file = IF cfg.url.base # none THEN none ELSE IF cfg.url.file # none THEN cfg.url.file ELSE none
      <4>1. NoUrls.file = none
        BY DEF NoUrls
      <4>2. CombinedUrls(NoUrls, cfg.url).file = IF cfg.url.base # none THEN none ELSE IF cfg.url.file # none THEN cfg.url.file ELSE NoUrls.file
        BY Zenon DEF CombinedUrls
      <4> QED
        BY <2>2, <4>1, <4>2, Zenon
    <3>2. cfg.url.base = none \/ cfg.url.file = none
      BY <1>1, Zenon DEF CanGetPxeBootstrapFileUrl
    <3> HIDE DEF none
    <3>3. saved.url.file = cfg.url.file
      BY <3>1, <3>2
    <3> QED
      BY <3>3 DEF getPxeBootstrapFileUrl
  <2> QED
    BY <1>1, <2>1, <2>3
<1> QED
  BY <1>4, <1>5

\* Of all chains of configuration files: a machine that boots over PXE asks for the
\* file that the ISO was put in, although the name comes from the merged configuration
\* and root= from the saved configurations.
THEOREM LivePxeFetchesItsImage == Spec => []PxeFetchesItsImage
<1>1. Init => PxeRootInv
  BY DEF Init, PxeRootInv, AfterGrub
<1>2. MediaInv /\ PxeRootInv /\ [Next]_vars => PxeRootInv'
  BY PxeRootStep
<1>3. MediaInv /\ PxeRootInv => PxeFetchesItsImage
  BY MediaPxe
<1> QED
  BY <1>1, <1>2, <1>3, LiveMediaInv, PTL DEF Spec

-----------------------------------------------------------------------------
(* root= and what earlier runs asked for, when nobody asks for a root= of   *)
(* their own.                                                               *)

\* No saved argument has one of these names.
\* What an earlier run saved has none of the names.
SavedLeave(names) == findMatchingCommandLineArgs(OldSaved.args, names) = <<>>

\* The arguments saved are those of the earlier runs, then those of this one.
LEMMA SavedArgs ==
    ASSUME MediaInv, phase \in AfterSaved
    PROVE  /\ saved.args = OldSaved.args \o cfg.extra
           /\ OldSaved.args \in Seq(Args) /\ cfg.extra \in Seq(Args) /\ saved.args \in Seq(Args)
<1>1. saved.args = OldSaved.args \o cfg.extra /\ saved \in SavedConfigs /\ cfg \in Configs
  BY DEF MediaInv, SavedInv, Control, CombinedArgs
<1>2. OldSaved \in SavedConfigs
  <2>1. CASE IsIso(input)
    <3>1. IsoOK(input)
      BY <2>1, DiskImagesOK DEF MediaInv, Control
    <3> QED
      BY <2>1, <3>1 DEF OldSaved, IsoOK, StoreOK
  <2>2. CASE ~IsIso(input)
    BY <2>2, SavedNone DEF OldSaved
  <2> QED
    BY <2>1, <2>2
<1>3. saved.args \in Seq(Args) /\ OldSaved.args \in Seq(Args)
  BY <1>1, <1>2 DEF SavedConfigs
<1>4. cfg.extra \in Seq(Args)
  BY <1>1, ConfigsOK DEF ConfigOK
<1> QED
  BY <1>1, <1>3, <1>4

\* They have none of the names that no request uses.
LEMMA SavedLeft ==
    ASSUME MediaInv, phase \in AfterSaved, NEW names, ExtrasLeave(names), SavedLeave(names)
    PROVE  findMatchingCommandLineArgs(saved.args, names) = <<>>
<1> DEFINE old == OldSaved.args
           extra == cfg.extra
<1>1. saved.args = old \o extra /\ old \in Seq(Args) /\ extra \in Seq(Args)
  BY SavedArgs
<1>2. findMatchingCommandLineArgs(old, names) = <<>>
  BY DEF SavedLeave
<1>3. findMatchingCommandLineArgs(extra, names) = <<>>
  BY ExtrasLeft DEF MediaInv, Control
<1> HIDE DEF old, extra
<1>4. findMatchingCommandLineArgs(old \o extra, names) = <<>> \o <<>>
  BY <1>1, <1>2, <1>3, ConcatArgs
<1> QED
  BY <1>1, <1>4

\* The input of a step is that of the run, or the ISO the run made.
LEMMA NextInput ==
    ASSUME MediaInv, [Next]_vars
    PROVE  \/ input' = input /\ kept' = kept
           \/ /\ NextRun /\ phase = "ok" /\ input' = iso /\ kept' = WithAsked(kept, cfg)
              /\ IsoOK(iso) /\ IsIso(iso)
              /\ iso.saved.args = saved.args /\ iso.files = OldFiles \union cfg.files
              /\ iso.saved.dracut = saved.dracut /\ iso.saved.policy = saved.policy
              /\ iso.lines = store.lines /\ iso.os = store.os
<1>1. CASE NextRun /\ phase = "ok" /\ iso.exists
  <2>1. input' = iso /\ kept' = WithAsked(kept, cfg)
    BY <1>1 DEF NextRun, Begin
  <2>2. IsoOK(iso) /\ StagedAs(store, cfg, type, store.lines, iso)
    BY <1>1, IsoMade
  <2>3. /\ store.files = OldFiles /\ store.saved = persistSavedConfigs(saved) /\ saved \in SavedConfigs
    BY <1>1 DEF MediaInv, StoreInv, SavedInv, Control, AfterStore, AfterSaved
  <2>4. /\ persistSavedConfigs(saved).args = saved.args /\ persistSavedConfigs(saved).dracut = saved.dracut
        /\ persistSavedConfigs(saved).policy = saved.policy
    BY <2>3 DEF persistSavedConfigs, SavedConfigs
  <2>5. IsIso(iso)
    BY <2>2 DEF IsoOK, StoreOK, IsIso
  <2> QED
    BY <1>1, <2>1, <2>2, <2>3, <2>4, <2>5 DEF StagedAs
<1>2. CASE NextRun /\ ~(phase = "ok" /\ iso.exists)
  BY <1>2 DEF NextRun, Begin
<1>3. CASE ~NextRun
  BY <1>3 DEF Next, vars, convertInputImageToWriteableFormat, customizeOSContents, createIsoArtifactStoreFromMountedImage,
              updateSavedConfigs, updateGrubCfg, createLiveOSImages, createIsoImage, createPXEArtifacts, Fail, Finished
<1> QED
  BY <1>1, <1>2, <1>3

\* Nor has what a next run finds saved.
LEMMA SavedLeaveStep ==
    ASSUME MediaInv, [Next]_vars, NEW names, ExtrasLeave(names), SavedLeave(names)
    PROVE  SavedLeave(names)'
<1>1. CASE input' = input
  BY <1>1 DEF SavedLeave, OldSaved, IsIso
<1>2. CASE phase = "ok" /\ input' = iso /\ iso.saved.args = saved.args /\ IsIso(iso)
  <2>1. findMatchingCommandLineArgs(saved.args, names) = <<>>
    BY <1>2, SavedLeft DEF AfterSaved
  <2>2. OldSaved' = iso.saved
    BY <1>2 DEF OldSaved, IsIso
  <2> QED
    BY <1>2, <2>1, <2>2 DEF SavedLeave
<1> QED
  BY <1>1, <1>2, NextInput

\* Nothing is saved before the first run.
LEMMA SavedLeaveInit ==
    ASSUME Init, NEW names
    PROVE  SavedLeave(names)
<1>1. OldSaved.args = <<>>
  BY DiskImagesOK DEF Init, OldSaved, NoSavedConfigs
<1> QED
  BY <1>1, MatchingEmpty DEF SavedLeave

\* A line without root= has no argument of that name.
LEMMA NoneHas ==
    ASSUME NEW line \in Seq(Args), findMatchingCommandLineArgs(line, {"root"}) = <<>>, NEW a, HasArg(line, a)
    PROVE  a.name # "root"
<1> SUFFICES ASSUME a.name = "root" PROVE FALSE
  OBVIOUS
<1> DEFINE dropped == STRING \ {"root"}
<1>1. a.name \notin dropped
  OBVIOUS
<1>2. STRING \ dropped = {"root"}
  BY StringLiterals
<1> HIDE DEF dropped
<1>3. HasArg(Without(line, dropped), a)
  BY <1>1, HasWithout
<1>4. Without(line, dropped) = <<>>
  BY <1>2 DEF Without
<1> QED
  BY <1>3, <1>4 DEF HasArg

\* Every step keeps RootInv.
LEMMA RootStep ==
    ASSUME MediaInv, ExtrasLeave({"root"}), SavedLeave({"root"}), RootInv, [Next]_vars
    PROVE  RootInv'
<1> SUFFICES ASSUME phase' \in AfterGrub
             PROVE  RootInv'
  BY DEF RootInv
<1>1. CASE updateGrubCfg
  <2>1. type' = type /\ cfg' = cfg /\ phase = "grub"
    BY <1>1, GrubStep
  <2>2. findMatchingCommandLineArgs(saved.args, {"root"}) = <<>>
    BY <2>1, SavedLeft DEF AfterSaved
  <2>3. CASE type = "full-os"
    <3>1. ASSUME NEW e \in OutputEntries'
          PROVE  findMatchingCommandLineArgs(e.args, {"root"}) = <<>> /\ e.initrd = "shared"
      <4>1. PICK k \in DOMAIN store.lines : FromLive(LiveOf(store.lines[k]), e)
        BY <1>1, <3>1, GrubEntries
      <4>2. e = LiveOf(store.lines[k])
        BY <2>3, <4>1 DEF FromLive
      <4> QED
        BY <1>1, <2>2, <2>3, <4>2, LiveOfKnown DEF LiveEdited
    <3> QED
      BY <2>1, <2>3, <3>1 DEF RootInv
  <2>4. CASE type # "full-os"
    <3>1. type = "bootstrap"
      BY <1>1, <2>4, GrubLines DEF InitramfsTypes
    <3>2. isIsoBootImageNeeded(cfg, type)
      BY <3>1 DEF isIsoBootImageNeeded
    <3>3. store'.lines = IsoLines /\ DOMAIN store'.lines = DOMAIN store.lines
      BY <1>1, <3>2, GrubStore
    <3>4. \A k \in DOMAIN store.lines : findKernelCommandLineArgValue(IsoLines[k].args, "root") = "live"
      BY <1>1, <2>4, <3>2, GrubLines
    <3> QED
      BY <2>1, <2>4, <3>3, <3>4 DEF RootInv
  <2> QED
    BY <2>3, <2>4
<1>2. CASE ~updateGrubCfg
  <2>1. phase \in AfterGrub /\ UNCHANGED <<cfg, type, pxeLines>> /\ store'.lines = store.lines
    BY <1>2, LaterSteps
  <2>2. OutputEntries' = OutputEntries
    BY <2>1, SameEntries
  <2> QED
    BY <2>1, <2>2 DEF RootInv
<1> QED
  BY <1>1, <1>2

\* RootInv is enough for media that boot.
LEMMA MediaComplete ==
    ASSUME MediaInv, RootInv
    PROVE  MediaBoots
<1> SUFFICES ASSUME NEW m \in Outputs
             PROVE  /\ DOMAIN m.lines # {}
                    /\ \A k \in DOMAIN m.lines : k \in m.vmlinuz /\ InitramfsStaged(m, k)
                    /\ \A e \in LinesOf(m) :
                          /\ LET root == findKernelCommandLineArgValue(e.args, "root")
                             IN IF type = "full-os" THEN root = "" ELSE m = iso => root = "live"
                          /\ type = "full-os" => e.initrd = "shared"
                    /\ m = iso => m.squashfs = (type = "bootstrap")
  BY DEF MediaBoots
<1>1. /\ phase = "ok" /\ MediaOf(m)
      /\ (m = iso /\ iso.exists) \/ (cfg.out = "pxe" /\ m.lines = FinalLines)
  BY OutputOf
<1>2. m = iso => iso.exists
  BY <1>1 DEF MediaOf
<1>3. m = iso => StagedAs(store, cfg, type, store.lines, iso)
  BY <1>1, <1>2, IsoMade
<1>4. /\ StoreOK(store) /\ (IF type = "bootstrap" THEN store.squashfs = TRUE ELSE store.squashfs = FALSE)
      /\ type = "bootstrap" => Bootstrapped(store)
      /\ type \in InitramfsTypes
  BY <1>1, TypeResolved DEF MediaInv, StoreInv, Control, AfterStore, AfterImages
<1>5. DOMAIN m.lines # {} /\ DOMAIN m.lines \subseteq store.vmlinuz
  <2>1. CASE m = iso
    BY <1>3, <1>4, <2>1 DEF StagedAs, StoreOK, BootFilesOK
  <2>2. CASE cfg.out = "pxe" /\ m.lines = FinalLines
    BY <1>1, <2>2, FinalLinesOf DEF EntriesOf
  <2> QED
    BY <1>1, <2>1, <2>2
<1>6. ASSUME NEW k \in DOMAIN m.lines
      PROVE  k \in m.vmlinuz /\ InitramfsStaged(m, k)
  <2>1. k \in store.vmlinuz /\ m.vmlinuz = store.vmlinuz
    BY <1>1, <1>5 DEF MediaOf
  <2>2. CASE type = "full-os"
    BY <1>1, <2>1, <2>2 DEF MediaOf, InitramfsStaged
  <2>3. CASE type # "full-os"
    BY <1>1, <1>4, <2>1, <2>3 DEF MediaOf, InitramfsStaged, InitramfsTypes, Bootstrapped
  <2> QED
    BY <2>2, <2>3
<1>7. ASSUME NEW e \in LinesOf(m), type = "full-os"
      PROVE  findKernelCommandLineArgValue(e.args, "root") = "" /\ e.initrd = "shared"
  <2>1. PICK old \in OutputEntries : FinalOf(old, e)
    BY OutputEntry
  <2>2. e = old
    BY <1>7, <2>1 DEF FinalOf
  <2>3. findMatchingCommandLineArgs(e.args, {"root"}) = <<>> /\ e.initrd = "shared"
    BY <1>1, <1>7, <2>2 DEF RootInv, AfterGrub
  <2> QED
    BY <2>3, FindNone
<1>8. ASSUME NEW e \in LinesOf(m), type # "full-os", m = iso
      PROVE  findKernelCommandLineArgValue(e.args, "root") = "live"
  <2>1. m.lines = store.lines
    BY <1>3, <1>8 DEF StagedAs
  <2> QED
    BY <1>1, <1>8, <2>1 DEF LinesOf, RootInv, AfterGrub
<1>9. m = iso => m.squashfs = (type = "bootstrap")
  BY <1>3, <1>4 DEF StagedAs
<1> QED
  BY <1>5, <1>6, <1>7, <1>8, <1>9

\* Of all images, and all requests that add no root= of their own: what comes out of
\* any number of runs boots, with an initramfs for every entry, with root= the label
\* of the ISO or without it, and with the squashfs of a bootstrap ISO.
THEOREM LiveBoots ==
    ASSUME ExtrasLeave({"root"})
    PROVE  Spec => []MediaBoots
<1>1. Init => SavedLeave({"root"}) /\ RootInv
  BY SavedLeaveInit DEF Init, RootInv, AfterGrub
<1>2. MediaInv /\ SavedLeave({"root"}) /\ RootInv /\ [Next]_vars => (SavedLeave({"root"}) /\ RootInv)'
  BY RootStep, SavedLeaveStep
<1>3. MediaInv /\ RootInv => MediaBoots
  BY MediaComplete
<1> QED
  BY <1>1, <1>2, <1>3, LiveMediaInv, PTL DEF Spec

-----------------------------------------------------------------------------

\* Every step keeps KeptInv.
LEMMA KeptStep ==
    ASSUME MediaInv, ExtrasLeave({"root"}), SavedLeave({"root"}), KeptInv, [Next]_vars
    PROVE  KeptInv'
<1>1. (IF IsIso(input)
       THEN (\A a \in kept.args : HasArg(input.saved.args, a)) /\ kept.files \subseteq input.files
       ELSE kept = NothingKept)'
  <2>1. CASE input' = input /\ kept' = kept
    BY <2>1 DEF KeptInv, IsIso, NothingKept
  <2>2. CASE /\ NextRun /\ phase = "ok" /\ input' = iso /\ kept' = WithAsked(kept, cfg)
             /\ IsoOK(iso) /\ IsIso(iso)
             /\ iso.saved.args = saved.args /\ iso.files = OldFiles \union cfg.files
    <3>1. saved.args = OldSaved.args \o cfg.extra /\ OldSaved.args \in Seq(Args) /\ cfg.extra \in Seq(Args)
      BY <2>2, SavedArgs DEF AfterSaved
    <3>2. kept'.args = kept.args \union {cfg.extra[i] : i \in DOMAIN cfg.extra} /\ kept'.files = kept.files \union cfg.files
      BY <2>2 DEF WithAsked
    <3>3. (\A a \in kept.args : HasArg(OldSaved.args, a)) /\ kept.files \subseteq OldFiles
      BY DEF KeptInv, OldSaved, OldFiles, NothingKept, NoSavedConfigs
    <3>4. ASSUME NEW a \in kept'.args PROVE HasArg(saved.args, a)
      <4>1. HasArg(OldSaved.args, a) \/ HasArg(cfg.extra, a)
        BY <3>1, <3>2, <3>3 DEF HasArg
      <4> QED
        BY <3>1, <4>1, HasConcat
    <3>5. kept'.files \subseteq iso.files
      BY <2>2, <3>2, <3>3
    <3>6. \A a \in kept'.args : HasArg(iso.saved.args, a)
      BY <2>2, <3>4
    <3> QED
      BY <2>2, <3>5, <3>6 DEF IsIso
  <2> QED
    BY <2>1, <2>2, NextInput
<1>2. ASSUME phase' \in AfterGrub, NEW e \in OutputEntries', NEW a, HasArg(saved'.args, a)
      PROVE  HasArg(e.args, a)
  <2>1. CASE updateGrubCfg
    <3>1. saved' = saved /\ phase = "grub"
      BY <2>1, GrubStep
    <3>2. findMatchingCommandLineArgs(saved.args, {"root"}) = <<>> /\ saved.args \in Seq(Args)
      BY <3>1, SavedLeft, SavedArgs DEF AfterSaved
    <3>3. a.name # "root"
      BY <1>2, <3>1, <3>2, NoneHas
    <3>4. PICK k \in DOMAIN store.lines : FromLive(LiveOf(store.lines[k]), e)
      BY <1>2, <2>1, GrubEntries
    <3>5. HasArg(LiveOf(store.lines[k]).args, a)
      BY <1>2, <2>1, <3>1, LiveOfKnown DEF LiveEdited
    <3> QED
      BY <3>3, <3>4, <3>5 DEF FromLive, RootSet
  <2>2. CASE ~updateGrubCfg
    <3>1. /\ phase \in AfterGrub /\ UNCHANGED <<cfg, type, pxeLines, saved>> /\ store'.lines = store.lines
      BY <1>2, <2>2, LaterSteps
    <3>2. OutputEntries' = OutputEntries
      BY <3>1, SameEntries
    <3> QED
      BY <1>2, <3>1, <3>2 DEF KeptInv
  <2> QED
    BY <2>1, <2>2
<1> QED
  BY <1>1, <1>2 DEF KeptInv

\* KeptInv is enough for what earlier runs asked for.
LEMMA MediaKept ==
    ASSUME MediaInv, ExtrasLeave({"root"}), SavedLeave({"root"}), KeptInv
    PROVE  EarlierRunsKept
<1> SUFFICES ASSUME NEW m \in Outputs
             PROVE  /\ WithAsked(kept, cfg).files \subseteq m.files
                    /\ \A e \in LinesOf(m), a \in WithAsked(kept, cfg).args : \E i \in DOMAIN e.args : e.args[i] = a
  BY DEF EarlierRunsKept
<1>1. phase = "ok" /\ MediaOf(m)
  BY OutputOf
<1>2. /\ WithAsked(kept, cfg).args = kept.args \union {cfg.extra[i] : i \in DOMAIN cfg.extra}
      /\ WithAsked(kept, cfg).files = kept.files \union cfg.files
  BY DEF WithAsked
<1>3. (\A a \in kept.args : HasArg(OldSaved.args, a)) /\ kept.files \subseteq OldFiles
  BY DEF KeptInv, OldSaved, OldFiles, NothingKept, NoSavedConfigs
<1>4. store.files = OldFiles
  BY <1>1 DEF MediaInv, StoreInv, AfterStore
<1>5. WithAsked(kept, cfg).files \subseteq m.files
  BY <1>1, <1>2, <1>3, <1>4 DEF MediaOf
<1>6. ASSUME NEW e \in LinesOf(m), NEW a \in WithAsked(kept, cfg).args
      PROVE  \E i \in DOMAIN e.args : e.args[i] = a
  <2>1. /\ saved.args = OldSaved.args \o cfg.extra /\ OldSaved.args \in Seq(Args) /\ cfg.extra \in Seq(Args)
        /\ saved.args \in Seq(Args)
    BY <1>1, SavedArgs DEF AfterSaved
  <2>2. HasArg(OldSaved.args, a) \/ HasArg(cfg.extra, a)
    BY <1>2, <1>3, <2>1 DEF HasArg
  <2>3. HasArg(saved.args, a)
    BY <2>1, <2>2, HasConcat
  <2>4. PICK old \in OutputEntries : FinalOf(old, e)
    BY OutputEntry
  <2>5. HasArg(old.args, a)
    BY <1>1, <2>3 DEF KeptInv, AfterGrub
  <2>6. a.name # "root"
    <3>1. findMatchingCommandLineArgs(saved.args, {"root"}) = <<>>
      BY <1>1, SavedLeft DEF AfterSaved
    <3> QED
      BY <2>1, <2>3, <3>1, NoneHas
  <2>7. HasArg(e.args, a) /\ e.args \in Seq(Args)
    BY <2>4, <2>5, <2>6 DEF FinalOf, RootSet, Entries
  <2> QED
    BY <2>7 DEF HasArg
<1> QED
  BY <1>5, <1>6

\* Of all images, and all requests that add no root= of their own: what the runs behind
\* an output asked for is in it, whatever was regenerated or packed again in between.
THEOREM LiveRunsKept ==
    ASSUME ExtrasLeave({"root"})
    PROVE  Spec => []EarlierRunsKept
<1>1. Init => SavedLeave({"root"}) /\ KeptInv
  BY SavedLeaveInit, DiskImagesOK DEF Init, KeptInv, AfterGrub
<1>2. MediaInv /\ SavedLeave({"root"}) /\ KeptInv /\ [Next]_vars => (SavedLeave({"root"}) /\ KeptInv)'
  BY KeptStep, SavedLeaveStep
<1>3. MediaInv /\ SavedLeave({"root"}) /\ KeptInv => EarlierRunsKept
  BY MediaKept
<1> QED
  BY <1>1, <1>2, <1>3, LiveMediaInv, PTL DEF Spec

-----------------------------------------------------------------------------
(* SELinux, when what /etc/default/grub says is what the entries say.       *)

\* A command line with the SELinux arguments of a mode asks for that mode, and one with
\* those of permissive or enforcing defers to the configuration file.
LEMMA ModeOfArgs ==
    /\ \A line : line = selinuxModeToArgs("disabled") =>
          getSELinuxModeFromLinuxArgs(line) = "disabled" /\ getSELinuxModeFromLinuxArgsDeferIfMissing(line) = "disabled"
    /\ \A mode \in {"permissive", "enforcing"} : \A line : line = selinuxModeToArgs(mode) =>
          /\ line \in Seq(Args) /\ findMatchingCommandLineArgs(line, selinuxArgNames) = line
          /\ getSELinuxModeFromLinuxArgs(line) = SELinuxModeDefault
          /\ getSELinuxModeFromLinuxArgsDeferIfMissing(line) = SELinuxModeDefault
<1>1. ASSUME NEW line, line = selinuxModeToArgs("disabled")
      PROVE  getSELinuxModeFromLinuxArgs(line) = "disabled" /\ getSELinuxModeFromLinuxArgsDeferIfMissing(line) = "disabled"
  <2>1. line = <<Arg("selinux", "0")>> /\ findMatchingCommandLineArgs(line, {"selinux"}) = line
        /\ findMatchingCommandLineArgs(line, selinuxArgNames) = line
    BY <1>1, TemplateArgs, SELinuxNames
  <2>2. findKernelCommandLineArgValue(line, "selinux") = "0"
    BY <2>1, FindOne
  <2>3. "0" # "1"
    OBVIOUS
  <2>4. getSELinuxModeFromLinuxArgs(line) = "disabled"
    BY <2>2, <2>3, Zenon DEF getSELinuxModeFromLinuxArgs
  <2>5. line # <<>>
    BY <2>1
  <2> QED
    BY <2>1, <2>4, <2>5 DEF getSELinuxModeFromLinuxArgsDeferIfMissing
<1>2. ASSUME NEW mode \in {"permissive", "enforcing"}, NEW line, line = selinuxModeToArgs(mode)
      PROVE  /\ line \in Seq(Args) /\ findMatchingCommandLineArgs(line, selinuxArgNames) = line
             /\ getSELinuxModeFromLinuxArgs(line) = SELinuxModeDefault
             /\ getSELinuxModeFromLinuxArgsDeferIfMissing(line) = SELinuxModeDefault
  <2> DEFINE a == Arg("security", "selinux")
             b == Arg("selinux", "1")
  <2>1. line = <<a, b>>
    BY <1>2 DEF selinuxModeToArgs, getCommonSELinuxArgs
  <2>2. a \in Args /\ a.name = "security" /\ b \in Args /\ b.name = "selinux" /\ <<a>> \in Seq(Args)
    BY ArgsOf, StringLiterals
  <2> HIDE DEF a, b
  <2>3. <<a, b>> = Append(<<a>>, b) /\ <<a, b>> \in Seq(Args)
    BY <2>2
  <2>4. ASSUME NEW names
        PROVE  /\ findMatchingCommandLineArgs(<<a>>, names) = IF "security" \in names THEN <<a>> ELSE <<>>
               /\ findMatchingCommandLineArgs(<<a, b>>, names) =
                    IF "selinux" \in names THEN Append(findMatchingCommandLineArgs(<<a>>, names), b)
                    ELSE findMatchingCommandLineArgs(<<a>>, names)
    <3>1. findMatchingCommandLineArgs(<<a>>, names) = IF a.name \in names THEN <<a>> ELSE <<>>
      BY <2>2, MatchingOne
    <3>2. findMatchingCommandLineArgs(Append(<<a>>, b), names) =
            IF b.name \in names THEN Append(findMatchingCommandLineArgs(<<a>>, names), b)
            ELSE findMatchingCommandLineArgs(<<a>>, names)
      BY <2>2, MatchingAppend
    <3> QED
      BY <2>2, <2>3, <3>1, <3>2
  <2>5. findMatchingCommandLineArgs(<<a, b>>, {"security"}) = <<a>>
    BY <2>4
  <2>6. findMatchingCommandLineArgs(<<a, b>>, {"selinux"}) = <<b>>
    BY <2>4
  <2>7. findMatchingCommandLineArgs(<<a, b>>, {"enforcing"}) = <<>>
    BY <2>4
  <2>8. findMatchingCommandLineArgs(<<a, b>>, selinuxArgNames) = <<a, b>>
    BY <2>3, <2>4 DEF selinuxArgNames
  <2>9. findKernelCommandLineArgValue(line, "security") = "selinux"
    BY <2>1, <2>5, FindOne DEF a
  <2>10. findKernelCommandLineArgValue(line, "selinux") = "1"
    BY <2>1, <2>6, FindOne DEF b
  <2>11. findKernelCommandLineArgValue(line, "enforcing") # "1"
    <3>1. findKernelCommandLineArgValue(line, "enforcing") = ""
      BY <2>1, <2>7, FindNone, Zenon
    <3>2. "" # "1"
      BY Zenon
    <3> QED
      BY <3>1, <3>2, Zenon
  <2>12. getSELinuxModeFromLinuxArgs(line) = SELinuxModeDefault
    BY <2>9, <2>10, <2>11, Zenon DEF getSELinuxModeFromLinuxArgs
  <2>13. line # <<>> /\ findMatchingCommandLineArgs(line, selinuxArgNames) = line
    BY <2>1, <2>8
  <2> QED
    BY <2>1, <2>3, <2>12, <2>13, Zenon DEF getSELinuxModeFromLinuxArgsDeferIfMissing
<1> QED
  BY <1>1, <1>2

\* Whether SELinux is off depends on the SELinux arguments, the distribution and the
\* configuration file only.
SameSELinux(line, other) == findMatchingCommandLineArgs(line, selinuxArgNames) = findMatchingCommandLineArgs(other, selinuxArgNames)

\* Lines with the same SELinux arguments stand for the same mode.
LEMMA SameOff ==
    ASSUME NEW os, NEW other, other.distro = os.distro, other.seConfig = os.seConfig,
           NEW line \in Seq(Args), NEW args \in Seq(Args), SameSELinux(line, args)
    PROVE  (Off(os, line) <=> Off(other, args)) /\ getSELinuxModeFromLinuxArgs(line) = getSELinuxModeFromLinuxArgs(args)
<1>1. /\ getSELinuxModeFromLinuxArgs(line) = getSELinuxModeFromLinuxArgs(args)
      /\ getSELinuxModeFromLinuxArgsDeferIfMissing(line) = getSELinuxModeFromLinuxArgsDeferIfMissing(args)
  BY SameSELinuxMode DEF SameSELinux
<1>2. GetSELinuxModeFromLinuxArgs(os, line) = GetSELinuxModeFromLinuxArgs(other, args)
  BY <1>1, Zenon DEF GetSELinuxModeFromLinuxArgs
<1>3. ModeOf(os, line) = ModeOf(other, args)
  BY <1>2, Zenon DEF ModeOf
<1> QED
  BY <1>1, <1>3 DEF Off

\* SELinux is off with selinux=0, and when it is not asked for where it is off by default.
LEMMA OffOf ==
    ASSUME NEW os, NEW line \in Seq(Args)
    PROVE  /\ findMatchingCommandLineArgs(line, selinuxArgNames) = selinuxModeToArgs("disabled") =>
                 Off(os, line) /\ getSELinuxModeFromLinuxArgs(line) # "force-enforcing"
           /\ os.seConfig = "disabled" /\ getSELinuxModeFromLinuxArgs(line) # "force-enforcing" => Off(os, line)
<1>1. ASSUME findMatchingCommandLineArgs(line, selinuxArgNames) = selinuxModeToArgs("disabled")
      PROVE  Off(os, line) /\ getSELinuxModeFromLinuxArgs(line) # "force-enforcing"
  <2> DEFINE off == selinuxModeToArgs("disabled")
  <2>1. off \in Seq(Args) /\ findMatchingCommandLineArgs(off, selinuxArgNames) = off
    BY TemplateArgs, SELinuxNames
  <2>2. getSELinuxModeFromLinuxArgs(off) = "disabled" /\ getSELinuxModeFromLinuxArgsDeferIfMissing(off) = "disabled"
    BY ModeOfArgs
  <2> HIDE DEF off
  <2>3. getSELinuxModeFromLinuxArgs(line) = "disabled" /\ getSELinuxModeFromLinuxArgsDeferIfMissing(line) = "disabled"
    BY <1>1, <2>1, <2>2, SameSELinuxMode DEF off
  <2>4. GetSELinuxModeFromLinuxArgs(os, line) = "disabled"
    BY <2>3, Zenon DEF GetSELinuxModeFromLinuxArgs
  <2>5. "disabled" # SELinuxModeDefault
    BY Zenon DEF SELinuxModeDefault
  <2>6. Off(os, line)
    BY <2>4, <2>5, Zenon DEF Off, ModeOf
  <2>7. "disabled" # "force-enforcing"
    OBVIOUS
  <2> QED
    BY <2>3, <2>6, <2>7, Zenon
<1>2. ASSUME os.seConfig = "disabled", getSELinuxModeFromLinuxArgs(line) # "force-enforcing"
      PROVE  Off(os, line)
  <2>1. getSELinuxModeFromLinuxArgs(line) \in {"disabled", SELinuxModeDefault}
    BY <1>2, Zenon DEF getSELinuxModeFromLinuxArgs
  <2>2. getSELinuxModeFromLinuxArgsDeferIfMissing(line) \in {"disabled", SELinuxModeDefault}
    BY <2>1, Zenon DEF getSELinuxModeFromLinuxArgsDeferIfMissing
  <2>3. GetSELinuxModeFromLinuxArgs(os, line) \in {"disabled", SELinuxModeDefault}
    BY <2>1, <2>2, Zenon DEF GetSELinuxModeFromLinuxArgs
  <2> QED
    BY <1>2, <2>3, Zenon DEF Off, ModeOf
<1> QED
  BY <1>1, <1>2

\* A fresh entry has the SELinux arguments of /etc/default/grub.
LEMMA FreshSELinux ==
    ASSUME NEW os \in Oses
    PROVE  FreshLine(os) \in Seq(Args) /\ SameSELinux(os.dflt, FreshLine(os))
<1> DEFINE root == <<Arg("root", "partition")>>
           dflt == os.dflt
<1>1. dflt \in Seq(Args)
  BY DEF Oses
<1>2. root \in Seq(Args) /\ findMatchingCommandLineArgs(root, selinuxArgNames) = <<>>
  BY RootArg, StringLiterals
<1>3. FreshLine(os) = root \o dflt
  BY DEF FreshLine
<1> HIDE DEF root, dflt
<1>4. findMatchingCommandLineArgs(root \o dflt, selinuxArgNames) = <<>> \o findMatchingCommandLineArgs(dflt, selinuxArgNames)
  <2>1. findMatchingCommandLineArgs(root \o dflt, selinuxArgNames) =
          findMatchingCommandLineArgs(root, selinuxArgNames) \o findMatchingCommandLineArgs(dflt, selinuxArgNames)
    BY <1>1, <1>2, ConcatArgs
  <2> QED
    BY <1>2, <2>1
<1>5. findMatchingCommandLineArgs(dflt, selinuxArgNames) \in Seq(Args)
  BY <1>1, MatchingSeq
<1>6. findMatchingCommandLineArgs(root \o dflt, selinuxArgNames) = findMatchingCommandLineArgs(dflt, selinuxArgNames)
  BY <1>4, <1>5, ConcatEmptySeq
<1> QED
  BY <1>1, <1>2, <1>3, <1>6 DEF SameSELinux, dflt

\* SELinux is switched off in /etc/default/grub and in the configuration file, or on in both.
LEMMA CustomizedMode ==
    ASSUME NEW os \in Oses, NEW mode \in {"disabled", "permissive", "enforcing"}, NEW dracut \in os.dracut..2
    PROVE  LET new == CustomizedOs(os, mode, dracut) IN
           /\ new.seConfig = mode
           /\ getSELinuxModeFromLinuxArgs(new.dflt) # "force-enforcing"
           /\ mode # "disabled" => ~Off(new, new.dflt)
<1> DEFINE new == CustomizedOs(os, mode, dracut)
           args == selinuxModeToArgs(mode)
           dflt == updateKernelCommandLineArgsHelper(os.dflt, selinuxArgNames, args)
<1>1. mode \in RequestedModes /\ mode # "" /\ mode # "force-enforcing"
  BY Zenon DEF RequestedModes, SELinuxModes
<1>2. new \in Oses /\ new.seConfig = ConfigFileMode(mode) /\ new.dflt = dflt
  BY <1>1, CustomizedOsOK, Zenon
<1>3. new.seConfig = mode
  BY <1>1, <1>2, Zenon DEF ConfigFileMode
<1>4. os.dflt \in Seq(Args) /\ new.dflt \in Seq(Args)
  BY <1>2 DEF Oses
<1>5. args \in Seq(Args) /\ findMatchingCommandLineArgs(args, selinuxArgNames) = args
  <2>1. CASE mode = "disabled"
    BY <2>1, TemplateArgs, SELinuxNames
  <2>2. CASE mode \in {"permissive", "enforcing"}
    BY <2>2, ModeOfArgs
  <2> QED
    BY <2>1, <2>2
<1> HIDE DEF new, args
<1>6. findMatchingCommandLineArgs(new.dflt, selinuxArgNames) = args
  BY <1>2, <1>4, <1>5, MatchingUpdated
<1>7. CASE mode = "disabled"
  <2>1. getSELinuxModeFromLinuxArgs(new.dflt) # "force-enforcing"
    BY <1>4, <1>6, <1>7, OffOf DEF args
  <2> QED
    BY <1>3, <1>7, <2>1 DEF new
<1>8. CASE mode \in {"permissive", "enforcing"}
  <2>1. getSELinuxModeFromLinuxArgs(args) = SELinuxModeDefault /\ getSELinuxModeFromLinuxArgsDeferIfMissing(args) = SELinuxModeDefault
    BY <1>8, ModeOfArgs DEF args
  <2>2. getSELinuxModeFromLinuxArgs(new.dflt) = SELinuxModeDefault
        /\ getSELinuxModeFromLinuxArgsDeferIfMissing(new.dflt) = SELinuxModeDefault
    BY <1>4, <1>5, <1>6, <2>1, SameSELinuxMode
  <2>3. GetSELinuxModeFromLinuxArgs(new, new.dflt) = SELinuxModeDefault
    BY <2>2, Zenon DEF GetSELinuxModeFromLinuxArgs
  <2>4. ModeOf(new, new.dflt) = mode
    BY <1>3, <2>3, Zenon DEF ModeOf
  <2>5. mode # "disabled"
    BY <1>8
  <2>6. SELinuxModeDefault # "force-enforcing"
    BY Zenon DEF SELinuxModeDefault
  <2> QED
    BY <1>3, <2>2, <2>4, <2>5, <2>6, Zenon DEF Off, new
<1> QED
  BY <1>7, <1>8

\* Without a requested mode an OS keeps its SELinux settings.
LEMMA CustomizedNoMode ==
    ASSUME NEW os \in Oses, NEW mode, mode = "", NEW dracut \in os.dracut..2
    PROVE  LET new == CustomizedOs(os, mode, dracut) IN
           new.dflt = os.dflt /\ new.seConfig = os.seConfig /\ new.distro = os.distro
<1>1. mode \in RequestedModes
  BY Zenon DEF RequestedModes
<1> QED
  BY <1>1, CustomizedOsOK, Zenon

\* What a line says of SELinux agrees with /etc/default/grub.
Agrees(os, args) == Off(os, os.dflt) => Off(os, args)

NotForced(args) == getSELinuxModeFromLinuxArgs(args) # "force-enforcing"

\* An entry that grub2-mkconfig writes says what /etc/default/grub says.
LEMMA FreshAgrees ==
    ASSUME NEW os \in Oses
    PROVE  Agrees(os, FreshLine(os)) /\ (NotForced(os.dflt) => NotForced(FreshLine(os)))
<1>1. os.dflt \in Seq(Args)
  BY DEF Oses
<1> QED
  BY <1>1, FreshSELinux, SameOff DEF Agrees, NotForced

\* An entry of the Boot Loader Specification that was there before.
LEMMA KeptAgrees ==
    ASSUME NEW os \in Oses, NEW mode \in RequestedModes, mode # "force-enforcing", NEW dracut \in os.dracut..2,
           NEW args \in Seq(Args), Agrees(os, args), NotForced(args), NotForced(os.dflt)
    PROVE  LET new == CustomizedOs(os, mode, dracut) IN Agrees(new, args) /\ NotForced(new.dflt)
<1> DEFINE new == CustomizedOs(os, mode, dracut)
<1>1. CASE mode = ""
  <2>1. new.dflt = os.dflt /\ new.seConfig = os.seConfig /\ new.distro = os.distro
    BY <1>1, CustomizedNoMode
  <2>2. os.dflt \in Seq(Args)
    BY DEF Oses
  <2> HIDE DEF new
  <2>3. Off(os, os.dflt) <=> Off(new, new.dflt)
    BY <2>1, <2>2, SameOff DEF SameSELinux
  <2>4. Off(os, args) <=> Off(new, args)
    BY <2>1, SameOff DEF SameSELinux
  <2> QED
    BY <2>1, <2>3, <2>4 DEF Agrees, NotForced, new
<1>2. CASE mode \in {"disabled", "permissive", "enforcing"}
  <2>1. /\ new.seConfig = mode /\ NotForced(new.dflt) /\ (mode # "disabled" => ~Off(new, new.dflt))
    BY <1>2, CustomizedMode DEF NotForced
  <2> HIDE DEF new
  <2>2. mode = "disabled" => Off(new, args)
    BY <2>1, OffOf DEF NotForced
  <2> QED
    BY <2>1, <2>2 DEF Agrees, new
<1>3. mode = "" \/ mode \in {"disabled", "permissive", "enforcing"}
  BY Zenon DEF RequestedModes, SELinuxModes
<1> QED
  BY <1>1, <1>2, <1>3

\* No request for another mode makes /etc/default/grub ask for force-enforcing.
LEMMA FreshNotForced ==
    ASSUME NEW os \in Oses, NEW mode \in RequestedModes, mode # "force-enforcing", NEW dracut \in os.dracut..2, NotForced(os.dflt)
    PROVE  NotForced(CustomizedOs(os, mode, dracut).dflt)
<1>1. os.dflt \in Seq(Args)
  BY DEF Oses
<1>2. Agrees(os, os.dflt)
  BY DEF Agrees
<1> QED
  BY <1>1, <1>2, KeptAgrees

\* SELinuxReadable, said of one line at a time.
LEMMA ReadableAs ==
    ASSUME NEW x
    PROVE  SELinuxReadable(x) <=>
               /\ x.os.boot # "legacy" => \A k \in DOMAIN x.lines : Agrees(x.os, x.lines[k].args)
               /\ x.os.boot = "bls" => /\ \A r \in Requests : r.selinux # "force-enforcing"
                                       /\ NotForced(x.os.dflt) /\ \A k \in DOMAIN x.lines : NotForced(x.lines[k].args)
BY DEF SELinuxReadable, DfltSpeaksForEntries, NotForcedBls, Agrees, NotForced

\* It does not depend on anything else of the OS.
LEMMA ReadableSame ==
    ASSUME NEW x, NEW y, SELinuxReadable(x), y.lines = x.lines, y.os.boot = x.os.boot, y.os.distro = x.os.distro,
           y.os.seConfig = x.os.seConfig, y.os.dflt = x.os.dflt, x.os \in Oses,
           \A k \in DOMAIN x.lines : x.lines[k] \in Entries
    PROVE  SELinuxReadable(y)
<1>1. x.os.dflt \in Seq(Args) /\ \A k \in DOMAIN x.lines : x.lines[k].args \in Seq(Args)
  BY DEF Oses, Entries
<1>2. ASSUME NEW args \in Seq(Args) PROVE Off(x.os, args) <=> Off(y.os, args)
  BY SameOff DEF SameSELinux
<1>3. \A k \in DOMAIN x.lines : Agrees(x.os, x.lines[k].args) => Agrees(y.os, x.lines[k].args)
  BY <1>1, <1>2 DEF Agrees
<1> QED
  BY <1>3, ReadableAs

\* Customizing the OS keeps it so: the mode that is set goes to /etc/default/grub and to
\* the configuration file, and the entries that stay are not force-enforcing.
LEMMA CustomizedReadable ==
    ASSUME NEW r, RawOK(r), SELinuxReadable(r), NEW mode \in RequestedModes, mode # "" => \E q \in Requests : q.selinux = mode,
           NEW dracut \in r.os.dracut..2, NEW kernels \in SUBSET Kernels, kernels # {}, NEW regenerated \in BOOLEAN,
           NEW kdump \in SUBSET Kernels
    PROVE  SELinuxReadable(CustomizedImage(r, CustomizedOs(r.os, mode, dracut), kernels, regenerated, mode, kdump))
<1> DEFINE os == CustomizedOs(r.os, mode, dracut)
           r1 == [r EXCEPT !.os = os]
           lines == CustomizedLines(r1, kernels, regenerated, mode)
           new == CustomizedImage(r, os, kernels, regenerated, mode, kdump)
<1>1. r.os \in Oses /\ (\A k \in DOMAIN r.lines : r.lines[k] \in Entries) /\ r.os.dflt \in Seq(Args)
  BY DEF RawOK, BootFilesOK, Oses
<1>2. os \in Oses /\ os.boot = r.os.boot /\ os.distro = r.os.distro
  BY <1>1, CustomizedOsOK
<1>3. r1.os = os /\ r1.vmlinuz = r.vmlinuz /\ r1.lines = r.lines
  BY DEF RawOK, RawFields
<1>4. Agrees(os, FreshLine(os)) /\ (NotForced(os.dflt) => NotForced(FreshLine(os)))
  BY <1>2, FreshAgrees
<1>5. new.os = os /\ new.lines = lines
  <2> HIDE DEF os
  <2>1. /\ CustomizedImage(r, os, kernels, regenerated, mode, kdump).os = os
        /\ CustomizedImage(r, os, kernels, regenerated, mode, kdump).lines =
              CustomizedLines([r EXCEPT !.os = os], kernels, regenerated, mode)
    <3>1. RawOK(r) /\ os \in Oses /\ kernels \in SUBSET Kernels /\ kernels # {} /\ regenerated \in BOOLEAN /\ kdump \in SUBSET Kernels
      BY <1>2
    <3>2. CustomizedFrom(r, os, kernels, regenerated, mode, kdump, CustomizedImage(r, os, kernels, regenerated, mode, kdump))
      BY <3>1, CustomizedRaw
    <3> QED
      BY <3>2, Zenon DEF CustomizedFrom
  <2> QED
    BY <2>1, Zenon
<1>6. CASE r.os.boot = "mkconfig"
  <2>1. ASSUME NEW k \in DOMAIN lines PROVE Agrees(os, lines[k].args)
    <3>1. lines = IF mode # "" \/ kernels # r.vmlinuz THEN FreshLines(os, kernels) ELSE r.lines
      <4> HIDE DEF r1, os
      <4> QED
        BY <1>2, <1>3, <1>6 DEF CustomizedLines
    <3>2. CASE lines = FreshLines(os, kernels)
      <4> HIDE DEF os, lines
      <4>1. lines[k].args = FreshLine(os)
        BY <2>1, <3>2 DEF FreshLines, Entry
      <4> QED
        BY <1>4, <4>1 DEF os
    <3>3. CASE mode = "" /\ lines = r.lines
      <4>1. os.dflt = r.os.dflt /\ os.seConfig = r.os.seConfig /\ os.distro = r.os.distro
        BY <1>1, <3>3, CustomizedNoMode
      <4>2. r.lines[k].args \in Seq(Args) /\ Agrees(r.os, r.lines[k].args)
        <5>1. k \in DOMAIN r.lines
          BY <2>1, <3>3
        <5>2. r.os.boot # "legacy"
          BY <1>6
        <5> QED
          BY <1>1, <5>1, <5>2, ReadableAs DEF Entries
      <4> HIDE DEF os, lines
      <4>3. Off(r.os, r.os.dflt) <=> Off(os, os.dflt)
        BY <1>1, <4>1, SameOff DEF SameSELinux
      <4>4. Off(r.os, r.lines[k].args) <=> Off(os, r.lines[k].args)
        <5> DEFINE args == r.lines[k].args
        <5>1. args \in Seq(Args)
          BY <4>2
        <5> HIDE DEF args
        <5>2. Off(r.os, args) <=> Off(os, args)
          BY <4>1, <5>1, SameOff DEF SameSELinux
        <5> QED
          BY <5>2 DEF args
      <4>5. Agrees(os, r.lines[k].args)
        BY <4>2, <4>3, <4>4 DEF Agrees
      <4> QED
        BY <3>3, <4>5 DEF os
    <3> HIDE DEF lines
    <3> QED
      BY <3>1, <3>2, <3>3, Zenon
  <2>2. os.boot # "bls"
    BY <1>2, <1>6
  <2> HIDE DEF os, lines, new
  <2> QED
    BY <1>5, <2>1, <2>2, ReadableAs DEF new, os
<1>7. CASE r.os.boot = "bls"
  <2>1. mode # "force-enforcing"
    BY <1>7, Zenon DEF SELinuxReadable, NotForcedBls
  <2>2. NotForced(r.os.dflt) /\ \A k \in DOMAIN r.lines : NotForced(r.lines[k].args) /\ Agrees(r.os, r.lines[k].args)
    <3>1. r.os.boot # "legacy"
      BY <1>7
    <3> QED
      BY <1>7, <3>1, ReadableAs
  <2>3. NotForced(os.dflt)
    BY <1>1, <2>1, <2>2, FreshNotForced
  <2>4. \A q \in Requests : q.selinux # "force-enforcing"
    BY <1>7 DEF SELinuxReadable, NotForcedBls
  <2>5. lines = [k \in kernels |-> IF regenerated \/ k \notin DOMAIN r.lines THEN Entry("own", FreshLine(os)) ELSE r.lines[k]]
    <3> HIDE DEF r1, os
    <3> QED
      BY <1>2, <1>3, <1>7 DEF CustomizedLines
  <2>6. ASSUME NEW k \in DOMAIN r.lines PROVE Agrees(os, r.lines[k].args)
    <3> DEFINE args == r.lines[k].args
    <3>1. args \in Seq(Args) /\ Agrees(r.os, args) /\ NotForced(args)
      BY <1>1, <2>2 DEF Entries
    <3> HIDE DEF args
    <3>2. Agrees(CustomizedOs(r.os, mode, dracut), args)
      BY <1>1, <2>1, <2>2, <3>1, KeptAgrees
    <3> QED
      BY <3>2 DEF args
  <2> HIDE DEF os
  <2>7. ASSUME NEW k \in DOMAIN lines PROVE Agrees(os, lines[k].args) /\ NotForced(lines[k].args)
    <3>1. k \in kernels
      BY <2>5, <2>7
    <3>2. CASE regenerated \/ k \notin DOMAIN r.lines
      <4>1. lines[k] = Entry("own", FreshLine(os))
        BY <2>5, <3>1, <3>2
      <4>2. lines[k].args = FreshLine(os)
        <5>1. \A x : Entry("own", x).args = x
          BY DEF Entry
        <5> QED
          BY <4>1, <5>1
      <4> QED
        BY <1>4, <2>3, <4>2
    <3>3. CASE ~(regenerated \/ k \notin DOMAIN r.lines)
      <4>1. lines[k] = r.lines[k]
        BY <2>5, <3>1, <3>3
      <4> QED
        BY <2>2, <2>6, <3>3, <4>1
    <3> QED
      BY <3>2, <3>3
  <2> HIDE DEF lines, new
  <2> QED
    BY <1>5, <2>3, <2>4, <2>7, ReadableAs DEF new, os
<1>8. CASE r.os.boot = "legacy"
  <2>1. new.os.boot = "legacy"
    BY <1>2, <1>5, <1>8
  <2> HIDE DEF new
  <2>2. SELinuxReadable(new)
    BY <2>1, ReadableAs
  <2> QED
    BY <2>2 DEF new, os
<1> QED
  BY <1>1, <1>6, <1>7, <1>8 DEF Oses

\* Of the SELinux arguments of an entry: they agree with /etc/default/grub, and switch
\* SELinux off where a LiveOS cannot have it.
SELinuxOf(args) ==
    /\ store.os.boot # "legacy" => Agrees(store.os, args)
    /\ store.os.boot = "bls" => NotForced(args)
    /\ ~verifyNoLiveOsSelinuxBlockers(saved) => Off(store.os, args)

\* Lines with the same SELinux arguments are alike for the invariant.
LEMMA SELinuxOfSame ==
    ASSUME NEW line \in Seq(Args), NEW args \in Seq(Args), SameSELinux(line, args), SELinuxOf(line)
    PROVE  SELinuxOf(args)
<1>1. (Off(store.os, line) <=> Off(store.os, args)) /\ (NotForced(line) <=> NotForced(args))
  BY SameOff DEF NotForced
<1> QED
  BY <1>1 DEF SELinuxOf, Agrees

\* Where SELinux stays as it is because it reads as disabled, or because the ISO is packed
\* again, the entries say so too.
LEMMA KeptOff ==
    ASSUME MediaInv, SELinuxInv, updateGrubCfg, ~disableSELinux(raw, saved), ~verifyNoLiveOsSelinuxBlockers(saved),
           NEW k \in DOMAIN store.lines
    PROVE  Off(store.os, store.lines[k].args)
<1>1. phase = "grub" /\ KernelsAccepted(store.os.boot, store.vmlinuz)
  BY GrubStep
<1>2. /\ IF raw.exists THEN store.os = raw.os /\ store.lines = raw.lines ELSE store.lines = input.lines
      /\ SELinuxReadable(store)
  BY <1>1 DEF SELinuxInv, AfterStore
<1>3. StoreOK(store) /\ (~raw.exists => Packed)
  BY <1>1 DEF MediaInv, StoreInv, AfterStore
<1>4. CASE raw.exists
  <2>1. getSELinuxMode(raw) = "disabled"
    BY <1>4 DEF disableSELinux
  <2>2. CASE store.os.boot = "legacy"
    <3>1. Off(store.os, store.lines[CHOOSE x \in DOMAIN store.lines : TRUE].args)
      BY <1>2, <1>4, <2>1, <2>2 DEF getSELinuxMode, Off
    <3>2. k = CHOOSE x \in DOMAIN store.lines : TRUE
      <4>1. Cardinality(store.vmlinuz) = 1
        BY <1>1, <2>2 DEF KernelsAccepted
      <4>2. store.vmlinuz \subseteq Kernels /\ DOMAIN store.lines \subseteq store.vmlinuz
        BY <1>3 DEF StoreOK, BootFilesOK
      <4>3. IsFiniteSet(store.vmlinuz)
        BY <4>2, LiveOsAssumption, FS_Subset
      <4>4. \E x : store.vmlinuz = {x}
        BY <4>1, <4>3, FS_Singleton
      <4> QED
        BY <4>2, <4>4
    <3> QED
      BY <3>1, <3>2
  <2>3. CASE store.os.boot # "legacy"
    <3>1. Off(store.os, store.os.dflt)
      BY <1>2, <1>4, <2>1, <2>3 DEF getSELinuxMode, Off
    <3>2. Agrees(store.os, store.lines[k].args)
      BY <1>2, <2>3, ReadableAs
    <3> QED
      BY <3>1, <3>2 DEF Agrees
  <2> QED
    BY <2>2, <2>3
<1>5. CASE ~raw.exists
  <2>1. Packed /\ store.lines = input.lines
    BY <1>2, <1>3, <1>5
  <2>2. store.os = input.os /\ IsIso(input)
    BY <2>1 DEF Packed
  <2>3. saved.dracut = input.saved.dracut /\ saved.policy = input.saved.policy
    BY <1>1, <1>5, <2>2 DEF MediaInv, SavedInv, AfterSaved, OldSaved
  <2>4. ~verifyNoLiveOsSelinuxBlockers(input.saved)
    BY <2>3 DEF verifyNoLiveOsSelinuxBlockers
  <2> QED
    BY <2>1, <2>2, <2>4 DEF SELinuxInv
<1> QED
  BY <1>4, <1>5

\* The entries of the LiveOS have SELinux off where it is not supported.
LEMMA LiveSELinux ==
    ASSUME MediaInv, SELinuxInv, updateGrubCfg, ExtrasLeave(selinuxArgNames), SavedLeave(selinuxArgNames),
           NEW k \in DOMAIN store.lines
    PROVE  SELinuxOf(LiveOf(store.lines[k]).args) /\ LiveOf(store.lines[k]).args \in Seq(Args)
<1> DEFINE old == store.lines[k].args
           live == LiveOf(store.lines[k]).args
<1>1. phase = "grub"
  BY GrubStep
<1>2. StoreOK(store) /\ SELinuxReadable(store)
  BY <1>1 DEF MediaInv, StoreInv, AfterStore, SELinuxInv
<1>3. old \in Seq(Args)
  BY <1>2 DEF StoreOK, BootFilesOK, Entries
<1>4. findMatchingCommandLineArgs(saved.args, selinuxArgNames) = <<>>
  BY <1>1, SavedLeft DEF AfterSaved
<1>5. /\ live \in Seq(Args)
      /\ findMatchingCommandLineArgs(live, selinuxArgNames) =
             IF disableSELinux(raw, saved) THEN selinuxModeToArgs("disabled")
             ELSE findMatchingCommandLineArgs(old, selinuxArgNames)
  <2>1. LiveEdited(store.lines[k], type, disableSELinux(raw, saved), saved.args, LiveOf(store.lines[k]))
    BY LiveOfKnown
  <2> QED
    BY <1>4, <2>1 DEF LiveEdited, Entries
<1>6. CASE disableSELinux(raw, saved)
  <2> HIDE DEF live
  <2>1. findMatchingCommandLineArgs(live, selinuxArgNames) = selinuxModeToArgs("disabled")
    BY <1>5, <1>6
  <2>2. Off(store.os, live) /\ NotForced(live)
    BY <1>5, <2>1, OffOf DEF NotForced
  <2>3. SELinuxOf(live)
    BY <2>2 DEF SELinuxOf, Agrees
  <2> QED
    BY <1>5, <2>3 DEF live
<1>7. CASE ~disableSELinux(raw, saved)
  <2>1. SELinuxOf(old)
    <3>1. store.os.boot # "legacy" => Agrees(store.os, old)
      BY <1>2, ReadableAs
    <3>2. store.os.boot = "bls" => NotForced(old)
      BY <1>2, ReadableAs
    <3>3. ~verifyNoLiveOsSelinuxBlockers(saved) => Off(store.os, old)
      BY <1>7, KeptOff
    <3> QED
      BY <3>1, <3>2, <3>3 DEF SELinuxOf
  <2> HIDE DEF live, old
  <2>2. SameSELinux(old, live)
    BY <1>5, <1>7 DEF SameSELinux
  <2>3. SELinuxOf(live)
    BY <1>3, <1>5, <2>1, <2>2, SELinuxOfSame
  <2> QED
    BY <1>5, <2>3 DEF live
<1> QED
  BY <1>6, <1>7

\* And so are the entries that go to an output.
LEMMA GrubSELinux ==
    ASSUME MediaInv, SELinuxInv, updateGrubCfg, ExtrasLeave(selinuxArgNames), SavedLeave(selinuxArgNames),
           NEW k \in DOMAIN store.lines, NEW e, FromLive(LiveOf(store.lines[k]), e)
    PROVE  SELinuxOf(e.args)
<1> DEFINE live == LiveOf(store.lines[k])
<1>1. SELinuxOf(live.args) /\ live.args \in Seq(Args)
  BY LiveSELinux
<1> HIDE DEF live
<1>2. CASE e = live
  BY <1>1, <1>2
<1>3. CASE \E root : RootSet(live.args, e.args, root)
  <2>1. e.args \in Seq(Args) /\ SameSELinux(live.args, e.args)
    BY <1>3 DEF RootSet, SameSELinux
  <2> QED
    BY <1>1, <2>1, SELinuxOfSame
<1> QED
  BY <1>2, <1>3 DEF FromLive, live

\* The steps before updateGrubCfg.
LEMMA SELinuxConvert ==
    ASSUME MediaInv, SELinuxInv, convertInputImageToWriteableFormat
    PROVE  SELinuxInv'
<1>1. /\ UNCHANGED <<input, cfg, saved>> /\ phase' \in {"customizeOs", "artifactStore", "savedConfigs"}
      /\ raw' = (IF ~IsIso(input) THEN convertImageToRaw(input)
                 ELSE IF rebuildFullOsImage(input, cfg) THEN createWriteableImageFromArtifacts(input) ELSE None)
      /\ store' = (IF IsIso(input) THEN createIsoArtifactStoreFromIsoImage(input) ELSE None)
      /\ phase' = "savedConfigs" <=> ~cfg.os /\ ~rebuildFullOsImage(input, cfg)
  BY DEF convertInputImageToWriteableFormat
<1>2. input.os \in Oses /\ (\A k \in DOMAIN input.lines : input.lines[k] \in Entries) /\ (input \in DiskImages \/ IsoOK(input))
  BY DiskImagesOK DEF MediaInv, Control, IsoOK, StoreOK, BootFilesOK
<1>3. SELinuxReadable(input)
  BY DEF SELinuxInv
<1>4. CASE phase' \in {"customizeOs", "artifactStore"}
  <2>1. IsIso(input) => rebuildFullOsImage(input, cfg)
    BY <1>1, <1>4 DEF rebuildFullOsImage
  <2>2. raw'.os = input.os /\ raw'.lines = input.lines
    <3>1. CASE IsIso(input)
      BY <1>1, <2>1, <3>1 DEF createWriteableImageFromArtifacts
    <3>2. CASE ~IsIso(input)
      BY <1>1, <3>2 DEF convertImageToRaw
    <3> QED
      BY <3>1, <3>2
  <2>3. SELinuxReadable(raw)'
    <3> DEFINE r == raw'
    <3>1. r.os = input.os /\ r.lines = input.lines
      BY <2>2
    <3> HIDE DEF r
    <3>2. SELinuxReadable(r)
      BY <1>2, <1>3, <3>1, ReadableSame
    <3> QED
      BY <3>2 DEF r, SELinuxReadable, DfltSpeaksForEntries, NotForcedBls
  <2> QED
    BY <1>1, <1>4, <2>3 DEF SELinuxInv, AfterStore, AfterGrub, IsIso, SELinuxReadable, DfltSpeaksForEntries, NotForcedBls
<1>5. CASE phase' = "savedConfigs"
  <2>1. ~cfg.os /\ ~rebuildFullOsImage(input, cfg)
    BY <1>1, <1>5
  <2>2. IsIso(input)
    BY <2>1 DEF rebuildFullOsImage
  <2>3. raw' = None /\ store' = createIsoArtifactStoreFromIsoImage(input)
    BY <1>1, <2>1, <2>2
  <2>4. IsoOK(input)
    BY <1>2, <2>2, DiskImagesOK
  <2> DEFINE s == createIsoArtifactStoreFromIsoImage(input)
  <2>5. s.os = input.os /\ s.lines = input.lines
    BY <2>4, StoreFromIso
  <2> HIDE DEF s
  <2>6. SELinuxReadable(s)
    BY <1>2, <1>3, <2>5, ReadableSame
  <2>7. store' = s /\ ~raw'.exists
    BY <2>3 DEF s, None
  <2>8. SELinuxReadable(store)' /\ store'.lines = input'.lines
    BY <1>1, <2>5, <2>6, <2>7 DEF SELinuxReadable, DfltSpeaksForEntries, NotForcedBls
  <2> QED
    BY <1>1, <1>5, <2>7, <2>8 DEF SELinuxInv, AfterStore, AfterGrub, IsIso, SELinuxReadable, DfltSpeaksForEntries, NotForcedBls
<1> QED
  BY <1>1, <1>4, <1>5

\* The mode of a configuration is one that a request asks for.
LEMMA ModeRequested ==
    ASSUME NEW c \in Configs
    PROVE  c.selinux \in RequestedModes /\ \E q \in Requests : q.selinux = c.selinux
<1>1. PICK q \in Requests : c = resolvePxeConfig(q) /\ q.selinux \in SELinuxModes \union {""}
  BY ConfigShape
<1>2. c.selinux = q.selinux
  BY <1>1 DEF resolvePxeConfig
<1> QED
  BY <1>1, <1>2, Zenon DEF RequestedModes

\* customizeOSContents keeps SELinuxInv.
LEMMA SELinuxCustomize ==
    ASSUME MediaInv, SELinuxInv, customizeOSContents
    PROVE  SELinuxInv'
<1>1. PICK kernels \in (SUBSET Kernels) \ {{}}, dracut \in raw.os.dracut..2,
           regenerated \in IF raw.os.boot = "bls" THEN BOOLEAN ELSE {FALSE}, kdumpStays \in BOOLEAN :
         raw' = CustomizedImage(raw, CustomizedOs(raw.os, cfg.selinux, dracut), kernels, regenerated, cfg.selinux,
                                IF kdumpStays THEN raw.kdump ELSE raw.kdump \intersect kernels)
  BY DEF customizeOSContents, CustomizedImage
<1>2. phase = "customizeOs" /\ phase' = "artifactStore" /\ UNCHANGED <<input, cfg, store, saved>>
  BY DEF customizeOSContents
<1>3. RawOK(raw) /\ SELinuxReadable(raw) /\ cfg \in Configs
  BY <1>2 DEF MediaInv, RawInv, Control, SELinuxInv
<1> DEFINE mode == cfg.selinux
           kdump == IF kdumpStays THEN raw.kdump ELSE raw.kdump \intersect kernels
           new == CustomizedImage(raw, CustomizedOs(raw.os, mode, dracut), kernels, regenerated, mode, kdump)
<1>4. mode \in RequestedModes /\ \E q \in Requests : q.selinux = mode
  BY <1>3, ModeRequested
<1>5. kernels \in SUBSET Kernels /\ kernels # {} /\ regenerated \in BOOLEAN /\ kdump \in SUBSET Kernels
  <2>1. regenerated \in BOOLEAN
    BY <1>1
  <2>2. kdump \in SUBSET Kernels
    BY <1>3 DEF RawOK
  <2>3. kernels \in SUBSET Kernels /\ kernels # {}
    BY <1>1
  <2> QED
    BY <2>1, <2>2, <2>3
<1>6. raw' = new
  BY <1>1
<1> HIDE DEF mode, kdump
<1>7. SELinuxReadable(new)
  BY <1>3, <1>4, <1>5, CustomizedReadable
<1> HIDE DEF new
<1>8. SELinuxReadable(raw)'
  BY <1>6, <1>7 DEF SELinuxReadable, DfltSpeaksForEntries, NotForcedBls
<1> QED
  BY <1>2, <1>8 DEF SELinuxInv, AfterStore, AfterGrub, IsIso, SELinuxReadable, DfltSpeaksForEntries, NotForcedBls

\* createIsoArtifactStoreFromMountedImage keeps SELinuxInv.
LEMMA SELinuxStored ==
    ASSUME MediaInv, SELinuxInv, createIsoArtifactStoreFromMountedImage
    PROVE  SELinuxInv'
<1>1. /\ phase = "artifactStore" /\ phase' = "savedConfigs"
      /\ store' = createIsoInfoStoreFromMountedImage(createIsoFilesStoreFromMountedImage(raw, store), raw)
      /\ UNCHANGED <<input, cfg, raw, saved>>
  BY DEF createIsoArtifactStoreFromMountedImage
<1>2. RawOK(raw) /\ SELinuxReadable(raw)
  BY <1>1 DEF MediaInv, RawInv, SELinuxInv
<1>3. store'.os = raw.os /\ store'.lines = raw.lines
  BY <1>1 DEF createIsoInfoStoreFromMountedImage, createIsoFilesStoreFromMountedImage
<1>4. raw.os \in Oses /\ \A k \in DOMAIN raw.lines : raw.lines[k] \in Entries
  BY <1>2 DEF RawOK, BootFilesOK
<1>5. SELinuxReadable(store)'
  <2> DEFINE s == store'
  <2>1. s.os = raw.os /\ s.lines = raw.lines
    BY <1>3
  <2> HIDE DEF s
  <2>2. SELinuxReadable(s)
    BY <1>2, <1>4, <2>1, ReadableSame
  <2> QED
    BY <2>2 DEF s, SELinuxReadable, DfltSpeaksForEntries, NotForcedBls
<1>6. raw'.exists
  BY <1>1, <1>2 DEF RawOK
<1> QED
  BY <1>1, <1>3, <1>5, <1>6 DEF SELinuxInv, AfterStore, AfterGrub, IsIso, SELinuxReadable, DfltSpeaksForEntries, NotForcedBls

\* updateSavedConfigs keeps SELinuxInv.
LEMMA SELinuxSaved ==
    ASSUME MediaInv, SELinuxInv, updateSavedConfigs
    PROVE  SELinuxInv'
<1>1. /\ phase = "savedConfigs" /\ phase' = "grub" /\ UNCHANGED <<input, cfg, raw>>
      /\ store' = [store EXCEPT !.saved = persistSavedConfigs(saved')]
  BY DEF updateSavedConfigs
<1>2. StoreOK(store) /\ SELinuxReadable(store)
  BY <1>1 DEF MediaInv, StoreInv, AfterStore, SELinuxInv
<1>3. store'.os = store.os /\ store'.lines = store.lines
  <2> DEFINE p == persistSavedConfigs(saved')
  <2>1. store' = [store EXCEPT !.saved = p]
    BY <1>1
  <2> HIDE DEF p
  <2> QED
    BY <1>2, <2>1 DEF StoreOK, StoreFields
<1>4. SELinuxReadable(store)'
  BY <1>2, <1>3 DEF SELinuxReadable, DfltSpeaksForEntries, NotForcedBls
<1>5. (IF raw.exists THEN store.os = raw.os /\ store.lines = raw.lines ELSE store.lines = input.lines)'
  BY <1>1, <1>3 DEF SELinuxInv
<1> QED
  BY <1>1, <1>4, <1>5 DEF SELinuxInv, AfterStore, AfterGrub, IsIso, SELinuxReadable, DfltSpeaksForEntries, NotForcedBls

\* updateGrubCfg establishes what SELinuxInv says of the outputs.
LEMMA SELinuxGrub ==
    ASSUME MediaInv, SELinuxInv, updateGrubCfg, ExtrasLeave(selinuxArgNames), SavedLeave(selinuxArgNames)
    PROVE  SELinuxInv'
<1>1. /\ phase = "grub" /\ phase' \in {"images", "stage"} /\ UNCHANGED <<input, cfg, raw, type, saved>>
  BY GrubStep
<1>2. StoreOK(store) /\ SELinuxReadable(store) /\ StoreOK(store') /\ store'.os = store.os
      /\ DOMAIN store'.lines = DOMAIN store.lines
  BY <1>1, GrubStore DEF MediaInv, StoreInv, AfterStore, SELinuxInv
<1>3. \A e \in OutputEntries' : SELinuxOf(e.args)
  BY GrubEntries, GrubSELinux
<1>4. ASSUME NEW k \in DOMAIN store'.lines
      PROVE  /\ store'.os.boot # "legacy" => Agrees(store'.os, store'.lines[k].args)
             /\ store'.os.boot = "bls" => NotForced(store'.lines[k].args)
  <2>1. k \in DOMAIN store.lines
    BY <1>2
  <2>2. CASE store'.lines = store.lines
    BY <1>2, <2>1, <2>2, ReadableAs
  <2>3. CASE store'.lines = IsoLines
    <3>1. SELinuxOf(IsoLines[k].args)
      <4>1. CASE isIsoBootImageNeeded(cfg, type)
        <5>1. FromLive(LiveOf(store.lines[k]), IsoLines[k])
          BY <2>1, <4>1, GrubLines
        <5> QED
          BY <2>1, <5>1, GrubSELinux
      <4>2. CASE ~isIsoBootImageNeeded(cfg, type)
        <5>1. IsoLines[k] = LiveOf(store.lines[k])
          BY <2>1, <4>2, GrubLines
        <5> QED
          BY <2>1, <5>1, LiveSELinux
      <4> QED
        BY <4>1, <4>2
    <3> QED
      BY <1>2, <2>3, <3>1 DEF SELinuxOf
  <2> QED
    BY <2>2, <2>3, GrubStore
<1>5. SELinuxReadable(store)'
  <2> DEFINE s == store'
  <2>1. s.os.boot = "bls" => NotForced(s.os.dflt) /\ \A r \in Requests : r.selinux # "force-enforcing"
    BY <1>2, ReadableAs
  <2>2. SELinuxReadable(s)
    <3>1. \A k \in DOMAIN s.lines : /\ s.os.boot # "legacy" => Agrees(s.os, s.lines[k].args)
                                    /\ s.os.boot = "bls" => NotForced(s.lines[k].args)
      BY <1>4
    <3> HIDE DEF s
    <3> QED
      BY <2>1, <3>1, ReadableAs
  <2> QED
    BY <2>2 DEF SELinuxReadable, DfltSpeaksForEntries, NotForcedBls
<1>6. (~verifyNoLiveOsSelinuxBlockers(saved) => \A e \in OutputEntries : Off(store.os, e.args))'
  <2>1. ~verifyNoLiveOsSelinuxBlockers(saved) => \A e \in OutputEntries' : Off(store.os, e.args)
    BY <1>3 DEF SELinuxOf
  <2> QED
    BY <1>1, <1>2, <2>1
<1> QED
  BY <1>1, <1>5, <1>6 DEF SELinuxInv, AfterStore, AfterGrub, IsIso, SELinuxReadable, DfltSpeaksForEntries, NotForcedBls

\* The entries of the outputs are entries.
LEMMA OutputEntriesTyped ==
    ASSUME MediaInv, phase \in AfterGrub
    PROVE  \A e \in OutputEntries : e \in Entries
BY DEF MediaInv, StoreInv, AfterStore, AfterGrub, StoreOK, BootFilesOK, PxeLinesInv, EntriesOf, OutputEntries, LineSets

\* The steps after updateGrubCfg keep SELinuxInv.
LEMMA SELinuxLater ==
    ASSUME MediaInv, SELinuxInv, [Next]_vars, phase' \in AfterGrub, ~updateGrubCfg
    PROVE  SELinuxInv'
<1>1. /\ phase \in AfterGrub /\ UNCHANGED <<input, cfg, raw, type, saved, pxeLines, kept>>
      /\ store'.lines = store.lines /\ store'.os.distro = store.os.distro /\ store'.os.boot = store.os.boot
      /\ store'.os.seConfig = store.os.seConfig /\ store'.os.dflt = store.os.dflt
  BY LaterSteps
<1>2. SELinuxReadable(store) /\ StoreOK(store)
  BY <1>1 DEF SELinuxInv, MediaInv, StoreInv, AfterStore, AfterGrub
<1>3. store.os \in Oses /\ \A k \in DOMAIN store.lines : store.lines[k] \in Entries
  BY <1>2 DEF StoreOK, BootFilesOK
<1>4. SELinuxReadable(store)'
  <2> DEFINE s == store'
  <2>1. s.lines = store.lines /\ s.os.boot = store.os.boot /\ s.os.distro = store.os.distro
        /\ s.os.seConfig = store.os.seConfig /\ s.os.dflt = store.os.dflt
    BY <1>1
  <2> HIDE DEF s
  <2>2. SELinuxReadable(s)
    BY <1>2, <1>3, <2>1, ReadableSame
  <2> QED
    BY <2>2 DEF s, SELinuxReadable, DfltSpeaksForEntries, NotForcedBls
<1>5. (~verifyNoLiveOsSelinuxBlockers(saved) => \A e \in OutputEntries : Off(store.os, e.args))'
  <2>1. OutputEntries' = OutputEntries
    BY <1>1, SameEntries
  <2> DEFINE os == store.os
             new == store'.os
  <2>2. new.distro = os.distro /\ new.seConfig = os.seConfig
    BY <1>1
  <2> HIDE DEF os, new
  <2>3. \A args \in Seq(Args) : Off(os, args) <=> Off(new, args)
    BY <2>2, SameOff DEF SameSELinux
  <2>4. ~verifyNoLiveOsSelinuxBlockers(saved) => \A e \in OutputEntries : Off(os, e.args) /\ e.args \in Seq(Args)
    BY <1>1, OutputEntriesTyped DEF SELinuxInv, Entries, os
  <2>5. ~verifyNoLiveOsSelinuxBlockers(saved) => \A e \in OutputEntries : Off(new, e.args)
    BY <2>3, <2>4
  <2> QED
    BY <1>1, <2>1, <2>5 DEF new
<1> QED
  BY <1>1, <1>4, <1>5 DEF SELinuxInv, AfterStore, AfterGrub, IsIso, SELinuxReadable, DfltSpeaksForEntries, NotForcedBls

\* The next run starts from what this one made.
LEMMA SELinuxNextRun ==
    ASSUME MediaInv, SELinuxInv, NextRun
    PROVE  SELinuxInv'
<1>1. phase' = "convertInput"
  BY DEF NextRun, Begin
<1>2. SELinuxReadable(input') /\ (IsIso(input') /\ ~verifyNoLiveOsSelinuxBlockers(input'.saved) =>
          \A k \in DOMAIN input'.lines : Off(input'.os, input'.lines[k].args))
  <2>1. CASE input' = input
    BY <2>1 DEF SELinuxInv
  <2>2. CASE phase = "ok" /\ iso.exists /\ input' = iso
    <3>1. /\ iso.saved.dracut = saved.dracut /\ iso.saved.policy = saved.policy
          /\ iso.lines = store.lines /\ iso.os = store.os
      <4>1. StagedAs(store, cfg, type, store.lines, iso) /\ store.saved = persistSavedConfigs(saved) /\ saved \in SavedConfigs
        BY <2>2, IsoMade DEF MediaInv, SavedInv, Control, AfterSaved
      <4>2. persistSavedConfigs(saved).dracut = saved.dracut /\ persistSavedConfigs(saved).policy = saved.policy
        BY <4>1 DEF persistSavedConfigs, SavedConfigs
      <4> QED
        BY <4>1, <4>2 DEF StagedAs
    <3>2. SELinuxReadable(store) /\ StoreOK(store)
      BY <2>2 DEF SELinuxInv, MediaInv, StoreInv, AfterStore
    <3>3. SELinuxReadable(iso)
      BY <3>1, <3>2 DEF SELinuxReadable, DfltSpeaksForEntries, NotForcedBls
    <3>4. cfg.out = "iso" \/ type = "bootstrap"
      BY <2>2 DEF MediaInv, OutputInv, None
    <3>5. \A k \in DOMAIN store.lines : store.lines[k] \in OutputEntries
      BY <3>4 DEF OutputEntries, LineSets
    <3>6. ~verifyNoLiveOsSelinuxBlockers(iso.saved) => ~verifyNoLiveOsSelinuxBlockers(saved)
      BY <3>1 DEF verifyNoLiveOsSelinuxBlockers
    <3>7. ~verifyNoLiveOsSelinuxBlockers(saved) => \A e \in OutputEntries : Off(store.os, e.args)
      BY <2>2 DEF SELinuxInv, AfterGrub
    <3>8. ~verifyNoLiveOsSelinuxBlockers(iso.saved) => \A k \in DOMAIN iso.lines : Off(iso.os, iso.lines[k].args)
      BY <3>1, <3>5, <3>6, <3>7
    <3> QED
      BY <2>2, <3>3, <3>8
  <2> QED
    BY <2>1, <2>2 DEF NextRun, Begin
<1> DEFINE in == input'
<1>3. SELinuxReadable(input)'
  BY <1>2 DEF SELinuxReadable, DfltSpeaksForEntries, NotForcedBls
<1>4. (IsIso(input) /\ ~verifyNoLiveOsSelinuxBlockers(input.saved) =>
          \A k \in DOMAIN input.lines : Off(input.os, input.lines[k].args))'
  BY <1>2 DEF IsIso
<1> QED
  BY <1>1, <1>3, <1>4 DEF SELinuxInv, AfterStore, AfterGrub

\* Every step keeps SELinuxInv.
LEMMA SELinuxStep ==
    ASSUME MediaInv, SELinuxInv, ExtrasLeave(selinuxArgNames), SavedLeave(selinuxArgNames), [Next]_vars
    PROVE  SELinuxInv'
<1>1. CASE convertInputImageToWriteableFormat
  BY <1>1, SELinuxConvert
<1>2. CASE customizeOSContents
  BY <1>2, SELinuxCustomize
<1>3. CASE createIsoArtifactStoreFromMountedImage
  BY <1>3, SELinuxStored
<1>4. CASE updateSavedConfigs
  BY <1>4, SELinuxSaved
<1>5. CASE updateGrubCfg
  BY <1>5, SELinuxGrub
<1>6. CASE NextRun
  BY <1>6, SELinuxNextRun
<1>7. CASE Fail
  BY <1>7 DEF Fail, SELinuxInv, AfterStore, AfterGrub, IsIso, SELinuxReadable, DfltSpeaksForEntries, NotForcedBls
<1>8. CASE createLiveOSImages \/ createIsoImage \/ createPXEArtifacts
  <2>1. phase' \in AfterGrub
    BY <1>8 DEF createLiveOSImages, createIsoImage, createPXEArtifacts, AfterGrub
  <2>2. CASE updateGrubCfg
    BY <2>2, SELinuxGrub
  <2>3. CASE ~updateGrubCfg
    BY <2>1, <2>3, SELinuxLater
  <2> QED
    BY <2>2, <2>3
<1>9. CASE Finished \/ UNCHANGED vars
  <2>1. UNCHANGED vars
    BY <1>9 DEF Finished
  <2>2. OutputEntries' = OutputEntries
    BY <2>1, SameEntries DEF vars
  <2> QED
    BY <2>1, <2>2 DEF vars, SELinuxInv, IsIso, SELinuxReadable, DfltSpeaksForEntries, NotForcedBls
<1> QED
  BY <1>1, <1>2, <1>3, <1>4, <1>5, <1>6, <1>7, <1>8, <1>9 DEF Next

\* SELinuxInv is enough for the outputs.
LEMMA MediaSELinux ==
    ASSUME MediaInv, SELinuxInv
    PROVE  LiveSELinuxOff
<1> SUFFICES ASSUME NEW m \in Outputs, NEW e \in LinesOf(m), ~verifyNoLiveOsSelinuxBlockers(saved)
             PROVE  Off(m.os, e.args)
  BY DEF LiveSELinuxOff, Off
<1>1. phase = "ok" /\ m.os = store.os
  BY OutputOf DEF MediaOf
<1>2. PICK old \in OutputEntries : FinalOf(old, e)
  BY OutputEntry
<1>3. Off(store.os, old.args) /\ old.args \in Seq(Args)
  BY <1>1, OutputEntriesTyped DEF SELinuxInv, AfterGrub, Entries
<1>4. e.args \in Seq(Args) /\ SameSELinux(old.args, e.args)
  BY <1>2 DEF FinalOf, RootSet, SameSELinux, Entries
<1>5. Off(store.os, old.args) <=> Off(store.os, e.args)
  BY <1>3, <1>4, SameOff
<1> QED
  BY <1>1, <1>3, <1>5

\* Of all disk images whose entries are as /etc/default/grub says, and all requests whose
\* extra arguments are not about SELinux: where dracut or the SELinux policy is too old
\* no entry of an output boots with SELinux, also when it is an ISO that was customized
\* before and is only packed again.
THEOREM LiveNoSELinux ==
    ASSUME ExtrasLeave(selinuxArgNames), \A image \in DiskImages : SELinuxReadable(image)
    PROVE  Spec => []LiveSELinuxOff
<1>1. Init => SavedLeave(selinuxArgNames) /\ SELinuxInv
  BY SavedLeaveInit, DiskImagesOK DEF Init, SELinuxInv, AfterStore, AfterGrub
<1>2. MediaInv /\ SavedLeave(selinuxArgNames) /\ SELinuxInv /\ [Next]_vars => (SavedLeave(selinuxArgNames) /\ SELinuxInv)'
  BY SELinuxStep, SavedLeaveStep
<1>3. MediaInv /\ SELinuxInv => LiveSELinuxOff
  BY MediaSELinux
<1> QED
  BY <1>1, <1>2, <1>3, LiveMediaInv, PTL DEF Spec

\* Every LiveOS that is written boots, whatever the disk images, the requests and the
\* number of runs: the two theorems together.
THEOREM LiveOsBoots ==
    ASSUME ExtrasLeave({"root"}), ExtrasLeave(selinuxArgNames),
           \A image \in DiskImages : SELinuxReadable(image)
    PROVE  Spec => []LiveMediaComplete
<1>1. MediaBoots /\ LiveSELinuxOff => LiveMediaComplete
  BY DEF LiveMediaComplete
<1> QED
  BY <1>1, LiveBoots, LiveNoSELinux, PTL
=============================================================================

---------------------------- MODULE MC_SafeChroot ----------------------------
(* The tools chroot, opened on an existing directory, and an image chroot   *)
(* with a directory of its own; mount 2 (/dev/pts) lies under mount 1.      *)
EXTENDS SafeChroot

CONSTANTS tools, image

MCChroots == {tools, image}
MCExistingDirs == {tools}
MCNested == {<<2, 1>>}
MCNotNested == {}
MCToolsFirst == [c \in MCChroots |-> IF c = tools THEN {1} ELSE {}]
MCToolsLast == [c \in MCChroots |-> IF c = tools THEN {2} ELSE {}]
=============================================================================

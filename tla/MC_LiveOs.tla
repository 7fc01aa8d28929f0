----------------------------- MODULE MC_LiveOs -----------------------------
(***************************************************************************)
(* Disk images of the three ways to boot, with an old and a new dracut, and *)
(* configurations that convert, customize and pack again.                  *)
(***************************************************************************)
EXTENDS LiveOs

CONSTANTS k1, k2

Os(distro, boot, seConfig, dflt, dracut, policy, kdump) ==
    [distro |-> distro, boot |-> boot, seConfig |-> seConfig, dflt |-> dflt, dracut |-> dracut, policy |-> policy,
     kdump |-> kdump]

Disk(os, kernels) ==
    [kind |-> "disk", os |-> os, uki |-> FALSE, vmlinuz |-> kernels, lines |-> FreshLines(os, kernels),
     initrds |-> [k \in kernels |-> "real"]]

SE == <<Arg("security", "selinux"), Arg("selinux", "1")>>

MCDiskImages == {
    Disk(Os("azl3", "mkconfig", "enforcing", <<>>, 1, "new", {k1}), {k1}),
    Disk(Os("azl2", "legacy", "disabled", <<>>, 0, "none", {}), {k1}),
    Disk(Os("azl4", "bls", "disabled", <<Arg("selinux", "0")>>, 2, "old", {k1}), {k1, k2}),
    [Disk(Os("azl3", "mkconfig", "enforcing", SE, 2, "new", {}), {k1}) EXCEPT !.uki = TRUE]}

Section == [type |-> "", kdump |-> "", extra |-> <<>>, files |-> {}, url |-> NoUrls]

Url(base, file) == [base |-> base, file |-> file]

Request(out, os, selinux, chain) == [out |-> out, os |-> os, selinux |-> selinux, chain |-> chain]

Quiet == <<Arg("quiet", "")>>
Debug == <<Arg("debug", "")>>

MCRequests == {
    Request("iso", FALSE, "", <<[Section EXCEPT !.extra = Quiet, !.files = {"a"}], [Section EXCEPT !.kdump = "none"]>>),
    Request("iso", FALSE, "", <<[Section EXCEPT !.kdump = "none"],
                                [Section EXCEPT !.type = "bootstrap", !.kdump = "keep", !.files = {"b"}]>>),
    Request("iso", TRUE, "disabled", <<Section>>),
    Request("iso", TRUE, "", <<[Section EXCEPT !.kdump = "keep"]>>),
    Request("iso", TRUE, "", <<[Section EXCEPT !.kdump = "none"]>>),
    Request("iso", TRUE, "enforcing", <<[Section EXCEPT !.extra = Debug], [Section EXCEPT !.extra = Quiet]>>),
    Request("iso", FALSE, "", <<[Section EXCEPT !.type = "full-os", !.extra = Quiet]>>),
    Request("pxe", FALSE, "", <<[Section EXCEPT !.type = "bootstrap", !.url = Url("", "other.iso")]>>),
    Request("pxe", FALSE, "", <<[Section EXCEPT !.type = "bootstrap", !.url = Url("http", "")],
                                [Section EXCEPT !.kdump = "none"]>>),
    Request("pxe", FALSE, "", <<[Section EXCEPT !.extra = Quiet]>>),
    Request("pxe", TRUE, "", <<[Section EXCEPT !.url = Url("http", "")], [Section EXCEPT !.type = "full-os"]>>),
    Request("pxe", FALSE, "", <<[Section EXCEPT !.url = Url("http", "")],
                                [Section EXCEPT !.type = "bootstrap", !.url = Url("", "other.iso")]>>),
    Request("pxe", FALSE, "", <<[Section EXCEPT !.type = "full-os", !.url = Url("http", "")]>>)}
=============================================================================

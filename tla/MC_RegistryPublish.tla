------------------------- MODULE MC_RegistryPublish -------------------------
(* Instances of RegistryPublish: two architectures, a bundle for each, and *)
(* an earlier bundle for the second.                                       *)
EXTENDS RegistryPublish, TLC

Cmd(op, arch, child, signer, overwrite) ==
    [op |-> op, arch |-> arch, child |-> child, signer |-> signer, overwrite |-> overwrite]

Archs == {"amd64", "arm64"}
Children == {"amd", "arm", "old"}
EntryOf(amd, arm) == [a \in Archs |-> IF a = "amd64" THEN amd ELSE arm]
Roots == {[kind |-> "absent", entry |-> EntryOf("no child", "no child")],
          [kind |-> "foreign", entry |-> EntryOf("no child", "no child")],
          [kind |-> "root", entry |-> EntryOf("no child", "old")]}

(* Every kind of command, on one tag. *)
Commands ==
    "push arm"    :> Cmd("push", "arm64", "arm", "ann", FALSE) @@
    "reconfigure" :> Cmd("reconfigure", "amd64", "amd", "bob", FALSE) @@
    "sign"        :> Cmd("sign", "arm64", "no child", "bob", TRUE) @@
    "push again"  :> Cmd("push", "arm64", "arm", "ann", FALSE) @@
    "pull"        :> Cmd("pull", "arm64", "no child", "bob", FALSE) @@
    "pull as is"  :> Cmd("pull", "arm64", "no child", "no signer", FALSE)

Jobs == DOMAIN Commands

Circumstances(jobs, overlap, lost, referrers, attempts) ==
    [jobs |-> jobs, overlap |-> overlap, lost |-> lost, referrers |-> referrers, attempts |-> attempts]

(* Commands that overlap; and commands that are run one after the other,   *)
(* and again, by a registry that refuses some, or that loses answers, with *)
(* and without its referrers API.                                          *)
Settings ==
    {Circumstances(jobs, TRUE, FALSE, TRUE, 1) :
        jobs \in {{"push arm", "push again", "sign", "pull"}, {"push arm", "sign", "pull as is"}}}
    \cup {Circumstances({"push arm", "reconfigure", "sign"}, FALSE, l, r, 2) :
            l \in BOOLEAN, r \in BOOLEAN}
=============================================================================

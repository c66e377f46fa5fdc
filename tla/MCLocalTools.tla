---------------------------- MODULE MCLocalTools ----------------------------
(* Instances of LocalTools: a root config, the files init writes, the default policy. *)
EXTENDS LocalTools

Root == "merger.yaml"
MCPaths == {Root, DotConfig, DotPolicy, DefaultPolicy}
MCCandidates == <<Root, DotConfig>>
MCDirCandidates == <<DotConfig>>

PolicyFor(lane) == [sort |-> "policy", valid |-> TRUE, policy |-> NoPath, lane |-> lane]
Broken(sort) == [sort |-> sort, valid |-> FALSE, policy |-> NoPath, lane |-> NoLane]

MCContents == {ConfigNaming(DotPolicy), Broken("policy")}

Tree(root, dot, policy, default) ==
    [p \in MCPaths |-> CASE p = Root -> root [] p = DotConfig -> dot [] p = DotPolicy -> policy [] OTHER -> default]
Empty == Tree(Absent, Absent, Absent, Absent)
MCTrees ==
    {Empty, Tree(ConfigNaming(DotPolicy), Absent, PolicyFor("RED"), Broken("policy")),
     Tree(ConfigNaming(NoPath), ConfigNaming(DotPolicy), PolicyFor("YELLOW"), PolicyFor("RED"))}

Command(name, config, policy) ==
    [name |-> name, config |-> config, policy |-> policy, force |-> FALSE,
     flags |-> TRUE, diff |-> "read", failOn |-> NoLane, output |-> TRUE]
Scanning == [Command("scan", NoPath, DotPolicy) EXCEPT !.failOn = "YELLOW"]
MCCommands ==
    {Command(n, c, NoPath) : n \in {"merger_validate", "merger_scan"}, c \in {NoPath, ".merger"}}
    \cup {Command(n, NoPath, DotPolicy) : n \in {"validate", "merger_scan"}}
    \cup {[Command("scan", c, NoPath) EXCEPT !.failOn = "RED"] : c \in {NoPath, ".merger"}}
    \cup {Scanning, [Scanning EXCEPT !.flags = FALSE], [Scanning EXCEPT !.output = FALSE]}
    \cup {[Scanning EXCEPT !.diff = d] : d \in {"unreadable", "unparsable"}}
    \cup {[Command("init", NoPath, NoPath) EXCEPT !.force = f] : f \in BOOLEAN}

=============================================================================

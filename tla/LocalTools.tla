----------------------------- MODULE LocalTools -----------------------------
(***************************************************************************)
(* The local commands: `merger init`, `validate` and `scan`, and the MCP   *)
(* tools merger_validate and merger_scan, which share the configuration    *)
(* and policy discovery of package resolve.  A command reads the working   *)
(* tree in several steps (find the config, load it, look for the policy,   *)
(* load it) and the tree may change between them: another command runs, or *)
(* a user edits a file.                                                    *)
(*                                                                         *)
(* A file's content is a record [sort, valid, policy, lane]: a config that *)
(* names a policy path (or none), or a policy that puts the scanned diff   *)
(* in a lane (module ChangeAnalysis says how).                             *)
(***************************************************************************)
EXTENDS Naturals, FiniteSets, Sequences, SequencesExt

CONSTANTS
    Paths,         \* the files of the tree that commands may look at
    configCandidates,     \* where a config is looked for, in order
    configDirCandidates,  \* the same for an explicit directory, as full paths
    Directory,     \* the name of that directory
    Contents,      \* what an edit may put into a file
    Trees,         \* the trees a session starts from: [Paths -> Contents \cup {Absent}]
    Commands,      \* a set of [name, config, policy, force, flags, diff, failOn, output]
    Actors,        \* who runs commands
    MaxRuns,       \* bound: commands
    MaxEdits       \* bound: edits by the user

NoPath == "none"
NoLane == "unset"
Absent == [sort |-> "absent", valid |-> FALSE, policy |-> NoPath, lane |-> NoLane]

DotConfig == ".merger/merger.yaml"
DotPolicy == ".merger/policies/default.yaml"
laneRank == [GREEN |-> 1, YELLOW |-> 2, RED |-> 3, BLACK |-> 4]

VARIABLES
    tree,    \* path -> content
    run,     \* actor -> the command it executes, and how far it is
    log,     \* the finished commands, in order
    edits

vars == <<tree, run, log, edits>>

-----------------------------------------------------------------------------

fileExists(path) == tree[path] # Absent

FirstOf(candidates) ==
    LET found == {i \in DOMAIN candidates : fileExists(candidates[i])}
    IN IF found = {} THEN NoPath ELSE candidates[Min(found)]

\* An explicit file is taken as it is, an explicit directory searched; "error"
\* when the explicit path is missing or holds no config, NoPath for defaults.
discoverConfigPath(explicit) ==
    IF explicit = NoPath THEN FirstOf(configCandidates)
    ELSE IF explicit = Directory
    THEN IF FirstOf(configDirCandidates) = NoPath THEN "error" ELSE FirstOf(configDirCandidates)
    ELSE IF fileExists(explicit) THEN explicit ELSE "error"

\* config.Defaults: valid (module Startup), with a policy path of their own.
DefaultPolicy == "config/policies/default.yaml"
ConfigNaming(path) == [sort |-> "config", valid |-> TRUE, policy |-> path, lane |-> NoLane]
Defaults == ConfigNaming(DefaultPolicy)

Loads(path, sort) == tree[path].sort = sort /\ tree[path].valid

\* A policy path given explicitly need not exist, a configured one must.
PolicyPath(explicit, cfg) ==
    IF explicit # NoPath THEN explicit
    ELSE IF cfg.policy # NoPath /\ fileExists(cfg.policy) THEN cfg.policy
    ELSE NoPath

-----------------------------------------------------------------------------
(* A run is [on, command, at, config, cfg, policy, lane, start]; start is  *)
(* the tree when the command began.                                        *)

Idle == [on |-> FALSE]

Started(command) ==
    [on |-> TRUE, command |-> command,
     at |-> IF command.name = "init" THEN "check" ELSE IF command.name = "scan" THEN "diff" ELSE "discover",
     config |-> NoPath, cfg |-> Defaults, policy |-> NoPath, lane |-> NoLane, start |-> tree, moved |-> FALSE]

At(a, step) == run[a].on /\ run[a].at = step

Init ==
    /\ tree \in Trees
    /\ run = [a \in Actors |-> Idle]
    /\ log = <<>>
    /\ edits = 0

\* cli.Run and mcpserver.Call dispatch a command to its handler.
Start(a) ==
    /\ ~run[a].on /\ Len(log) + Cardinality({b \in Actors : run[b].on}) < MaxRuns
    /\ \E command \in Commands : run' = [run EXCEPT ![a] = Started(command)]
    /\ UNCHANGED <<tree, log, edits>>

\* The command ends; ok is an exit status of 0, or a result without isError.
EndWith(a, ok, why, lane) ==
    /\ run' = [run EXCEPT ![a] = Idle]
    /\ log' = Append(log, [command |-> run[a].command, ok |-> ok, why |-> why, config |-> run[a].config,
                           policy |-> run[a].policy, lane |-> lane,
                           start |-> run[a].start, moved |-> run[a].moved])
    /\ UNCHANGED <<tree, edits>>

End(a, ok, why) == EndWith(a, ok, why, NoLane)

Continue(a, r) ==
    /\ run' = [run EXCEPT ![a] = r]
    /\ UNCHANGED <<tree, log, edits>>

\* A command that runs while the tree changes.
Moved(r) == IF r.on THEN [r EXCEPT !.moved = TRUE] ELSE r

\* The CLI's scan looks at its own arguments first: the format and the lane
\* to fail on (flags), then the diff, from a file, a pipe or git.
ReadDiff(a) ==
    /\ At(a, "diff")
    /\ IF ~run[a].command.flags THEN End(a, FALSE, "usage")
       ELSE IF run[a].command.diff = "unreadable" THEN End(a, FALSE, "diff")
       ELSE Continue(a, [run[a] EXCEPT !.at = "discover"])

Discover(a) ==
    /\ At(a, "discover")
    /\ LET path == discoverConfigPath(run[a].command.config)
       IN IF path = "error" THEN End(a, FALSE, "no_config")
          ELSE Continue(a, [run[a] EXCEPT !.config = path, !.at = "config"])

\* config.Load of the discovered file; the defaults when there is none.
LoadConfig(a) ==
    /\ At(a, "config")
    /\ IF run[a].config = NoPath
       THEN Continue(a, [run[a] EXCEPT !.at = "policy_path"])
       ELSE IF Loads(run[a].config, "config")
       THEN Continue(a, [run[a] EXCEPT !.cfg = tree[run[a].config], !.at = "policy_path"])
       ELSE End(a, FALSE, "bad_config")

IsValidate(command) == command.name \in {"validate", "merger_validate"}

\* The step with the config whose policy is looked for, and who insists on one.
FindPolicyOf(a, cfg, required) ==
    /\ At(a, "policy_path")
    /\ LET path == PolicyPath(run[a].command.policy, cfg)
       IN IF path # NoPath THEN Continue(a, [run[a] EXCEPT !.policy = path, !.at = "policy"])
          ELSE IF required THEN End(a, FALSE, "no_policy")
          ELSE Continue(a, [run[a] EXCEPT !.at = "analyse"])

\* Faulty: validate looks for the policy that the defaults name.
FindPolicyDefaults(a) ==
    FindPolicyOf(a, IF IsValidate(run[a].command) THEN Defaults ELSE run[a].cfg, IsValidate(run[a].command))

\* No policy file is an error to validate, and an empty rule set to scan.
FindPolicy(a) == FindPolicyOf(a, run[a].cfg, IsValidate(run[a].command))

LoadPolicy(a) ==
    /\ At(a, "policy")
    /\ IF ~Loads(run[a].policy, "policy") THEN End(a, FALSE, "bad_policy")
       ELSE IF IsValidate(run[a].command) THEN End(a, TRUE, "valid")
       ELSE Continue(a, [run[a] EXCEPT !.lane = tree[run[a].policy].lane, !.at = "analyse"])

enforceFailLane(failLane, lane) == failLane # NoLane /\ laneRank[lane] >= laneRank[failLane]

\* scan.Run, which fails on a diff it cannot parse, and what the caller does
\* with the packet: the CLI writes the report and the GitHub output file,
\* then enforces the gate; the MCP tool returns the packet.  Without rules
\* the diff is GREEN here.
Scan(a) ==
    /\ At(a, "analyse")
    /\ LET lane == IF run[a].policy = NoPath THEN "GREEN" ELSE run[a].lane
           command == run[a].command
       IN IF command.diff = "unparsable" THEN End(a, FALSE, "unparsable")
          ELSE IF command.name = "scan" /\ ~command.output THEN EndWith(a, FALSE, "output", lane)
          ELSE IF command.name = "scan" /\ enforceFailLane(command.failOn, lane)
          THEN EndWith(a, FALSE, "gate", lane)
          ELSE EndWith(a, TRUE, "packet", lane)

-----------------------------------------------------------------------------
(* merger init: check both files, then write one after the other.          *)

InitCheck(a) ==
    /\ At(a, "check")
    /\ IF ~run[a].command.force /\ (fileExists(DotConfig) \/ fileExists(DotPolicy))
       THEN End(a, FALSE, "exists")
       ELSE Continue(a, [run[a] EXCEPT !.at = "write_config"])

Template(path) ==
    IF path = DotConfig THEN ConfigNaming(DotPolicy)
    ELSE [sort |-> "policy", valid |-> TRUE, policy |-> NoPath, lane |-> "RED"]

\* Writing a file changes the tree under every command that runs.
WriteFile(a, path, next) ==
    /\ tree' = [tree EXCEPT ![path] = Template(path)]
    /\ run' = [b \in Actors |-> IF b = a THEN next ELSE Moved(run[b])]

InitWriteConfig(a) ==
    /\ At(a, "write_config")
    /\ WriteFile(a, DotConfig, [run[a] EXCEPT !.at = "write_policy"])
    /\ UNCHANGED <<log, edits>>

InitWritePolicy(a) ==
    /\ At(a, "write_policy")
    /\ WriteFile(a, DotPolicy, Idle)
    /\ log' = Append(log, [command |-> run[a].command, ok |-> TRUE, why |-> "initialized",
                           config |-> DotConfig, policy |-> DotPolicy, lane |-> NoLane,
                           start |-> tree', moved |-> run[a].moved])
    /\ UNCHANGED edits

\* A write may fail half way; nothing is removed.
InitFails(a) ==
    /\ At(a, "write_config") \/ At(a, "write_policy")
    /\ End(a, FALSE, "write")

\* The user: external.
Edit ==
    /\ edits < MaxEdits
    /\ \E path \in Paths, content \in Contents \cup {Absent} :
           tree[path] # content /\ tree' = [tree EXCEPT ![path] = content]
    /\ run' = [a \in Actors |-> Moved(run[a])]
    /\ edits' = edits + 1
    /\ UNCHANGED log

Step(a) ==
    \/ Start(a) \/ ReadDiff(a) \/ Discover(a) \/ LoadConfig(a) \/ FindPolicy(a) \/ LoadPolicy(a) \/ Scan(a)
    \/ InitCheck(a) \/ InitWriteConfig(a) \/ InitWritePolicy(a) \/ InitFails(a)

Next == Edit \/ \E a \in Actors : Step(a)

Spec == Init /\ [][Next]_vars

-----------------------------------------------------------------------------

Log == ToSet(log)

\* Two finished commands that saw the same tree and were given the same paths.
SameInput(e, f) ==
    /\ ~e.moved /\ ~f.moved /\ e.start = f.start
    /\ e.command.config = f.command.config /\ e.command.policy = f.command.policy

\* How a scan ends that never looked at the tree, and one that had all of it.
Misused == {"usage", "diff"}
Analysed == {"packet", "gate", "output", "unparsable"}

(***************************************************************************)
(* What `merger validate` or merger_validate accepted, a scan of the same  *)
(* tree runs with: unless its own arguments are wrong it does not fail on  *)
(* the configuration or the policy, and it evaluates the policy file that  *)
(* was validated.                                                          *)
(***************************************************************************)
ValidatedScanRuns ==
    \A e, f \in Log :
        (e.ok /\ IsValidate(e.command) /\ f.command.name \in {"scan", "merger_scan"} /\ SameInput(e, f)) =>
            \/ f.why \in Misused
            \/ f.why \in Analysed /\ f.config = e.config /\ f.policy = e.policy

(***************************************************************************)
(* internal/cli/init.go:109: after init, `merger validate` checks what     *)
(* init wrote.                                                             *)
(***************************************************************************)
InitIsWhatValidateChecks ==
    \A e, f \in Log :
        (e.why = "initialized" /\ f.command.name = "validate" /\ SameInput(e, f)) =>
            f.config = DotConfig

=============================================================================

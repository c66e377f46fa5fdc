----------------------------- MODULE ToolsProofs -----------------------------
(* Proofs about the local commands (LocalTools) and MCP sessions (McpServer). *)
EXTENDS LocalTools, McpServer, SequenceTheorems, FiniteSetTheorems, TLAPS

-----------------------------------------------------------------------------
(* Sequences. *)

LEMMA ToSetAppend ==
    ASSUME NEW S, NEW s \in Seq(S), NEW e
    PROVE  Append(s, e) \in Seq(S \cup {e}) /\ ToSet(Append(s, e)) = ToSet(s) \cup {e}
  <1>1. s \in Seq(S \cup {e})
    <2>1. s = [i \in 1..Len(s) |-> s[i]] /\ Len(s) \in Nat
      OBVIOUS
    <2>2. s \in [1..Len(s) -> S \cup {e}]
      BY <2>1
    <2>3. QED
      BY <2>1, <2>2
  <1>2. /\ Append(s, e) \in Seq(S \cup {e}) /\ Len(s) \in Nat
        /\ DOMAIN s = 1..Len(s) /\ DOMAIN Append(s, e) = 1..Len(s) + 1
        /\ Append(s, e)[Len(s) + 1] = e
        /\ \A i \in 1..Len(s) : Append(s, e)[i] = s[i]
    BY <1>1
  <1>3. ASSUME NEW i \in 1..Len(s) + 1 PROVE i \in 1..Len(s) \/ i = Len(s) + 1
    BY <1>2
  <1>4. 1..Len(s) \subseteq 1..Len(s) + 1 /\ Len(s) + 1 \in 1..Len(s) + 1
    BY <1>2
  <1>5. ToSet(Append(s, e)) \subseteq ToSet(s) \cup {e}
    BY <1>2, <1>3 DEF ToSet
  <1>6. ToSet(s) \cup {e} \subseteq ToSet(Append(s, e))
    BY <1>2, <1>4 DEF ToSet
  <1>7. QED
    BY <1>2, <1>5, <1>6

-----------------------------------------------------------------------------
(* What a command finds in a tree t that nobody changes.                    *)

FirstIn(t, candidates) ==
    LET found == {i \in DOMAIN candidates : t[candidates[i]] # Absent}
    IN IF found = {} THEN NoPath ELSE candidates[Min(found)]

ConfigIn(t, explicit) ==
    IF explicit = NoPath THEN FirstIn(t, configCandidates)
    ELSE IF explicit = Directory
    THEN IF FirstIn(t, configDirCandidates) = NoPath THEN "error"
         ELSE FirstIn(t, configDirCandidates)
    ELSE IF t[explicit] # Absent THEN explicit ELSE "error"

LoadsIn(t, path, sort) == t[path].sort = sort /\ t[path].valid

LoadedIn(t, path) == IF path = NoPath THEN Defaults ELSE t[path]

PolicyIn(t, explicit, cfg) ==
    IF explicit # NoPath THEN explicit
    ELSE IF cfg.policy # NoPath /\ t[cfg.policy] # Absent THEN cfg.policy
    ELSE NoPath

\* The policy of a command that is given the paths c.config and c.policy.
PolicyOfCommand(t, c) == PolicyIn(t, c.policy, LoadedIn(t, ConfigIn(t, c.config)))

ConfigLoads(t, c) ==
    /\ ConfigIn(t, c.config) # "error"
    /\ ConfigIn(t, c.config) # NoPath => LoadsIn(t, ConfigIn(t, c.config), "config")

\* What validate accepts.
Accepted(t, c) ==
    /\ ConfigLoads(t, c)
    /\ PolicyOfCommand(t, c) # NoPath
    /\ LoadsIn(t, PolicyOfCommand(t, c), "policy")

LEMMA TreeReads ==
    /\ \A c : discoverConfigPath(c) = ConfigIn(tree, c)
    /\ \A path, sort : Loads(path, sort) = LoadsIn(tree, path, sort)
    /\ \A c, cfg : PolicyPath(c, cfg) = PolicyIn(tree, c, cfg)
  BY DEF discoverConfigPath, FirstOf, fileExists, ConfigIn, FirstIn, Loads, LoadsIn, PolicyPath,
         PolicyIn

-----------------------------------------------------------------------------
(* The inductive invariant: as long as the tree has not changed under it, a *)
(* command has found what the tree it started from holds; init reads        *)
(* nothing that it did not write.                                           *)

Initializing == {"check", "write_config", "write_policy"}
HasConfig == {"config", "policy_path", "policy", "analyse"}
HasLoaded == {"policy_path", "policy", "analyse"}

IsRun(r) ==
    r = [on |-> r.on, command |-> r.command, at |-> r.at, config |-> r.config, cfg |-> r.cfg,
         policy |-> r.policy, lane |-> r.lane, start |-> r.start, moved |-> r.moved]

RunShape(r) ==
    /\ IsRun(r)
    /\ r.on = TRUE /\ r.moved \in BOOLEAN
    /\ r.at \in Initializing => r.command.name = "init"
    /\ r.at = "analyse" => ~IsValidate(r.command)

RunFound(r) ==
    /\ r.at \in HasConfig => r.config = ConfigIn(r.start, r.command.config)
    /\ r.at = "config" => r.config # "error"
    /\ r.at \in {"diff", "discover", "config"} => r.cfg = Defaults
    /\ r.at \in HasLoaded => /\ ConfigLoads(r.start, r.command)
                             /\ r.cfg = LoadedIn(r.start, r.config)
    /\ r.at \notin {"policy", "analyse"} => r.policy = NoPath
    /\ r.at \in {"policy", "analyse"} => r.policy = PolicyOfCommand(r.start, r.command)
    /\ r.at = "policy" => r.policy # NoPath

\* A finished command that saw one tree all along.
EntryFound(e) ==
    /\ (IsValidate(e.command) /\ e.ok) =>
           /\ Accepted(e.start, e.command)
           /\ e.config = ConfigIn(e.start, e.command.config)
           /\ e.policy = PolicyOfCommand(e.start, e.command)
    /\ e.command.name \in {"scan", "merger_scan"} =>
           \/ ~Accepted(e.start, e.command) \/ e.why \in Misused
           \/ /\ e.why \in Analysed
              /\ e.config = ConfigIn(e.start, e.command.config)
              /\ e.policy = PolicyOfCommand(e.start, e.command)

RunInv(r, t) ==
    RunShape(r) /\ ((~r.moved /\ r.at \notin Initializing) => r.start = t /\ RunFound(r))

CommandInv ==
    /\ run = [a \in Actors |-> run[a]]
    /\ \E S : log \in Seq(S)
    /\ \A a \in Actors : run[a].on => RunInv(run[a], tree)
    /\ \A e \in Log : ~e.moved => EntryFound(e)

(* A run with other fields.                                                 *)

WithMoved(q, x) == [q EXCEPT !.moved = x]
WithAt(q, s) == [q EXCEPT !.at = s]
WithConfig(q, x, s) == [q EXCEPT !.config = x, !.at = s]
WithCfg(q, x, s) == [q EXCEPT !.cfg = x, !.at = s]
WithPolicy(q, x, s) == [q EXCEPT !.policy = x, !.at = s]
WithLane(q, x, s) == [q EXCEPT !.lane = x, !.at = s]

LEMMA SetMoved ==
    ASSUME NEW q, IsRun(q), NEW x, NEW r, r = WithMoved(q, x)
    PROVE  /\ IsRun(r) /\ r.on = q.on /\ r.command = q.command /\ r.at = q.at
           /\ r.config = q.config /\ r.cfg = q.cfg /\ r.policy = q.policy
           /\ r.lane = q.lane /\ r.start = q.start /\ r.moved = x
  <1>1. PICK on, command, at, config, cfg, policy, aLane, start, moved :
            q = [on |-> on, command |-> command, at |-> at, config |-> config, cfg |-> cfg,
                 policy |-> policy, lane |-> aLane, start |-> start, moved |-> moved]
    BY DEF IsRun
  <1>2. /\ r.on = q.on /\ r.command = q.command /\ r.at = q.at
        /\ r.config = q.config /\ r.cfg = q.cfg /\ r.policy = q.policy
        /\ r.lane = q.lane /\ r.start = q.start /\ r.moved = x
    BY <1>1 DEF WithMoved
  <1>3. /\ DOMAIN r = {"on", "command", "at", "config", "cfg", "policy", "lane", "start", "moved"}
        /\ r = [f \in DOMAIN r |-> r[f]]
    BY <1>1 DEF WithMoved
  <1>4. IsRun(r)
    BY <1>3 DEF IsRun
  <1>5. QED
    BY <1>2, <1>4

LEMMA SetAt ==
    ASSUME NEW q, IsRun(q), NEW s, NEW r, r = WithAt(q, s)
    PROVE  /\ IsRun(r) /\ r.on = q.on /\ r.command = q.command /\ r.at = s
           /\ r.config = q.config /\ r.cfg = q.cfg /\ r.policy = q.policy
           /\ r.lane = q.lane /\ r.start = q.start /\ r.moved = q.moved
  <1>1. PICK on, command, at, config, cfg, policy, aLane, start, moved :
            q = [on |-> on, command |-> command, at |-> at, config |-> config, cfg |-> cfg,
                 policy |-> policy, lane |-> aLane, start |-> start, moved |-> moved]
    BY DEF IsRun
  <1>2. /\ r.on = q.on /\ r.command = q.command /\ r.at = s
        /\ r.config = q.config /\ r.cfg = q.cfg /\ r.policy = q.policy
        /\ r.lane = q.lane /\ r.start = q.start /\ r.moved = q.moved
    BY <1>1 DEF WithAt
  <1>3. /\ DOMAIN r = {"on", "command", "at", "config", "cfg", "policy", "lane", "start", "moved"}
        /\ r = [f \in DOMAIN r |-> r[f]]
    BY <1>1 DEF WithAt
  <1>4. IsRun(r)
    BY <1>3 DEF IsRun
  <1>5. QED
    BY <1>2, <1>4

LEMMA SetConfig ==
    ASSUME NEW q, IsRun(q), NEW x, NEW s, NEW r, r = WithConfig(q, x, s)
    PROVE  /\ IsRun(r) /\ r.on = q.on /\ r.command = q.command /\ r.at = s
           /\ r.config = x /\ r.cfg = q.cfg /\ r.policy = q.policy
           /\ r.lane = q.lane /\ r.start = q.start /\ r.moved = q.moved
  <1>1. PICK on, command, at, config, cfg, policy, aLane, start, moved :
            q = [on |-> on, command |-> command, at |-> at, config |-> config, cfg |-> cfg,
                 policy |-> policy, lane |-> aLane, start |-> start, moved |-> moved]
    BY DEF IsRun
  <1>2. /\ r.on = q.on /\ r.command = q.command /\ r.at = s
        /\ r.config = x /\ r.cfg = q.cfg /\ r.policy = q.policy
        /\ r.lane = q.lane /\ r.start = q.start /\ r.moved = q.moved
    BY <1>1 DEF WithConfig
  <1>3. /\ DOMAIN r = {"on", "command", "at", "config", "cfg", "policy", "lane", "start", "moved"}
        /\ r = [f \in DOMAIN r |-> r[f]]
    BY <1>1 DEF WithConfig
  <1>4. IsRun(r)
    BY <1>3 DEF IsRun
  <1>5. QED
    BY <1>2, <1>4

LEMMA SetCfg ==
    ASSUME NEW q, IsRun(q), NEW x, NEW s, NEW r, r = WithCfg(q, x, s)
    PROVE  /\ IsRun(r) /\ r.on = q.on /\ r.command = q.command /\ r.at = s
           /\ r.config = q.config /\ r.cfg = x /\ r.policy = q.policy
           /\ r.lane = q.lane /\ r.start = q.start /\ r.moved = q.moved
  <1>1. PICK on, command, at, config, cfg, policy, aLane, start, moved :
            q = [on |-> on, command |-> command, at |-> at, config |-> config, cfg |-> cfg,
                 policy |-> policy, lane |-> aLane, start |-> start, moved |-> moved]
    BY DEF IsRun
  <1>2. /\ r.on = q.on /\ r.command = q.command /\ r.at = s
        /\ r.config = q.config /\ r.cfg = x /\ r.policy = q.policy
        /\ r.lane = q.lane /\ r.start = q.start /\ r.moved = q.moved
    BY <1>1 DEF WithCfg
  <1>3. /\ DOMAIN r = {"on", "command", "at", "config", "cfg", "policy", "lane", "start", "moved"}
        /\ r = [f \in DOMAIN r |-> r[f]]
    BY <1>1 DEF WithCfg
  <1>4. IsRun(r)
    BY <1>3 DEF IsRun
  <1>5. QED
    BY <1>2, <1>4

LEMMA SetPolicy ==
    ASSUME NEW q, IsRun(q), NEW x, NEW s, NEW r, r = WithPolicy(q, x, s)
    PROVE  /\ IsRun(r) /\ r.on = q.on /\ r.command = q.command /\ r.at = s
           /\ r.config = q.config /\ r.cfg = q.cfg /\ r.policy = x
           /\ r.lane = q.lane /\ r.start = q.start /\ r.moved = q.moved
  <1>1. PICK on, command, at, config, cfg, policy, aLane, start, moved :
            q = [on |-> on, command |-> command, at |-> at, config |-> config, cfg |-> cfg,
                 policy |-> policy, lane |-> aLane, start |-> start, moved |-> moved]
    BY DEF IsRun
  <1>2. /\ r.on = q.on /\ r.command = q.command /\ r.at = s
        /\ r.config = q.config /\ r.cfg = q.cfg /\ r.policy = x
        /\ r.lane = q.lane /\ r.start = q.start /\ r.moved = q.moved
    BY <1>1 DEF WithPolicy
  <1>3. /\ DOMAIN r = {"on", "command", "at", "config", "cfg", "policy", "lane", "start", "moved"}
        /\ r = [f \in DOMAIN r |-> r[f]]
    BY <1>1 DEF WithPolicy
  <1>4. IsRun(r)
    BY <1>3 DEF IsRun
  <1>5. QED
    BY <1>2, <1>4

LEMMA SetLane ==
    ASSUME NEW q, IsRun(q), NEW x, NEW s, NEW r, r = WithLane(q, x, s)
    PROVE  /\ IsRun(r) /\ r.on = q.on /\ r.command = q.command /\ r.at = s
           /\ r.config = q.config /\ r.cfg = q.cfg /\ r.policy = q.policy
           /\ r.lane = x /\ r.start = q.start /\ r.moved = q.moved
  <1>1. PICK on, command, at, config, cfg, policy, aLane, start, moved :
            q = [on |-> on, command |-> command, at |-> at, config |-> config, cfg |-> cfg,
                 policy |-> policy, lane |-> aLane, start |-> start, moved |-> moved]
    BY DEF IsRun
  <1>2. /\ r.on = q.on /\ r.command = q.command /\ r.at = s
        /\ r.config = q.config /\ r.cfg = q.cfg /\ r.policy = q.policy
        /\ r.lane = x /\ r.start = q.start /\ r.moved = q.moved
    BY <1>1 DEF WithLane
  <1>3. /\ DOMAIN r = {"on", "command", "at", "config", "cfg", "policy", "lane", "start", "moved"}
        /\ r = [f \in DOMAIN r |-> r[f]]
    BY <1>1 DEF WithLane
  <1>4. IsRun(r)
    BY <1>3 DEF IsRun
  <1>5. QED
    BY <1>2, <1>4

LEMMA CommandStart == Init => CommandInv
  <1> SUFFICES ASSUME Init PROVE CommandInv
    OBVIOUS
  <1>1. run = [a \in Actors |-> Idle] /\ log = <<>>
    BY DEF Init
  <1>2. log \in Seq({}) /\ Log = {}
    BY <1>1 DEF Log, ToSet
  <1>3. \A a \in Actors : ~run[a].on
    BY <1>1 DEF Idle
  <1>4. QED
    BY <1>1, <1>2, <1>3 DEF CommandInv

\* A step of a that leaves the tree alone and goes on with r.
LEMMA ContinueStep ==
    ASSUME CommandInv, NEW a \in Actors, NEW r, Continue(a, r), RunInv(r, tree)
    PROVE  CommandInv'
  <1>1. run' = [run EXCEPT ![a] = r] /\ tree' = tree /\ log' = log
    BY DEF Continue
  <1>2. run' = [b \in Actors |-> IF b = a THEN r ELSE run[b]]
    BY <1>1 DEF CommandInv
  <1>3. \A b \in Actors : run'[b] = IF b = a THEN r ELSE run[b]
    BY <1>2
  <1>4. run' = [b \in Actors |-> run'[b]]
    BY <1>2
  <1>5. \A b \in Actors : run'[b].on => RunInv(run'[b], tree')
    BY <1>1, <1>3 DEF CommandInv
  <1>6. QED
    BY <1>1, <1>4, <1>5 DEF CommandInv, Log

\* A step of a that leaves the tree alone and ends its command.
Entry(a, ok, why, aLane) ==
    [command |-> run[a].command, ok |-> ok, why |-> why, config |-> run[a].config,
     policy |-> run[a].policy, lane |-> aLane, start |-> run[a].start, moved |-> run[a].moved]

LEMMA EndStep ==
    ASSUME CommandInv, NEW a \in Actors, NEW ok, NEW why, NEW aLane, EndWith(a, ok, why, aLane),
           ~run[a].moved => EntryFound(Entry(a, ok, why, aLane))
    PROVE  CommandInv'
  <1>1. PICK e : e = Entry(a, ok, why, aLane)
    OBVIOUS
  <1>2. run' = [run EXCEPT ![a] = Idle] /\ tree' = tree /\ log' = Append(log, e)
    BY <1>1 DEF EndWith, Entry
  <1>3. run' = [b \in Actors |-> IF b = a THEN Idle ELSE run[b]]
    BY <1>2 DEF CommandInv
  <1>4. \A b \in Actors : run'[b] = IF b = a THEN Idle ELSE run[b]
    BY <1>3
  <1>5. run' = [b \in Actors |-> run'[b]]
    BY <1>3
  <1>6. \A b \in Actors : run'[b].on => RunInv(run'[b], tree')
    BY <1>2, <1>4 DEF CommandInv, Idle
  <1>7. PICK S : log \in Seq(S)
    BY DEF CommandInv
  <1>8. log' \in Seq(S \cup {e}) /\ Log' = Log \cup {e}
    BY <1>2, <1>7, ToSetAppend DEF Log
  <1>9. ~e.moved => EntryFound(e)
    BY <1>1 DEF Entry
  <1>10. \A f \in Log' : ~f.moved => EntryFound(f)
    BY <1>8, <1>9 DEF CommandInv
  <1>11. QED
    BY <1>5, <1>6, <1>8, <1>10 DEF CommandInv


\* A step that changes the tree: a goes on with r, the others have it moved
\* under them, and what is logged needs no tree.
LEMMA TreeStep ==
    ASSUME CommandInv, NEW t, NEW A, A \subseteq Actors, NEW r,
           run' = [b \in Actors |-> IF b \in A THEN r ELSE Moved(run[b])],
           tree' = t, r.on => RunInv(r, t),
           \/ log' = log
           \/ \E e : log' = Append(log, e) /\ e.command.name = "init"
    PROVE  CommandInv'
  <1>1. \A b \in Actors : run'[b] = IF b \in A THEN r ELSE Moved(run[b])
    OBVIOUS
  <1>2. run' = [b \in Actors |-> run'[b]]
    OBVIOUS
  <1>3. ASSUME NEW b \in Actors, run'[b].on PROVE RunInv(run'[b], t)
    <2>1. CASE b \in A
      BY <1>1, <1>3, <2>1
    <2>2. CASE b \notin A /\ run[b].on
      <3>1. PICK q : q = run[b] /\ RunShape(q)
        BY <2>2 DEF CommandInv, RunInv
      <3>2. PICK x, r1 : x = TRUE /\ r1 = [q EXCEPT !.moved = x] /\ run'[b] = r1
        BY <1>1, <2>2, <3>1 DEF Moved
      <3>3. r1 = WithMoved(q, x) /\ IsRun(q)
        BY <3>1, <3>2 DEF RunShape, WithMoved
      <3>4. /\ IsRun(r1) /\ r1.on = q.on /\ r1.command = q.command /\ r1.at = q.at
            /\ r1.moved = x
        BY <3>3, SetMoved
      <3>5. RunShape(r1) /\ r1.moved = TRUE
        BY <3>1, <3>2, <3>4 DEF RunShape
      <3>6. QED
        BY <3>2, <3>5 DEF RunInv
    <2>3. CASE b \notin A /\ ~run[b].on
      BY <1>1, <1>3, <2>3 DEF Moved
    <2>4. QED
      BY <2>1, <2>2, <2>3
  <1>4. (\E S : log \in Seq(S))' /\ \A f \in Log' : ~f.moved => EntryFound(f)
    <2>1. CASE log' = log
      BY <2>1 DEF CommandInv, Log
    <2>2. CASE \E e : log' = Append(log, e) /\ e.command.name = "init"
      <3>1. PICK e : log' = Append(log, e) /\ e.command.name = "init"
        BY <2>2
      <3>2. PICK S : log \in Seq(S)
        BY DEF CommandInv
      <3>3. log' \in Seq(S \cup {e}) /\ Log' = Log \cup {e}
        BY <3>1, <3>2, ToSetAppend DEF Log
      <3>4. EntryFound(e)
        BY <3>1 DEF EntryFound, IsValidate
      <3>5. QED
        BY <3>3, <3>4 DEF CommandInv
    <2>3. QED
      BY <2>1, <2>2
  <1>5. QED
    BY <1>2, <1>3, <1>4 DEF CommandInv

-----------------------------------------------------------------------------
(* The steps of a command. *)

LEMMA StartStep == ASSUME CommandInv, NEW a \in Actors, Start(a) PROVE CommandInv'
  <1>1. PICK command \in Commands : run' = [run EXCEPT ![a] = Started(command)]
    BY DEF Start
  <1>2. PICK r : r = Started(command)
    OBVIOUS
  <1>3. /\ r.command = command /\ r.moved = FALSE /\ r.start = tree /\ r.policy = NoPath
        /\ r.cfg = Defaults
        /\ r.at = IF command.name = "init" THEN "check"
                  ELSE IF command.name = "scan" THEN "diff" ELSE "discover"
    BY <1>2 DEF Started
  <1>4. RunShape(r)
    BY <1>2, <1>3 DEF RunShape, IsRun, Started, Initializing
  <1>5. r.at \notin Initializing => RunFound(r)
    BY <1>3 DEF RunFound, Initializing, HasConfig, HasLoaded
  <1>6. Continue(a, r) /\ RunInv(r, tree)
    BY <1>1, <1>2, <1>3, <1>4, <1>5 DEF Continue, RunInv, Start
  <1>7. QED
    BY <1>6, ContinueStep

LEMMA ReadDiffStep == ASSUME CommandInv, NEW a \in Actors, ReadDiff(a) PROVE CommandInv'
  <1>1. PICK q : q = run[a] /\ RunInv(q, tree) /\ q.at = "diff"
    BY DEF ReadDiff, At, CommandInv
  <1>2. ~q.moved => q.start = tree /\ q.policy = NoPath /\ q.cfg = Defaults
    BY <1>1 DEF RunInv, RunFound, Initializing
  <1>3. CASE \E why \in Misused : EndWith(a, FALSE, why, NoLane)
    <2>1. PICK why \in Misused : EndWith(a, FALSE, why, NoLane)
      BY <1>3
    <2>2. EntryFound(Entry(a, FALSE, why, NoLane))
      BY DEF EntryFound, Entry
    <2>3. QED
      BY <2>1, <2>2, EndStep
  <1>4. CASE Continue(a, [q EXCEPT !.at = "discover"])
    <2>1. PICK step, r : step = "discover" /\ r = [q EXCEPT !.at = step]
      OBVIOUS
    <2>2. r = WithAt(q, step) /\ IsRun(q)
      BY <1>1, <2>1 DEF RunInv, RunShape, WithAt
    <2>3. /\ IsRun(r) /\ r.on = q.on /\ r.command = q.command /\ r.at = step
          /\ r.config = q.config /\ r.cfg = q.cfg /\ r.policy = q.policy
          /\ r.start = q.start /\ r.moved = q.moved
      BY <2>2, SetAt
    <2>4. ~r.moved => r.start = tree /\ RunFound(r)
      BY <1>2, <2>1, <2>3 DEF RunFound, HasConfig, HasLoaded
    <2>5. RunShape(r)
      BY <1>1, <2>1, <2>3 DEF RunInv, RunShape, Initializing
    <2>6. QED
      BY <1>4, <2>1, <2>4, <2>5, ContinueStep DEF RunInv
  <1>5. QED
    BY <1>1, <1>3, <1>4 DEF ReadDiff, End, Misused

LEMMA DiscoverStep == ASSUME CommandInv, NEW a \in Actors, Discover(a) PROVE CommandInv'
  <1>1. PICK q : q = run[a] /\ RunInv(q, tree) /\ q.at = "discover"
    BY DEF Discover, At, CommandInv
  <1>2. PICK path : path = discoverConfigPath(q.command.config)
    OBVIOUS
  <1>3. ~q.moved => q.start = tree /\ q.policy = NoPath /\ q.cfg = Defaults
                    /\ path = ConfigIn(q.start, q.command.config)
    BY <1>1, <1>2, TreeReads DEF RunInv, RunFound, Initializing
  <1>4. CASE path = "error" /\ EndWith(a, FALSE, "no_config", NoLane)
    <2>1. ~q.moved => EntryFound(Entry(a, FALSE, "no_config", NoLane))
      BY <1>1, <1>3, <1>4 DEF EntryFound, Entry, Accepted, ConfigLoads
    <2>2. QED
      BY <1>1, <1>4, <2>1, EndStep
  <1>5. CASE path # "error" /\ Continue(a, [q EXCEPT !.config = path, !.at = "config"])
    <2>1. PICK step, r : step = "config" /\ r = [q EXCEPT !.config = path, !.at = step]
      OBVIOUS
    <2>2. r = WithConfig(q, path, step) /\ IsRun(q)
      BY <1>1, <2>1 DEF RunInv, RunShape, WithConfig
    <2>3. /\ IsRun(r) /\ r.on = q.on /\ r.command = q.command /\ r.at = step
          /\ r.config = path /\ r.cfg = q.cfg /\ r.policy = q.policy
          /\ r.start = q.start /\ r.moved = q.moved
      BY <2>2, SetConfig
    <2>4. ~r.moved => r.start = tree /\ RunFound(r)
      BY <1>3, <1>5, <2>1, <2>3 DEF RunFound, HasConfig, HasLoaded
    <2>5. RunShape(r)
      BY <1>1, <2>1, <2>3 DEF RunInv, RunShape, Initializing
    <2>6. QED
      BY <1>5, <2>1, <2>4, <2>5, ContinueStep DEF RunInv
  <1>6. QED
    BY <1>1, <1>2, <1>4, <1>5 DEF Discover, End

LEMMA LoadConfigStep == ASSUME CommandInv, NEW a \in Actors, LoadConfig(a) PROVE CommandInv'
  <1>1. PICK q : q = run[a] /\ RunInv(q, tree) /\ q.at = "config"
    BY DEF LoadConfig, At, CommandInv
  <1>2. ~q.moved => /\ q.start = tree /\ q.policy = NoPath /\ q.cfg = Defaults
                    /\ q.config = ConfigIn(q.start, q.command.config) /\ q.config # "error"
    BY <1>1 DEF RunInv, RunFound, Initializing, HasConfig
  <1>3. \A sort : Loads(q.config, sort) = LoadsIn(tree, q.config, sort)
    BY TreeReads
  <1>4. CASE /\ q.config # NoPath /\ ~Loads(q.config, "config")
             /\ EndWith(a, FALSE, "bad_config", NoLane)
    <2>1. ~q.moved => EntryFound(Entry(a, FALSE, "bad_config", NoLane))
      BY <1>1, <1>2, <1>3, <1>4 DEF EntryFound, Entry, Accepted, ConfigLoads
    <2>2. QED
      BY <1>1, <1>4, <2>1, EndStep
  <1>5. CASE q.config = NoPath /\ Continue(a, [q EXCEPT !.at = "policy_path"])
    <2>1. PICK step, r : step = "policy_path" /\ r = [q EXCEPT !.at = step]
      OBVIOUS
    <2>2. r = WithAt(q, step) /\ IsRun(q)
      BY <1>1, <2>1 DEF RunInv, RunShape, WithAt
    <2>3. /\ IsRun(r) /\ r.on = q.on /\ r.command = q.command /\ r.at = step
          /\ r.config = q.config /\ r.cfg = q.cfg /\ r.policy = q.policy
          /\ r.start = q.start /\ r.moved = q.moved
      BY <2>2, SetAt
    <2>4. ~r.moved => r.start = tree /\ RunFound(r)
      BY <1>2, <1>5, <2>1, <2>3 DEF RunFound, HasConfig, HasLoaded, ConfigLoads, LoadedIn
    <2>5. RunShape(r)
      BY <1>1, <1>5, <2>1, <2>3 DEF RunInv, RunShape, Initializing
    <2>6. QED
      BY <1>5, <2>1, <2>4, <2>5, ContinueStep DEF RunInv
  <1>6. CASE /\ q.config # NoPath /\ Loads(q.config, "config")
             /\ Continue(a, [q EXCEPT !.cfg = tree[q.config], !.at = "policy_path"])
    <2>1. PICK step, r : /\ step = "policy_path"
                           /\ r = [q EXCEPT !.cfg = tree[q.config], !.at = step]
      OBVIOUS
    <2>2. r = WithCfg(q, tree[q.config], step) /\ IsRun(q)
      BY <1>1, <2>1 DEF RunInv, RunShape, WithCfg
    <2>3. /\ IsRun(r) /\ r.on = q.on /\ r.command = q.command /\ r.at = step
          /\ r.config = q.config /\ r.cfg = tree[q.config] /\ r.policy = q.policy
          /\ r.start = q.start /\ r.moved = q.moved
      BY <2>2, SetCfg
    <2>4. ~r.moved => r.start = tree /\ RunFound(r)
      BY <1>2, <1>3, <1>6, <2>1, <2>3 DEF RunFound, HasConfig, HasLoaded, ConfigLoads, LoadedIn
    <2>5. RunShape(r)
      BY <1>1, <1>6, <2>1, <2>3 DEF RunInv, RunShape, Initializing
    <2>6. QED
      BY <1>6, <2>1, <2>4, <2>5, ContinueStep DEF RunInv
  <1>7. QED
    BY <1>1, <1>4, <1>5, <1>6 DEF LoadConfig, End

LEMMA FindPolicyStep == ASSUME CommandInv, NEW a \in Actors, FindPolicy(a) PROVE CommandInv'
  <1>1. PICK q : q = run[a] /\ RunInv(q, tree) /\ q.at = "policy_path"
    BY DEF FindPolicy, FindPolicyOf, At, CommandInv
  <1>2. PICK path : path = PolicyPath(q.command.policy, q.cfg)
    OBVIOUS
  <1>3. ~q.moved => /\ q.start = tree /\ q.policy = NoPath
                    /\ q.config = ConfigIn(q.start, q.command.config)
                    /\ ConfigLoads(q.start, q.command) /\ q.cfg = LoadedIn(q.start, q.config)
    BY <1>1 DEF RunInv, RunFound, Initializing, HasConfig, HasLoaded
  <1>4. ~q.moved => path = PolicyOfCommand(q.start, q.command)
    <2>1. path = PolicyIn(tree, q.command.policy, q.cfg)
      BY <1>2, TreeReads
    <2>2. QED
      BY <1>3, <2>1 DEF PolicyOfCommand
  <1>5. CASE path # NoPath /\ Continue(a, [q EXCEPT !.policy = path, !.at = "policy"])
    <2>1. PICK step, r : step = "policy" /\ r = [q EXCEPT !.policy = path, !.at = step]
      OBVIOUS
    <2>2. r = WithPolicy(q, path, step) /\ IsRun(q)
      BY <1>1, <2>1 DEF RunInv, RunShape, WithPolicy
    <2>3. /\ IsRun(r) /\ r.on = q.on /\ r.command = q.command /\ r.at = step
          /\ r.config = q.config /\ r.cfg = q.cfg /\ r.policy = path
          /\ r.start = q.start /\ r.moved = q.moved
      BY <2>2, SetPolicy
    <2>4. ~r.moved => r.start = tree /\ RunFound(r)
      BY <1>3, <1>4, <1>5, <2>1, <2>3 DEF RunFound, HasConfig, HasLoaded
    <2>5. RunShape(r)
      BY <1>1, <1>5, <2>1, <2>3 DEF RunInv, RunShape, Initializing
    <2>6. QED
      BY <1>5, <2>1, <2>4, <2>5, ContinueStep DEF RunInv
  <1>6. CASE /\ path = NoPath /\ ~IsValidate(q.command)
             /\ Continue(a, [q EXCEPT !.at = "analyse"])
    <2>1. PICK step, r : step = "analyse" /\ r = [q EXCEPT !.at = step]
      OBVIOUS
    <2>2. r = WithAt(q, step) /\ IsRun(q)
      BY <1>1, <2>1 DEF RunInv, RunShape, WithAt
    <2>3. /\ IsRun(r) /\ r.on = q.on /\ r.command = q.command /\ r.at = step
          /\ r.config = q.config /\ r.cfg = q.cfg /\ r.policy = q.policy
          /\ r.start = q.start /\ r.moved = q.moved
      BY <2>2, SetAt
    <2>4. ~r.moved => r.start = tree /\ RunFound(r)
      BY <1>3, <1>4, <1>6, <2>1, <2>3 DEF RunFound, HasConfig, HasLoaded
    <2>5. RunShape(r)
      BY <1>1, <1>6, <2>1, <2>3 DEF RunInv, RunShape, Initializing
    <2>6. QED
      BY <1>6, <2>1, <2>4, <2>5, ContinueStep DEF RunInv
  <1>7. CASE IsValidate(q.command) /\ EndWith(a, FALSE, "no_policy", NoLane)
    <2>1. EntryFound(Entry(a, FALSE, "no_policy", NoLane))
      BY <1>1, <1>7 DEF EntryFound, Entry, IsValidate
    <2>2. QED
      BY <1>7, <2>1, EndStep
  <1>8. QED
    BY <1>1, <1>2, <1>5, <1>6, <1>7 DEF FindPolicy, FindPolicyOf, End

LEMMA LoadPolicyStep == ASSUME CommandInv, NEW a \in Actors, LoadPolicy(a) PROVE CommandInv'
  <1>1. PICK q : q = run[a] /\ RunInv(q, tree) /\ q.at = "policy"
    BY DEF LoadPolicy, At, CommandInv
  <1>2. ~q.moved => /\ q.start = tree /\ q.policy = PolicyOfCommand(q.start, q.command)
                    /\ q.policy # NoPath
                    /\ q.config = ConfigIn(q.start, q.command.config)
                    /\ ConfigLoads(q.start, q.command) /\ q.cfg = LoadedIn(q.start, q.config)
    BY <1>1 DEF RunInv, RunFound, Initializing, HasConfig, HasLoaded
  <1>3. \A sort : Loads(q.policy, sort) = LoadsIn(tree, q.policy, sort)
    BY TreeReads
  <1>4. CASE ~Loads(q.policy, "policy") /\ EndWith(a, FALSE, "bad_policy", NoLane)
    <2>1. ~q.moved => EntryFound(Entry(a, FALSE, "bad_policy", NoLane))
      BY <1>1, <1>2, <1>3, <1>4 DEF EntryFound, Entry, Accepted
    <2>2. QED
      BY <1>1, <1>4, <2>1, EndStep
  <1>5. CASE /\ Loads(q.policy, "policy") /\ IsValidate(q.command)
             /\ EndWith(a, TRUE, "valid", NoLane)
    <2>1. ~q.moved => EntryFound(Entry(a, TRUE, "valid", NoLane))
      BY <1>1, <1>2, <1>3, <1>5 DEF EntryFound, Entry, Accepted, IsValidate
    <2>2. QED
      BY <1>1, <1>5, <2>1, EndStep
  <1>6. CASE /\ ~IsValidate(q.command)
             /\ Continue(a, [q EXCEPT !.lane = tree[q.policy].lane, !.at = "analyse"])
    <2>1. PICK step, r : /\ step = "analyse"
                           /\ r = [q EXCEPT !.lane = tree[q.policy].lane, !.at = step]
      OBVIOUS
    <2>2. r = WithLane(q, tree[q.policy].lane, step) /\ IsRun(q)
      BY <1>1, <2>1 DEF RunInv, RunShape, WithLane
    <2>3. /\ IsRun(r) /\ r.on = q.on /\ r.command = q.command /\ r.at = step
          /\ r.config = q.config /\ r.cfg = q.cfg /\ r.policy = q.policy
          /\ r.start = q.start /\ r.moved = q.moved
      BY <2>2, SetLane
    <2>4. ~r.moved => r.start = tree /\ RunFound(r)
      BY <1>2, <1>6, <2>1, <2>3 DEF RunFound, HasConfig, HasLoaded
    <2>5. RunShape(r)
      BY <1>1, <1>6, <2>1, <2>3 DEF RunInv, RunShape, Initializing
    <2>6. QED
      BY <1>6, <2>1, <2>4, <2>5, ContinueStep DEF RunInv
  <1>7. QED
    BY <1>1, <1>4, <1>5, <1>6 DEF LoadPolicy, End

LEMMA ScanStep == ASSUME CommandInv, NEW a \in Actors, Scan(a) PROVE CommandInv'
  <1>1. PICK q : q = run[a] /\ RunInv(q, tree) /\ q.at = "analyse"
    BY DEF Scan, At, CommandInv
  <1>2. ~q.moved => /\ q.policy = PolicyOfCommand(q.start, q.command)
                    /\ q.config = ConfigIn(q.start, q.command.config)
    BY <1>1 DEF RunInv, RunFound, Initializing, HasConfig
  <1>3. ~IsValidate(q.command)
    BY <1>1 DEF RunInv, RunShape
  <1>4. PICK ok, why, aLane : /\ EndWith(a, ok, why, aLane)
                              /\ why \in Analysed
    BY DEF Scan, End, Analysed
  <1>5. ~q.moved => EntryFound(Entry(a, ok, why, aLane))
    BY <1>1, <1>2, <1>3, <1>4 DEF EntryFound, Entry
  <1>6. QED
    BY <1>1, <1>4, <1>5, EndStep

\* init, and a user who edits.
LEMMA InitSteps ==
    ASSUME CommandInv, NEW a \in Actors,
           InitCheck(a) \/ InitWriteConfig(a) \/ InitWritePolicy(a) \/ InitFails(a)
    PROVE  CommandInv'
  <1>1. PICK q : q = run[a] /\ RunInv(q, tree) /\ q.at \in Initializing
    BY DEF InitCheck, InitWriteConfig, InitWritePolicy, InitFails, At, CommandInv, Initializing
  <1>2. q.command.name = "init" /\ IsRun(q) /\ q.on = TRUE /\ q.moved \in BOOLEAN
    BY <1>1 DEF RunInv, RunShape
  <1>3. ASSUME NEW step \in Initializing, NEW r, r = WithAt(q, step), NEW t
        PROVE  RunInv(r, t)
    <2>1. /\ IsRun(r) /\ r.on = q.on /\ r.command = q.command /\ r.at = step
          /\ r.moved = q.moved
      BY <1>2, <1>3, SetAt
    <2>2. RunShape(r)
      BY <1>2, <2>1 DEF RunShape, Initializing
    <2>3. QED
      BY <2>1, <2>2 DEF RunInv
  <1>4. ASSUME NEW why, EndWith(a, FALSE, why, NoLane) PROVE CommandInv'
    <2>1. EntryFound(Entry(a, FALSE, why, NoLane))
      BY <1>1, <1>2 DEF EntryFound, Entry, IsValidate
    <2>2. QED
      BY <1>4, <2>1, EndStep
  <1>5. CASE InitCheck(a)
    <2>1. PICK step, r : step = "write_config" /\ r = [q EXCEPT !.at = step]
      OBVIOUS
    <2>2. r = WithAt(q, step) /\ step \in Initializing
      BY <2>1 DEF WithAt, Initializing
    <2>3. RunInv(r, tree)
      BY <1>3, <2>2
    <2>4. CASE Continue(a, r)
      BY <2>3, <2>4, ContinueStep
    <2>5. CASE EndWith(a, FALSE, "exists", NoLane)
      BY <1>4, <2>5
    <2>6. QED
      BY <1>1, <1>5, <2>1, <2>4, <2>5 DEF InitCheck, End
  <1>6. CASE InitWriteConfig(a)
    <2>1. PICK step, r : step = "write_policy" /\ r = [q EXCEPT !.at = step]
      OBVIOUS
    <2>2. r = WithAt(q, step) /\ step \in Initializing
      BY <2>1 DEF WithAt, Initializing
    <2>3. RunInv(r, tree')
      BY <1>3, <2>2
    <2>4. /\ run' = [b \in Actors |-> IF b \in {a} THEN r ELSE Moved(run[b])]
          /\ log' = log /\ {a} \subseteq Actors
      BY <1>1, <1>6, <2>1 DEF InitWriteConfig, WriteFile
    <2>5. QED
      BY <2>3, <2>4, TreeStep
  <1>7. CASE InitWritePolicy(a)
    <2>1. /\ run' = [b \in Actors |-> IF b \in {a} THEN Idle ELSE Moved(run[b])]
          /\ {a} \subseteq Actors /\ ~Idle.on
      BY <1>7 DEF InitWritePolicy, WriteFile, Idle
    <2>2. PICK e : log' = Append(log, e) /\ e.command = q.command
      BY <1>1, <1>7 DEF InitWritePolicy
    <2>3. QED
      BY <1>2, <2>1, <2>2, TreeStep
  <1>8. CASE InitFails(a)
    BY <1>4, <1>8 DEF InitFails, End
  <1>9. QED
    BY <1>5, <1>6, <1>7, <1>8

LEMMA EditStep == ASSUME CommandInv, Edit PROVE CommandInv'
  <1>1. PICK A, r, t : A = {} /\ r = Idle /\ t = tree'
    OBVIOUS
  <1>2. A \subseteq Actors /\ ~r.on /\ \A b : b \notin A
    BY <1>1 DEF Idle
  <1>3. log' = log /\ run' = [b \in Actors |-> Moved(run[b])]
    BY DEF Edit
  <1>4. run' = [b \in Actors |-> IF b \in A THEN r ELSE Moved(run[b])]
    BY <1>2, <1>3
  <1>5. QED
    BY <1>1, <1>2, <1>3, <1>4, TreeStep

(***************************************************************************)
(* What a command found is what the tree it started from holds, unless     *)
(* the tree changed under it (resolve.Config, resolve.Policy and their     *)
(* callers).                                                               *)
(***************************************************************************)
THEOREM CommandsFound == Spec => []CommandInv
  <1>1. CommandInv /\ [Next]_vars => CommandInv'
    <2> SUFFICES ASSUME CommandInv, [Next]_vars PROVE CommandInv'
      OBVIOUS
    <2>1. CASE UNCHANGED vars
      BY <2>1 DEF vars, CommandInv, Log
    <2>2. CASE Edit
      BY <2>2, EditStep
    <2>3. ASSUME NEW a \in Actors, Step(a) PROVE CommandInv'
      BY <2>3, StartStep, ReadDiffStep, DiscoverStep, LoadConfigStep, FindPolicyStep, LoadPolicyStep,
         ScanStep, InitSteps DEF Step
    <2>4. QED
      BY <2>1, <2>2, <2>3 DEF Next
  <1>2. QED
    BY <1>1, CommandStart, PTL DEF Spec

(***************************************************************************)
(* A configuration and policy that validate accepted never fail a scan of  *)
(* the same tree, whoever runs the commands and whatever they interleave   *)
(* with.                                                                   *)
(***************************************************************************)
THEOREM ValidatedScanRunsHolds == Spec => []ValidatedScanRuns
  <1>1. CommandInv => ValidatedScanRuns
    <2> SUFFICES ASSUME CommandInv, NEW e \in Log, NEW f \in Log, e.ok, IsValidate(e.command),
                        f.command.name \in {"scan", "merger_scan"}, SameInput(e, f)
                 PROVE  \/ f.why \in Misused
                        \/ f.why \in Analysed /\ f.config = e.config /\ f.policy = e.policy
      BY DEF ValidatedScanRuns
    <2>1. /\ EntryFound(e) /\ EntryFound(f) /\ e.start = f.start
          /\ e.command.config = f.command.config /\ e.command.policy = f.command.policy
      BY DEF CommandInv, SameInput
    <2>2. /\ Accepted(f.start, f.command) <=> Accepted(e.start, e.command)
          /\ PolicyOfCommand(f.start, f.command) = PolicyOfCommand(e.start, e.command)
      BY <2>1 DEF Accepted, ConfigLoads, PolicyOfCommand
    <2>3. QED
      BY <2>1, <2>2 DEF EntryFound
  <1>2. QED
    BY <1>1, CommandsFound, PTL

-----------------------------------------------------------------------------
(* The agent tools: whatever is written to the client is the tool's own     *)
(* answer about the packet that the call carried.                           *)

\* The checklist for a packet.
Steps(packet) == {e.name : e \in {f \in packet.evidence : f.required}}

Truthful(r) ==
    r.ok = TRUE =>
      /\ r.tool = "merger_explain" => r.next = nextAction(r.packet)
      /\ r.tool = "merger_plan_evidence" =>
             /\ r.steps = Steps(r.packet)
             /\ r.reviews = requiredReviews(r.packet)
      /\ r.tool = "merger_check_readiness" =>
             r.blockers = Blockers(r.packet, r.evidence, r.reviews)

LEMMA PacketToolTells ==
    ASSUME NEW call,
           call.tool \in {"merger_explain", "merger_plan_evidence", "merger_check_readiness"}
    PROVE  Truthful(PacketTool(call))
  <1>1. CASE call.tool = "merger_explain"
    <2>1. PacketTool(call) = toolExplain(call.packet)
      BY <1>1, Zenon DEF PacketTool
    <2>2. QED
      BY <2>1 DEF toolExplain, Truthful
  <1>2. CASE call.tool = "merger_plan_evidence"
    <2>1. PacketTool(call) = toolPlanEvidence(call.packet)
      BY <1>2, Zenon DEF PacketTool
    <2>2. QED
      BY <2>1 DEF toolPlanEvidence, Steps, Truthful
  <1>3. CASE call.tool = "merger_check_readiness"
    <2>1. PacketTool(call) = toolCheckReadiness(call)
      BY <1>3, Zenon DEF PacketTool
    <2>2. QED
      BY <2>1 DEF toolCheckReadiness, Truthful
  <1>4. QED
    BY <1>1, <1>2, <1>3

LEMMA CallTells == ASSUME NEW call, NEW r \in Call(call) PROVE Truthful(r)
  <1>1. CASE call.tool = "merger_scan"
    <2>1. Call(call) = {Failed} \cup {[ok |-> TRUE, tool |-> "merger_scan", packet |-> p] : p \in Scanned}
      BY <1>1, Zenon DEF Call
    <2>2. QED
      BY <2>1 DEF Failed, Outcome, Truthful
  <1>2. CASE call.tool = "merger_validate"
    <2>1. Call(call) = {Failed, Outcome(TRUE, "merger_validate")}
      BY <1>2, Zenon DEF Call
    <2>2. QED
      BY <2>1 DEF Failed, Outcome, Truthful
  <1>3. CASE call.tool \in {"merger_explain", "merger_plan_evidence", "merger_check_readiness"}
    <2>1. Call(call) = {IF changePacketArg(call) THEN PacketTool(call) ELSE Failed}
      BY <1>3, Zenon DEF Call
    <2>2. r = PacketTool(call) \/ r = Failed
      BY <2>1
    <2>3. Truthful(Failed)
      BY DEF Failed, Outcome, Truthful
    <2>4. QED
      BY <1>3, <2>2, <2>3, PacketToolTells
  <1>4. CASE call.tool = "panics"
    <2>1. Call(call) = {Panicked}
      BY <1>4, Zenon DEF Call
    <2>2. QED
      BY <2>1 DEF Panicked, Outcome, Truthful
  <1>5. CASE call.tool \notin {"merger_scan", "merger_validate", "merger_explain",
                              "merger_plan_evidence", "merger_check_readiness", "panics"}
    <2>1. Call(call) = {ErrUnknownTool}
      BY <1>5, Zenon DEF Call
    <2>2. QED
      BY <2>1 DEF ErrUnknownTool, Outcome, Truthful
  <1>6. QED
    BY <1>1, <1>2, <1>3, <1>4, <1>5

-----------------------------------------------------------------------------
(* One line, one answer.                                                    *)

\* What Handle may do with a line: say nothing to one that needs no answer,
\* and give any other one response that carries its id and is true.
Replies(line, response) ==
    IF line.method \in Silent THEN response = <<>>
    ELSE \E x : /\ response = <<x>> /\ x.id = ReplyID(line)
                /\ Truthful(x.result) /\ x.result # Panicked

LEMMA ErrorReplies ==
    ASSUME NEW line, NEW code, line.method \notin Silent, line.method # "garbage"
    PROVE  Replies(line, Error(line, code))
  <1>1. PICK x : x = [id |-> line.id, code |-> code, result |-> Failed]
    OBVIOUS
  <1>2. x.id = line.id /\ x.result = Failed /\ Error(line, code) = <<x>>
    BY <1>1 DEF Error
  <1>3. Truthful(Failed) /\ Failed # Panicked
    BY DEF Failed, Panicked, Outcome, Truthful
  <1>4. QED
    BY <1>2, <1>3 DEF Replies, ReplyID

LEMMA SuccessReplies ==
    ASSUME NEW line, NEW r, line.method \notin Silent, line.method # "garbage", Truthful(r),
           r # Panicked
    PROVE  Replies(line, Success(line, r))
  <1>1. PICK x, z : z = 0 /\ x = [id |-> line.id, code |-> z, result |-> r]
    OBVIOUS
  <1>2. x.id = line.id /\ x.result = r /\ Success(line, r) = <<x>>
    BY <1>1 DEF Success
  <1>3. QED
    BY <1>2 DEF Replies, ReplyID

LEMMA ToolCallReplies ==
    ASSUME NEW line, line.method = "tools/call", NEW response \in handleToolCall(line)
    PROVE  Replies(line, response)
  <1>1. line.method \notin Silent /\ line.method # "garbage"
    BY DEF Silent
  <1>2. \/ \E code : response = Error(line, code)
        \/ \E r \in Call(line.call) : r # Panicked /\ response = Success(line, r)
    BY DEF handleToolCall
  <1>3. QED
    BY <1>1, <1>2, ErrorReplies, SuccessReplies, CallTells

LEMMA LineReplies == ASSUME NEW line, NEW response \in HandleLine(line) PROVE Replies(line, response)
  <1>1. CASE line.method = "garbage"
    <2>1. response = Error([id |-> NoID], jsonRPCParseError)
      <3>1. HandleLine(line) = {Error([id |-> NoID], jsonRPCParseError)}
        BY <1>1, Zenon DEF HandleLine
      <3>2. QED
        BY <3>1
    <2>2. PICK x : x = [id |-> NoID, code |-> jsonRPCParseError, result |-> Failed]
      OBVIOUS
    <2>3. response = <<x>> /\ x.id = NoID /\ x.result = Failed
      BY <2>1, <2>2 DEF Error
    <2>4. Truthful(Failed) /\ Failed # Panicked
      BY DEF Failed, Panicked, Outcome, Truthful
    <2>5. line.method \notin Silent /\ ReplyID(line) = NoID
      BY <1>1 DEF Silent, ReplyID
    <2>6. QED
      BY <2>3, <2>4, <2>5 DEF Replies
  <1>2. CASE line.method \in Silent
    <2>1. response = <<>>
      <3>1. HandleLine(line) = {<<>>}
        BY <1>2, Zenon DEF HandleLine, Silent
      <3>2. QED
        BY <3>1
    <2>2. QED
      BY <1>2, <2>1 DEF Replies
  <1>3. CASE line.method \notin Silent /\ line.method # "garbage"
    <2>1. \/ \E code : response = Error(line, code)
          \/ response = Success(line, Nothing)
          \/ line.method = "tools/call" /\ response \in handleToolCall(line)
      <3>1. CASE line.method = "bad_version"
        <4>1. HandleLine(line) = {Error(line, jsonRPCInvalidRequest)}
          BY <3>1, Zenon DEF HandleLine
        <4>2. QED
          BY <4>1, Zenon
      <3>2. CASE line.method \in {"initialize", "ping"}
        <4>1. HandleLine(line) = {Success(line, Nothing)}
          BY <3>2, Zenon DEF HandleLine
        <4>2. QED
          BY <4>1, Zenon
      <3>3. CASE line.method = "initialize_bad_params"
        <4>1. HandleLine(line) = {Error(line, jsonRPCInvalidParams)}
          BY <3>3, Zenon DEF HandleLine
        <4>2. QED
          BY <4>1, Zenon
      <3>4. CASE line.method = "tools/list"
        <4>1. HandleLine(line) = requireInitialized(line, {Success(line, Nothing)})
          BY <3>4, Zenon DEF HandleLine
        <4>2. QED
          BY <4>1, Zenon DEF requireInitialized
      <3>5. CASE line.method = "tools/call"
        <4>1. HandleLine(line) = requireInitialized(line, handleToolCall(line))
          BY <3>5, Zenon DEF HandleLine
        <4>2. QED
          BY <3>5, <4>1, Zenon DEF requireInitialized
      <3>6. CASE line.method \notin {"bad_version", "initialize", "ping", "initialize_bad_params",
                                    "tools/list", "tools/call"}
        <4>1. HandleLine(line) = {Error(line, jsonRPCMethodNotFound)}
          BY <1>3, <3>6, Zenon DEF HandleLine, Silent
        <4>2. QED
          BY <4>1, Zenon
      <3>7. QED
        BY <3>1, <3>2, <3>3, <3>4, <3>5, <3>6
    <2>2. Truthful(Nothing) /\ Nothing # Panicked
      BY DEF Nothing, Panicked, Outcome, Truthful
    <2>3. QED
      BY <1>3, <2>1, <2>2, ErrorReplies, SuccessReplies, ToolCallReplies
  <1>4. QED
    BY <1>1, <1>2, <1>3

-----------------------------------------------------------------------------
(* The requests among the first lines.                                      *)

IsSeq(s) == \E S : s \in Seq(S)

LEMMA AppendSeq ==
    ASSUME NEW s, IsSeq(s), NEW e
    PROVE  /\ IsSeq(Append(s, e)) /\ Len(s) \in Nat /\ Len(Append(s, e)) = Len(s) + 1
           /\ Append(s, e)[Len(s) + 1] = e
           /\ \A i \in 1..Len(s) : Append(s, e)[i] = s[i]
           /\ s \o <<e>> = Append(s, e)
  <1>1. PICK S : s \in Seq(S)
    BY DEF IsSeq
  <1>2. PICK T : T = S \cup {e}
    OBVIOUS
  <1>3. e \in T /\ S \subseteq T
    BY <1>2
  <1>4. s \in Seq(T)
    <2>1. s = [i \in 1..Len(s) |-> s[i]] /\ Len(s) \in Nat /\ \A i \in 1..Len(s) : s[i] \in S
      BY <1>1
    <2>2. s \in [1..Len(s) -> T]
      BY <1>3, <2>1
    <2>3. QED
      BY <2>1, <2>2
  <1>5. /\ Append(s, e) \in Seq(T) /\ Len(s) \in Nat /\ Len(Append(s, e)) = Len(s) + 1
        /\ Append(s, e)[Len(s) + 1] = e
        /\ \A i \in 1..Len(s) : Append(s, e)[i] = s[i]
    BY <1>3, <1>4
  <1>6. s \o <<e>> = Append(s, e)
    BY <1>3, <1>4, AppendIsConcat
  <1>7. QED
    BY <1>5, <1>6 DEF IsSeq

LEMMA TailSeq ==
    ASSUME NEW s, IsSeq(s), s # <<>>
    PROVE  /\ IsSeq(Tail(s)) /\ Len(s) \in Nat \ {0} /\ Len(Tail(s)) = Len(s) - 1
           /\ \A i \in 1..Len(s) - 1 : Tail(s)[i] = s[i + 1]
           /\ Head(s) = s[1]
  <1>1. PICK S : s \in Seq(S)
    BY DEF IsSeq
  <1>2. QED
    BY <1>1 DEF IsSeq

LEMMA RequestsCount ==
    ASSUME NEW s, NEW k \in Nat
    PROVE  /\ IsFiniteSet(Requests(s, k)) /\ Cardinality(Requests(s, k)) \in Nat
           /\ \A i \in 1..k : Requests(s, i) \subseteq Requests(s, k)
  <1>1. IsFiniteSet(1..k)
    BY FS_Interval
  <1>2. Requests(s, k) \subseteq 1..k
    BY DEF Requests
  <1>3. IsFiniteSet(Requests(s, k))
    BY <1>1, <1>2, FS_Subset
  <1>4. \A i \in 1..k : Requests(s, i) \subseteq Requests(s, k)
    BY DEF Requests
  <1>5. QED
    BY <1>3, <1>4, FS_CardinalityType

\* Every request has a rank among the responses.
LEMMA RequestsRank ==
    ASSUME NEW s, NEW k \in Nat, NEW i \in Requests(s, k)
    PROVE  Cardinality(Requests(s, i)) \in 1..Cardinality(Requests(s, k))
  <1>1. i \in 1..k /\ i \in Nat /\ i \in Requests(s, i)
    BY DEF Requests
  <1>2. /\ IsFiniteSet(Requests(s, i)) /\ Cardinality(Requests(s, i)) \in Nat
        /\ IsFiniteSet(Requests(s, k)) /\ Cardinality(Requests(s, k)) \in Nat
        /\ Requests(s, i) \subseteq Requests(s, k)
    BY <1>1, RequestsCount
  <1>3. Cardinality(Requests(s, i)) <= Cardinality(Requests(s, k))
    BY <1>2, FS_Subset
  <1>4. Cardinality(Requests(s, i)) # 0
    BY <1>1, <1>2, FS_EmptySet
  <1>5. QED
    BY <1>2, <1>3, <1>4

LEMMA RequestsNext ==
    ASSUME NEW s, NEW k \in Nat
    PROVE  /\ s[k + 1].method \in Silent => Requests(s, k + 1) = Requests(s, k)
           /\ s[k + 1].method \notin Silent =>
                  /\ Requests(s, k + 1) = Requests(s, k) \cup {k + 1}
                  /\ Cardinality(Requests(s, k + 1)) = Cardinality(Requests(s, k)) + 1
  <1>1. 1..k + 1 = (1..k) \cup {k + 1} /\ k + 1 \notin 1..k
    OBVIOUS
  <1>2. s[k + 1].method \in Silent => Requests(s, k + 1) = Requests(s, k)
    BY <1>1 DEF Requests
  <1>3. s[k + 1].method \notin Silent => Requests(s, k + 1) = Requests(s, k) \cup {k + 1}
    BY <1>1 DEF Requests
  <1>4. k + 1 \notin Requests(s, k) /\ IsFiniteSet(Requests(s, k))
    BY <1>1, RequestsCount DEF Requests
  <1>5. QED
    BY <1>2, <1>3, <1>4, FS_AddElement

\* A line written later changes nothing.
LEMMA RequestsAppend ==
    ASSUME NEW s, IsSeq(s), NEW e, NEW k \in 0..Len(s)
    PROVE  Requests(Append(s, e), k) = Requests(s, k)
  <1>1. Len(s) \in Nat /\ \A i \in 1..Len(s) : Append(s, e)[i] = s[i]
    BY AppendSeq
  <1>2. \A i \in 1..k : i \in 1..Len(s)
    BY <1>1
  <1>3. QED
    BY <1>1, <1>2 DEF Requests

-----------------------------------------------------------------------------
(* The inductive invariant of a session: k of the lines w are read, the     *)
(* pipe p holds the others, and the responses o answer the requests among   *)
(* the k, in order and truthfully.                                          *)

Told(w, p, o, k) ==
    /\ IsSeq(w) /\ IsSeq(p) /\ IsSeq(o) /\ k \in Nat
    /\ Len(w) = k + Len(p)
    /\ \A i \in 1..Len(p) : p[i] = w[k + i]
    /\ Len(o) = Cardinality(Requests(w, k))
    /\ \A i \in Requests(w, k) : o[Cardinality(Requests(w, i))].id = ReplyID(w[i])
    /\ \A j \in 1..Len(o) : Truthful(o[j].result)

\* p is the pipe; when a response could not be written, its line is still
\* in p and the pipe no longer matters.
Kept(p) ==
    IF serve = "write_failed" THEN p # <<>> /\ Head(p).method \notin Silent ELSE p = pipe

SessionInv ==
    /\ serve # "crashed"
    /\ serve \in {"returned", "read_failed"} => pipe = <<>> /\ readErr # "nil"
    /\ bare = TRUE => readErr # "nil"
    /\ \E p, k : Told(written, p, out, k) /\ Kept(p)

LEMMA SessionStart == SessionInit => SessionInv
  <1> SUFFICES ASSUME SessionInit PROVE SessionInv
    OBVIOUS
  <1>1. pipe = <<>> /\ written = <<>> /\ out = <<>> /\ serve = "running" /\ bare = FALSE
    BY DEF SessionInit
  <1>2. PICK e : e = <<>>
    OBVIOUS
  <1>3. IsSeq(e) /\ Len(e) = 0
    BY <1>2 DEF IsSeq
  <1>4. Requests(e, 0) = {}
    BY DEF Requests
  <1>5. Cardinality(Requests(e, 0)) = 0
    BY <1>4, FS_EmptySet
  <1>6. Told(e, e, e, 0)
    BY <1>3, <1>4, <1>5 DEF Told
  <1>7. QED
    BY <1>1, <1>2, <1>6 DEF SessionInv, Kept

LEMMA ToldWrite ==
    ASSUME NEW w, NEW p, NEW o, NEW k, Told(w, p, o, k), NEW e
    PROVE  Told(Append(w, e), Append(p, e), o, k)
  <1>1. PICK v, q : v = Append(w, e) /\ q = Append(p, e)
    OBVIOUS
  <1>2. /\ IsSeq(v) /\ IsSeq(q) /\ Len(w) \in Nat /\ Len(p) \in Nat /\ k \in Nat
        /\ Len(w) = k + Len(p) /\ Len(v) = Len(w) + 1 /\ Len(q) = Len(p) + 1
        /\ v[Len(w) + 1] = e /\ q[Len(p) + 1] = e
        /\ \A i \in 1..Len(w) : v[i] = w[i]
        /\ \A i \in 1..Len(p) : q[i] = p[i]
    BY <1>1, AppendSeq DEF Told
  <1>3. ASSUME NEW i \in 1..Len(q) PROVE q[i] = v[k + i]
    <2>1. CASE i = Len(p) + 1
      BY <1>2, <2>1
    <2>2. CASE i \in 1..Len(p)
      <3>1. k + i \in 1..Len(w) /\ p[i] = w[k + i]
        BY <1>2, <2>2 DEF Told
      <3>2. QED
        BY <1>2, <2>2, <3>1
    <2>3. QED
      BY <1>2, <2>1, <2>2
  <1>4. Len(v) = k + Len(q)
    BY <1>2
  <1>5. \A j \in 0..Len(w) : Requests(v, j) = Requests(w, j)
    BY <1>1, RequestsAppend DEF Told
  <1>6. k \in 0..Len(w)
    BY <1>2
  <1>7. Requests(v, k) = Requests(w, k)
    BY <1>5, <1>6
  <1>8. ASSUME NEW i \in Requests(v, k)
        PROVE  o[Cardinality(Requests(v, i))].id = ReplyID(v[i])
    <2>1. i \in Requests(w, k) /\ i \in 1..k
      BY <1>7 DEF Requests
    <2>2. i \in 1..Len(w) /\ i \in 0..Len(w)
      BY <1>2, <2>1
    <2>3. v[i] = w[i] /\ Requests(v, i) = Requests(w, i)
      BY <1>2, <1>5, <2>2
    <2>4. QED
      BY <2>1, <2>3 DEF Told
  <1>9. QED
    BY <1>1, <1>2, <1>3, <1>4, <1>7, <1>8 DEF Told

\* One line is read and gets its reply.
LEMMA ToldServe ==
    ASSUME NEW w, NEW p, NEW o, NEW k, Told(w, p, o, k), p # <<>>,
           NEW response, Replies(Head(p), response)
    PROVE  Told(w, Tail(p), o \o response, k + 1)
  <1>1. PICK q, line : q = Tail(p) /\ line = Head(p)
    OBVIOUS
  <1>2. /\ IsSeq(q) /\ Len(p) \in Nat \ {0} /\ Len(q) = Len(p) - 1 /\ line = p[1]
        /\ \A i \in 1..Len(p) - 1 : q[i] = p[i + 1]
    BY <1>1, TailSeq DEF Told
  <1>3. /\ IsSeq(w) /\ IsSeq(o) /\ k \in Nat /\ Len(w) = k + Len(p) /\ Replies(line, response)
        /\ \A i \in 1..Len(p) : p[i] = w[k + i]
    BY <1>1 DEF Told
  <1>4. line = w[k + 1] /\ k + 1 \in Nat /\ Len(w) = k + 1 + Len(q)
    BY <1>2, <1>3
  <1>5. ASSUME NEW i \in 1..Len(q) PROVE q[i] = w[k + 1 + i]
    <2>1. i \in 1..Len(p) - 1 /\ i + 1 \in 1..Len(p) /\ k + (i + 1) = k + 1 + i
      BY <1>2, <1>3
    <2>2. QED
      BY <1>2, <1>3, <2>1
  <1>6. PICK c \in Nat : c = Cardinality(Requests(w, k)) /\ Len(o) = c
    BY <1>3, RequestsCount DEF Told
  <1>7. CASE line.method \in Silent
    <2>1. response = <<>> /\ o \o response = o
      <3>1. response = <<>>
        BY <1>3, <1>7 DEF Replies
      <3>2. PICK S : o \in Seq(S)
        BY <1>3 DEF IsSeq
      <3>3. QED
        BY <3>1, <3>2, ConcatEmptySeq
    <2>2. Requests(w, k + 1) = Requests(w, k)
      BY <1>3, <1>4, <1>7, RequestsNext
    <2>3. QED
      BY <1>1, <1>2, <1>4, <1>5, <2>1, <2>2 DEF Told
  <1>8. CASE line.method \notin Silent
    <2>1. PICK x : response = <<x>> /\ x.id = ReplyID(line) /\ Truthful(x.result)
      BY <1>3, <1>8 DEF Replies
    <2>2. PICK z : z = o \o response
      OBVIOUS
    <2>3. /\ IsSeq(z) /\ Len(z) = c + 1 /\ z[c + 1] = x
          /\ \A j \in 1..c : z[j] = o[j]
      <3>1. z = Append(o, x)
        BY <1>3, <2>1, <2>2, AppendSeq
      <3>2. QED
        BY <1>3, <1>6, <3>1, AppendSeq
    <2>4. /\ Requests(w, k + 1) = Requests(w, k) \cup {k + 1}
          /\ Cardinality(Requests(w, k + 1)) = c + 1
      BY <1>3, <1>4, <1>6, <1>8, RequestsNext
    <2>5. ASSUME NEW i \in Requests(w, k + 1)
          PROVE  z[Cardinality(Requests(w, i))].id = ReplyID(w[i])
      <3>1. CASE i = k + 1
        BY <1>4, <2>1, <2>3, <2>4, <3>1
      <3>2. CASE i \in Requests(w, k)
        <4>1. PICK m : m = Cardinality(Requests(w, i))
          OBVIOUS
        <4>2. m \in 1..c
          BY <1>3, <1>6, <3>2, <4>1, RequestsRank
        <4>3. o[m].id = ReplyID(w[i])
          BY <3>2, <4>1 DEF Told
        <4>4. QED
          BY <2>3, <4>1, <4>2, <4>3
      <3>3. QED
        BY <2>4, <3>1, <3>2
    <2>6. ASSUME NEW j \in 1..c + 1 PROVE Truthful(z[j].result)
      <3>1. CASE j = c + 1
        BY <2>1, <2>3, <3>1
      <3>2. CASE j \in 1..c
        BY <1>6, <2>3, <3>2 DEF Told
      <3>3. QED
        BY <1>6, <3>1, <3>2
    <2>7. QED
      BY <1>1, <1>2, <1>3, <1>4, <1>5, <2>2, <2>3, <2>4, <2>5, <2>6 DEF Told
  <1>9. QED
    BY <1>7, <1>8

\* The responses are to the first requests, and what is left is owed.
LEMMA ToldInOrder ==
    ASSUME NEW w, NEW p, NEW o, NEW k, Told(w, p, o, k)
    PROVE  /\ p = <<>> => Len(o) = Cardinality(Requests(w, Len(w)))
           /\ (p # <<>> /\ Head(p).method \notin Silent) =>
                  Len(o) < Cardinality(Requests(w, Len(w)))
           /\ \A i \in Requests(w, Len(w)) :
                  LET n == Cardinality(Requests(w, i))
                  IN n <= Len(o) => o[n].id = ReplyID(w[i])
  <1>1. PICK c, z : /\ c = Cardinality(Requests(w, k)) /\ z = Len(w) /\ c \in Nat /\ z \in Nat
                    /\ Len(o) = c /\ k \in Nat /\ z = k + Len(p) /\ Len(p) \in Nat
    <2>1. k \in Nat /\ Len(p) \in Nat /\ Len(w) \in Nat
      BY DEF Told, IsSeq
    <2>2. QED
      BY <2>1, RequestsCount DEF Told
  <1>2. ASSUME NEW i \in Nat, NEW j \in Nat, i <= j
        PROVE  Cardinality(Requests(w, i)) <= Cardinality(Requests(w, j))
    <2>1. Requests(w, i) \subseteq Requests(w, j)
      BY <1>2 DEF Requests
    <2>2. QED
      BY <2>1, RequestsCount, FS_Subset
  <1>3. ASSUME NEW i \in Requests(w, z), i > k PROVE Cardinality(Requests(w, i)) > c
    <2>1. i \in Nat \ {0} /\ w[i].method \notin Silent
      BY <1>1 DEF Requests
    <2>2. PICK j \in Nat : j + 1 = i /\ k <= j
      <3>1. i - 1 \in Nat /\ (i - 1) + 1 = i /\ k <= i - 1
        BY <1>1, <1>3, <2>1
      <3>2. QED
        BY <3>1
    <2>3. Cardinality(Requests(w, i)) = Cardinality(Requests(w, j)) + 1
      BY <2>1, <2>2, RequestsNext
    <2>4. c <= Cardinality(Requests(w, j)) /\ Cardinality(Requests(w, j)) \in Nat
      BY <1>1, <1>2, <2>2, RequestsCount
    <2>5. QED
      BY <1>1, <2>3, <2>4
  <1>4. ASSUME NEW i \in Requests(w, z), Cardinality(Requests(w, i)) <= c
        PROVE  o[Cardinality(Requests(w, i))].id = ReplyID(w[i])
    <2>1. i \in 1..z /\ i \in Nat /\ w[i].method \notin Silent
      BY <1>1 DEF Requests
    <2> Cardinality(Requests(w, i)) \in Nat
      BY <2>1, RequestsCount
    <2>2. ~(i > k)
      BY <1>1, <1>3, <1>4, <2>1
    <2>3. i \in Requests(w, k)
      BY <1>1, <2>1, <2>2 DEF Requests
    <2>4. QED
      BY <2>3 DEF Told
  <1>5. p = <<>> => z = k
    <2>1. Len(<<>>) = 0
      OBVIOUS
    <2>2. QED
      BY <1>1, <2>1
  <1>6. ASSUME p # <<>>, Head(p).method \notin Silent PROVE c < Cardinality(Requests(w, z))
    <2>1. Head(p) = w[k + 1] /\ k + 1 \in 1..z
      <3>1. Len(p) \in Nat \ {0} /\ Head(p) = p[1]
        BY <1>6, TailSeq DEF Told
      <3>2. p[1] = w[k + 1]
        BY <3>1 DEF Told
      <3>3. QED
        BY <1>1, <3>1, <3>2
    <2>2. Cardinality(Requests(w, k + 1)) = c + 1
      BY <1>1, <1>6, <2>1, RequestsNext
    <2>3. Cardinality(Requests(w, k + 1)) <= Cardinality(Requests(w, z))
      BY <1>1, <1>2, <2>1
    <2>4. Cardinality(Requests(w, z)) \in Nat
      BY <1>1, RequestsCount
    <2>5. QED
      BY <1>1, <2>2, <2>3, <2>4
  <1>7. QED
    BY <1>1, <1>4, <1>5, <1>6

LEMMA HeadAppended ==
    ASSUME NEW s, IsSeq(s), s # <<>>, NEW e
    PROVE  Append(s, e) # <<>> /\ Head(Append(s, e)) = Head(s)
  <1>1. PICK S : s \in Seq(S)
    BY DEF IsSeq
  <1>2. PICK T : T = S \cup {e}
    OBVIOUS
  <1>3. /\ IsSeq(Append(s, e)) /\ Len(s) \in Nat /\ Len(Append(s, e)) = Len(s) + 1
        /\ \A i \in 1..Len(s) : Append(s, e)[i] = s[i]
    BY AppendSeq
  <1>4. Len(s) # 0 /\ Head(s) = s[1]
    BY <1>1
  <1>5. Append(s, e) # <<>>
    BY <1>3
  <1>6. Head(Append(s, e)) = Append(s, e)[1]
    BY <1>3, <1>5, TailSeq
  <1>7. QED
    BY <1>3, <1>4, <1>5, <1>6

LEMMA TailOfOne ==
    ASSUME NEW s, IsSeq(s), s # <<>>, Len(s) = 1
    PROVE  Tail(s) = <<>>
  <1>1. PICK S : s \in Seq(S)
    BY DEF IsSeq
  <1>2. Tail(s) \in Seq(S) /\ Len(Tail(s)) = 0
    BY <1>1
  <1>3. QED
    BY <1>2, EmptySeq

LEMMA SessionStep == ASSUME SessionInv, [SessionNext]_sessionVars PROVE SessionInv'
  <1>1. PICK p, k : Told(written, p, out, k) /\ Kept(p)
    BY DEF SessionInv
  <1>2. CASE Write
    <2>1. PICK e : /\ pipe' = Append(pipe, e) /\ written' = Append(written, e)
                   /\ out' = out /\ serve' = serve /\ readErr' = readErr /\ bare' = bare
                   /\ readErr = "nil"
      BY <1>2 DEF Write
    <2>2. PICK q : q = Append(p, e)
      OBVIOUS
    <2>3. Told(written', q, out', k)
      BY <1>1, <2>1, <2>2, ToldWrite
    <2>4. Kept(q)'
      <3>1. CASE serve = "write_failed"
        <4>1. p # <<>> /\ Head(p).method \notin Silent /\ IsSeq(p)
          BY <1>1, <3>1 DEF Kept, Told
        <4>2. q # <<>> /\ Head(q) = Head(p)
          BY <2>2, <4>1, HeadAppended
        <4>3. QED
          BY <2>1, <3>1, <4>1, <4>2 DEF Kept
      <3>2. CASE serve # "write_failed"
        BY <1>1, <2>1, <2>2, <3>2 DEF Kept
      <3>3. QED
        BY <3>1, <3>2
    <2>5. QED
      BY <2>1, <2>3, <2>4 DEF SessionInv
  <1>3. CASE Close
    <2>1. /\ pipe' = pipe /\ written' = written /\ out' = out /\ serve' = serve /\ readErr = "nil"
          /\ readErr' # "nil"
      BY <1>3 DEF Close
    <2>2. Told(written', p, out', k) /\ Kept(p)'
      BY <1>1, <2>1 DEF Kept
    <2>3. QED
      BY <2>1, <2>2 DEF SessionInv
  <1>4. CASE ServeLine
    <2>1. PICK next : /\ pipe # <<>> /\ serve = "running" /\ pipe' = Tail(pipe)
                      /\ written' = written /\ readErr' = readErr /\ bare' = bare
                      /\ Handle(Head(pipe), next)
                      /\ next = IF WithError THEN Ended ELSE serve
      BY <1>4 DEF ServeLine
    <2>2. PICK line : line = Head(pipe)
      OBVIOUS
    <2>3. PICK response \in HandleLine(line) :
              IF response = Crash THEN serve' = "crashed" /\ UNCHANGED out
              ELSE \/ out' = out \o response /\ serve' = next
                   \/ response # <<>> /\ serve' = "write_failed" /\ UNCHANGED out
      BY <2>1, <2>2 DEF Handle
    <2>4. Replies(line, response)
      BY LineReplies
    <2>5. response # Crash
      <3>1. PICK y, z, n : /\ y = [id |-> n, code |-> z, result |-> Panicked]
                           /\ Crash = <<y>>
        BY DEF Crash
      <3>2. y.result = Panicked
        BY <3>1
      <3>3. <<y>> # <<>> /\ \A x : <<x>> = <<y>> => x = y
        <4>1. \A x : <<x>>[1] = x
          OBVIOUS
        <4>2. Len(<<y>>) = 1 /\ Len(<<>>) = 0
          OBVIOUS
        <4>3. QED
          BY <4>1, <4>2, Zenon
      <3>4. response = <<>> \/ \E x : response = <<x>> /\ x.result # Panicked
        BY <2>4 DEF Replies
      <3>5. QED
        BY <3>1, <3>2, <3>3, <3>4, Zenon
    <2>6. p = pipe /\ IsSeq(pipe)
      BY <1>1, <2>1 DEF Kept, Told
    <2>7. CASE out' = out \o response /\ serve' = next
      <3>1. Told(written', pipe', out', k + 1)
        BY <1>1, <2>1, <2>2, <2>4, <2>6, <2>7, ToldServe
      <3>2. /\ next \in {"running", "returned", "read_failed"}
            /\ next # "running" => bare /\ Len(pipe) = 1
        BY <2>1 DEF WithError, Ended
      <3>3. next # "running" => pipe' = <<>> /\ readErr # "nil"
        <4>1. Len(pipe) = 1 => Tail(pipe) = <<>>
          BY <2>1, <2>6, TailOfOne
        <4>2. bare => readErr # "nil"
          BY DEF SessionInv
        <4>3. QED
          BY <2>1, <3>2, <4>1, <4>2
      <3>4. Kept(pipe)'
        BY <2>7, <3>2 DEF Kept
      <3>5. serve' # "crashed" /\ serve' \in {"running", "returned", "read_failed"}
        BY <2>7, <3>2
      <3>6. serve' \in {"returned", "read_failed"} => pipe' = <<>> /\ readErr' # "nil"
        BY <2>1, <2>7, <3>3
      <3>7. QED
        BY <2>1, <3>1, <3>4, <3>5, <3>6 DEF SessionInv
    <2>8. CASE response # <<>> /\ serve' = "write_failed" /\ out' = out
      <3>1. line.method \notin Silent
        BY <2>4, <2>8 DEF Replies
      <3>2. Told(written', p, out', k) /\ Kept(p)'
        BY <1>1, <2>1, <2>2, <2>6, <2>8, <3>1 DEF Kept
      <3>3. QED
        BY <2>1, <2>8, <3>2 DEF SessionInv
    <2>9. QED
      BY <2>3, <2>5, <2>7, <2>8
  <1>5. CASE ServeEOF
    <2>1. /\ pipe' = pipe /\ written' = written /\ out' = out /\ serve = "running"
          /\ serve' \in {"returned", "read_failed"}
          /\ readErr' = readErr /\ bare' = bare /\ pipe = <<>> /\ readErr # "nil"
      BY <1>5 DEF ServeEOF, Ended
    <2>2. Told(written', p, out', k) /\ Kept(p)'
      BY <1>1, <2>1 DEF Kept
    <2>3. QED
      BY <2>1, <2>2 DEF SessionInv
  <1>6. CASE UNCHANGED sessionVars
    <2>1. /\ pipe' = pipe /\ written' = written /\ out' = out /\ serve' = serve
          /\ readErr' = readErr /\ bare' = bare
      BY <1>6 DEF sessionVars
    <2>2. Told(written', p, out', k) /\ Kept(p)'
      BY <1>1, <2>1 DEF Kept
    <2>3. QED
      BY <2>1, <2>2 DEF SessionInv
  <1>7. QED
    BY <1>2, <1>3, <1>4, <1>5, <1>6 DEF SessionNext

LEMMA SessionHolds == SessionSpec => []SessionInv
  BY SessionStart, SessionStep, PTL DEF SessionSpec

(***************************************************************************)
(* Serve (server.go:33) never returns before it has answered every request *)
(* that reached it, each once, with its own id and in the order of         *)
(* writing, and no tool's panic ends the process; when a response cannot   *)
(* be written, the earlier ones answer the first requests.  The safety     *)
(* half of AllAnswered, for every client and any number of lines.          *)
(***************************************************************************)
THEOREM NoRequestDropped ==
    SessionSpec => [](/\ serve # "crashed"
                      /\ serve \in {"returned", "read_failed"} => Answered
                      /\ serve = "write_failed" => Len(out) < Owed /\ InOrder)
  <1>1. ASSUME SessionInv
        PROVE  /\ serve # "crashed"
               /\ serve \in {"returned", "read_failed"} => Answered
               /\ serve = "write_failed" => Len(out) < Owed /\ InOrder
    <2>1. PICK p, k : Told(written, p, out, k) /\ Kept(p)
      BY <1>1 DEF SessionInv
    <2>2. InOrder /\ (p = <<>> => Len(out) = Owed)
          /\ ((p # <<>> /\ Head(p).method \notin Silent) => Len(out) < Owed)
      BY <2>1, ToldInOrder DEF InOrder, Owed
    <2>3. QED
      BY <1>1, <2>1, <2>2 DEF SessionInv, Kept, Answered
  <1>2. QED
    BY <1>1, SessionHolds, PTL

LEMMA AnswersTell ==
    ASSUME SessionInv, NEW tool, NEW r \in Answers(tool)
    PROVE  Truthful(r) /\ r.ok = TRUE /\ r.tool = tool
  <1>1. PICK p, k : Told(written, p, out, k)
    BY DEF SessionInv
  <1>2. PICK S : out \in Seq(S)
    BY <1>1 DEF Told, IsSeq
  <1>3. PICK x \in ToSet(out) : r = x.result /\ x.result.ok /\ x.result.tool = tool
    BY DEF Answers
  <1>4. PICK j \in 1..Len(out) : x = out[j]
    BY <1>2, <1>3 DEF ToSet
  <1>5. QED
    BY <1>1, <1>3, <1>4 DEF Told

\* The blockers that are left when the plan is done, and those of a packet
\* about which nothing was reported.
LEMMA BlockersLeft ==
    ASSUME NEW packet, NEW evidence, NEW reviews
    PROVE  (/\ Steps(packet) \subseteq evidence
            /\ requiredReviews(packet) \subseteq reviews)
              <=> \A b \in Blockers(packet, evidence, reviews) : b[1] \in {"decision", "lane"}
  <1>1. PICK E, R : /\ E = {f \in packet.evidence : f.required /\ f.name \notin evidence}
                    /\ R = {q \in packet.reviewers : q.mandatory /\ q.team \notin reviews}
    OBVIOUS
  <1>2. PICK D, L : /\ D = IF packet.status # "approved" THEN {<<"decision", packet.status>>} ELSE {}
                    /\ L = IF packet.lane = "BLACK" THEN {<<"lane", "BLACK">>} ELSE {}
    OBVIOUS
  <1>3. PICK e, v, d, l : e = "evidence" /\ v = "review" /\ d = "decision" /\ l = "lane"
    OBVIOUS
  <1>4. /\ \A b \in D : b[1] = d
        /\ \A b \in L : b[1] = l
    BY <1>2, <1>3
  <1>5. Blockers(packet, evidence, reviews) =
            {<<e, n.name>> : n \in E} \cup {<<v, t.team>> : t \in R} \cup D \cup L
    BY <1>1, <1>2, <1>3 DEF Blockers
  <1>6. (E = {} /\ R = {}) <=> \A b \in Blockers(packet, evidence, reviews) : b[1] \in {d, l}
    <2>1. e \notin {d, l} /\ v \notin {d, l}
      BY <1>3
    <2>2. \A n : <<e, n>>[1] = e /\ <<v, n>>[1] = v
      OBVIOUS
    <2>3. PICK F, V : F = {<<e, n.name>> : n \in E} /\ V = {<<v, t.team>> : t \in R}
      OBVIOUS
    <2>4. (\A b \in F : b[1] = e) /\ (F = {} <=> E = {})
      BY <2>2, <2>3
    <2>5. (\A b \in V : b[1] = v) /\ (V = {} <=> R = {})
      BY <2>2, <2>3
    <2>6. Blockers(packet, evidence, reviews) = F \cup V \cup D \cup L
      BY <1>5, <2>3
    <2>7. QED
      BY <1>4, <2>1, <2>4, <2>5, <2>6
  <1>7. (E = {}) <=> Steps(packet) \subseteq evidence
    BY <1>1 DEF Steps
  <1>8. (R = {}) <=> requiredReviews(packet) \subseteq reviews
    BY <1>1 DEF requiredReviews
  <1>9. QED
    BY <1>3, <1>6, <1>7, <1>8

LEMMA NothingBlocks ==
    ASSUME NEW packet
    PROVE  nextAction(packet) = "nothing_unreported" <=> Blockers(packet, {}, {}) = {}
  <1>1. (nextAction(packet) = "nothing_unreported") <=>
            /\ packet.status = "approved" /\ packet.lane # "BLACK"
            /\ ~\E e \in packet.evidence : e.required
            /\ ~\E r \in packet.reviewers : r.mandatory
    BY DEF nextAction, requiredReviews
  <1>2. (Blockers(packet, {}, {}) = {}) <=>
            /\ packet.status = "approved" /\ packet.lane # "BLACK"
            /\ ~\E e \in packet.evidence : e.required
            /\ ~\E r \in packet.reviewers : r.mandatory
    BY DEF Blockers
  <1>3. QED
    BY <1>1, <1>2

(***************************************************************************)
(* The agent tools tell one story of a packet, in every session: the plan  *)
(* of merger_plan_evidence is exactly what clears the evidence and review  *)
(* blockers of merger_check_readiness, and merger_explain sees nothing     *)
(* left to do iff nothing blocks.                                          *)
(***************************************************************************)
THEOREM ToolsAgreeHolds == SessionSpec => []ToolsAgree
  <1>1. SessionInv => ToolsAgree
    <2> SUFFICES ASSUME SessionInv, NEW check \in Answers("merger_check_readiness")
                 PROVE
        /\ \A plan \in Answers("merger_plan_evidence") : plan.packet = check.packet =>
               ((plan.steps \subseteq check.evidence /\ plan.reviews \subseteq check.reviews) <=>
                   \A b \in check.blockers : b[1] \in {"decision", "lane"})
        /\ \A why \in Answers("merger_explain") : why.packet = check.packet =>
               (why.next = "nothing_unreported" <=> Blockers(why.packet, {}, {}) = {})
      BY DEF ToolsAgree
    <2>1. check.blockers = Blockers(check.packet, check.evidence, check.reviews)
      BY AnswersTell DEF Truthful
    <2>2. ASSUME NEW plan \in Answers("merger_plan_evidence"), plan.packet = check.packet
          PROVE  (plan.steps \subseteq check.evidence /\ plan.reviews \subseteq check.reviews) <=>
                     \A b \in check.blockers : b[1] \in {"decision", "lane"}
      <3>1. /\ plan.steps = Steps(check.packet)
            /\ plan.reviews = requiredReviews(check.packet)
        BY <2>2, AnswersTell DEF Truthful
      <3>2. QED
        BY <2>1, <3>1, BlockersLeft
    <2>3. ASSUME NEW why \in Answers("merger_explain")
          PROVE  why.next = "nothing_unreported" <=> Blockers(why.packet, {}, {}) = {}
      <3>1. why.next = nextAction(why.packet)
        BY AnswersTell DEF Truthful
      <3>2. QED
        BY <3>1, NothingBlocks
    <2>4. QED
      BY <2>2, <2>3
  <1>2. QED
    BY <1>1, SessionHolds, PTL

=============================================================================

---------------------------- MODULE RuntimeGraph ----------------------------
(***************************************************************************)
(* One call of runtimegraph.Builder.ResolveImpact: the sources run in the  *)
(* order NewResolver gave them, each contributes a fragment, and a graph   *)
(* manifest whose nodes the change touches is traversed breadth first.     *)
(* One step is one source, or one pass of the traversal loop.              *)
(*                                                                         *)
(* What paths and patterns do to each other is data: a changed file is the *)
(* service its path names, the system its YAML declares, the graph nodes   *)
(* and the CODEOWNERS lines whose patterns match it.                       *)
(***************************************************************************)
EXTENDS Integers, FiniteSets, Sequences, SequencesExt

CONSTANTS
    ChangedFiles,  \* the sequences of files, each [service, system, nodes, lines]
    NodeIDs,       \* every id a graph manifest mentions
    Manifests,     \* the graph manifests: [nodes, edges, rank]
    CodeOwners,    \* the team of every CODEOWNERS line, in file order
    Configured,    \* the Options NewResolver may be given
    Forwards       \* whether callers also pass them in the ResolutionInput: ingest and
                   \* scan do not (FALSE), the package's own tests do (TRUE)

\* NodeIDs holds every id that a manifest mentions; depths are numbers.
ManifestsOverIDs ==
    /\ IsFiniteSet(NodeIDs)
    /\ \A graph \in Manifests :
        graph.nodes \subseteq NodeIDs /\ graph.edges \subseteq NodeIDs \X NodeIDs
    /\ \A o \in Configured : o.depth \in Int

NoName == "none"

\* The zero Options: what a ResolutionInput without that field holds.
NoOptions == [codeOwners |-> FALSE, manifestPath |-> FALSE, depth |-> 0]

VARIABLES
    options,     \* what NewResolver was given
    resolution,  \* the ResolutionInput: its files, Options and what the Loader reads
    sources,     \* the sources that have not run
    impact,      \* [criticality, services, owners, state]
    walk         \* traverseGraph: [on, queue, visited, depth, systems, criticality]

resolveVars == <<options, resolution, sources, impact, walk>>

-----------------------------------------------------------------------------
(* Criticality.  "" is the value of a node that declares none.             *)

criticalityRank(value) ==
    IF value = "tier0" THEN 4 ELSE IF value = "high" THEN 3 ELSE IF value = "normal" THEN 2 ELSE 1

promote(current, candidate) ==
    IF criticalityRank(candidate) > criticalityRank(current) THEN candidate ELSE current

-----------------------------------------------------------------------------
(* The resolver and what the sources read.                                 *)

NewResolver(o) ==
    <<"topology", "manifest">>
        \o (IF o.manifestPath THEN <<"graph">> ELSE <<>>)
        \o (IF o.codeOwners THEN <<"codeowners">> ELSE <<>>)

\* The service directories the changed paths lie in.
TopologyNames == {file.service : file \in ToSet(resolution.files)} \ {NoName}

\* The systems that changed YAML files declare, when they can be loaded.
ManifestNames ==
    IF resolution.loads THEN {file.system : file \in ToSet(resolution.files)} \ {NoName} ELSE {}

\* Every CODEOWNERS line that matches a file counts, not the last one only.
collectCodeOwners ==
    {CodeOwners[line] : line \in UNION {file.lines : file \in ToSet(resolution.files)}}

\* The file is read from .github/ and, failing that, from the root.
OwnerTeams == IF resolution.loads THEN collectCodeOwners ELSE {}

\* Nodes of the manifest with a path pattern that a changed file matches.
Affected == resolution.graph.nodes \cap UNION {file.nodes : file \in ToSet(resolution.files)}

\* Edges are followed both ways.
Adjacent(id) ==
    {e[2] : e \in {d \in resolution.graph.edges : d[1] = id}} \cup
    {e[1] : e \in {d \in resolution.graph.edges : d[2] = id}}

MaxDepth(depth) == IF depth <= 0 THEN 3 ELSE depth

deriveBlastRadius(services) ==
    CASE Cardinality(services) = 0 -> "unknown"
      [] Cardinality(services) = 1 -> "isolated"
      [] OTHER -> "localized"

-----------------------------------------------------------------------------

Idle == [on |-> FALSE, queue |-> <<>>, visited |-> {}, depth |-> [id \in NodeIDs |-> 0],
         systems |-> {}, criticality |-> ""]

ResolveInit ==
    /\ options \in Configured
    /\ \E files \in ChangedFiles, loads \in BOOLEAN, parses \in BOOLEAN,
          graph \in Manifests, forwards \in Forwards :
           resolution = [files |-> files, loads |-> loads, parses |-> parses, graph |-> graph,
                         options |-> IF forwards THEN options ELSE NoOptions]
    /\ sources = NewResolver(options)
    /\ impact = [criticality |-> "normal", services |-> {}, owners |-> {}, state |-> "running",
                 blastRadius |-> "unknown"]
    /\ walk = Idle

Running(source) ==
    impact.state = "running" /\ ~walk.on /\ sources # <<>> /\ Head(sources) = source

\* What ResolveImpact does with a fragment it does not traverse.
IndexFragment(systems, owners) ==
    /\ impact' = [impact EXCEPT !.services = @ \cup systems, !.owners = @ \cup owners]
    /\ sources' = Tail(sources)
    /\ UNCHANGED <<options, resolution, walk>>

CollectTopology == Running("topology") /\ IndexFragment(TopologyNames, TopologyNames)

CollectManifest == Running("manifest") /\ IndexFragment(ManifestNames, {})

CollectCodeOwners == Running("codeowners") /\ IndexFragment({}, OwnerTeams)

\* graphManifestSource looks at the input's Options, not at the resolver's; a
\* manifest that does not load is no error, one that does not parse is.
CollectGraph ==
    /\ Running("graph")
    /\ IF ~resolution.options.manifestPath \/ ~resolution.loads
       THEN IndexFragment({}, {})
       ELSE IF ~resolution.parses
       THEN /\ impact' = [impact EXCEPT !.state = "failed"]
            /\ UNCHANGED <<options, resolution, sources, walk>>
       ELSE IF resolution.graph.edges = {} \/ Affected = {}
       THEN IndexFragment(resolution.graph.nodes, {})
       ELSE /\ \E order \in SetToSeqs(Affected) :
                  walk' = [Idle EXCEPT !.on = TRUE, !.queue = order, !.visited = Affected]
            /\ UNCHANGED <<options, resolution, sources, impact>>

\* What processing id does to the walk; order is the new neighbours' order.
Visit(id, rest, order) ==
    [walk EXCEPT
        !.queue = rest \o order,
        !.visited = @ \cup ToSet(order),
        !.depth = [x \in NodeIDs |-> IF x \in ToSet(order) THEN @[id] + 1 ELSE @[x]],
        !.systems = @ \cup ({id} \cap resolution.graph.nodes),
        !.criticality =
            IF id \in resolution.graph.nodes THEN promote(@, resolution.graph.rank[id]) ELSE @]

\* The neighbours of id that the depth still allows and nobody has queued.
Fresh(id) ==
    IF walk.depth[id] >= MaxDepth(resolution.options.depth) THEN {} ELSE Adjacent(id) \ walk.visited

\* Faulty variants of Traverse: the newest id first; neighbours not marked.
TraverseNewest ==
    /\ walk.on /\ walk.queue # <<>>
    /\ \E order \in SetToSeqs(Fresh(Last(walk.queue))) :
           walk' = Visit(Last(walk.queue), Front(walk.queue), order)
    /\ UNCHANGED <<options, resolution, sources, impact>>
TraverseUnmarked ==
    /\ walk.on /\ walk.queue # <<>>
    /\ \E order \in SetToSeqs(Fresh(Head(walk.queue))) :
           walk' = [Visit(Head(walk.queue), Tail(walk.queue), order) EXCEPT
                       !.visited = walk.visited, !.depth = walk.depth]
    /\ UNCHANGED <<options, resolution, sources, impact>>

\* One pass of the traversal loop.  An edge may name an id that no node has:
\* it is walked through and contributes no system.  Which of several new
\* neighbours comes first follows the order of the edges.
Traverse ==
    /\ walk.on /\ walk.queue # <<>>
    /\ \E order \in SetToSeqs(Fresh(Head(walk.queue))) :
           walk' = Visit(Head(walk.queue), Tail(walk.queue), order)
    /\ UNCHANGED <<options, resolution, sources, impact>>

\* The traversal's systems stand in for the fragment's.
IndexTraversal ==
    /\ walk.on /\ walk.queue = <<>>
    /\ impact' = [impact EXCEPT !.services = @ \cup walk.systems,
                                !.criticality = promote(@, walk.criticality)]
    /\ sources' = Tail(sources)
    /\ walk' = Idle
    /\ UNCHANGED <<options, resolution>>

FinishResolve ==
    /\ impact.state = "running" /\ sources = <<>>
    /\ impact' = [impact EXCEPT !.state = "resolved",
                                !.blastRadius = deriveBlastRadius(impact.services)]
    /\ UNCHANGED <<options, resolution, sources, walk>>

ResolveImpact ==
    \/ CollectTopology \/ CollectManifest \/ CollectCodeOwners \/ CollectGraph
    \/ Traverse \/ IndexTraversal \/ FinishResolve

ResolveNext == ResolveImpact

ResolveSpec == ResolveInit /\ [][ResolveNext]_resolveVars /\ WF_resolveVars(ResolveNext)

-----------------------------------------------------------------------------

(***************************************************************************)
(* The reference for the traversal: everything that a walk of at most so   *)
(* many edges joins to a touched node.                                     *)
(***************************************************************************)
IsWalk(path, n) ==
    path[0] \in Affected /\ \A i \in 1..n : path[i] \in Adjacent(path[i - 1])

Joined(id, n) == \E path \in [0..n -> NodeIDs] : IsWalk(path, n) /\ path[n] = id

Within == {id \in NodeIDs : \E n \in 0..MaxDepth(resolution.options.depth) : Joined(id, n)}

(***************************************************************************)
(* traverseGraph reports exactly the systems within the traversal depth of *)
(* a touched node, and the highest criticality among them, whatever the    *)
(* order of the edges, with cycles and with edges to undeclared nodes.     *)
(***************************************************************************)
TraversalExact ==
    walk.on /\ walk.queue = <<>> =>
        /\ walk.systems = Within \cap resolution.graph.nodes
        /\ \A id \in walk.systems :
            criticalityRank(resolution.graph.rank[id]) <= criticalityRank(walk.criticality)
        /\ walk.criticality # "" => \E id \in walk.systems : resolution.graph.rank[id] = walk.criticality

(***************************************************************************)
(* A resolution ends: the traversal loop visits no node twice.             *)
(***************************************************************************)
ResolutionEnds == <>(impact.state \in {"resolved", "failed"})

(***************************************************************************)
(* docs/getting-started.md:163: a configured graph manifest resolves       *)
(* transitive impact: when it loads and parses and the change touches one  *)
(* of its nodes, the systems within the depth are among the services.      *)
(***************************************************************************)
GraphManifestHonoured ==
    (impact.state = "resolved" /\ options.manifestPath /\ resolution.loads /\ resolution.parses) =>
        Affected \subseteq impact.services

=============================================================================

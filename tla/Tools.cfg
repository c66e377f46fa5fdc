SPECIFICATION MCSpec
CONSTANTS
    Paths <- MCPaths
    configCandidates <- MCCandidates
    configDirCandidates <- MCDirCandidates
    Directory = ".merger"
    Contents <- MCContents
    Trees <- MCTrees
    Commands <- MCCommands
    Actors = {cli, agent}
    MaxRuns = 2
    MaxEdits = 1
    Clients <- MCClients
    Lines <- MCLines
    Scanned <- MCScanned
    MaxLines = 3
CHECK_DEADLOCK FALSE
INVARIANTS
    ValidatedScanRuns
    ToolsAgree
PROPERTY
    AllAnswered

\* Processes of localserve, one at a time, each with three connection slots
\* against the shutdown sequence of serve.go.
CONSTANTS
    Conns = {c1, c2, c3}
    CidStart <- MCCidStart
SPECIFICATION Spec
INVARIANT ExitOnlyDrainedOrCut
INVARIANT ServesFromLoadableConfig
PROPERTY SignalLeadsToExit

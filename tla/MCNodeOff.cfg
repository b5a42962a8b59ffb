CONSTANTS
    Nodes <- MCNodes
    Me = "a"
    Gens <- MCGens
    Forged <- MCForged
    ElderSet <- MCElderSet
    PrefixOf <- MCPrefixOf
    Byz <- MCByz
    Targets <- MCTargets
    Failed <- MCFailed
SPECIFICATION FairSpec
INVARIANTS TypeOK NoFalseOffline
PROPERTIES EventuallyOffline

CONSTANTS
    Events <- MCEvents
    Work0 <- MCWork0
    Peers <- MCPeers
    Elders <- MCElders
    Levels <- MCLevels
SPECIFICATION Spec
INVARIANTS FailedSendsTracked
PROPERTIES KnowledgeNeverRegresses
CHECK_DEADLOCK FALSE

CONSTANTS
    Names <- MCNames
    NameBits <- MCNameBits
    NameLen = 2
    Rank <- MCRank
    OurName = "a"
    Ages <- MCAges
    MatureAge = 5
    ElderSize = 3
    RecommendedSectionSize = 2
    SplitExcluded <- MCSplitExcluded
SPECIFICATION Spec
INVARIANT SplitCandidatesAreSiblings
CHECK_DEADLOCK FALSE

CONSTANTS
    a = a
    b = b
    o = o
    NoKeys = NoKeys
    Candidates <- MCCandidates
    Others <- MCOthers
    Outsider = o
    StartKey = 0
    MaxKey = 1
    Forged <- MCForged
SPECIFICATION FairSpec
PROPERTY EveryCandidateOutcome
CHECK_DEADLOCK FALSE

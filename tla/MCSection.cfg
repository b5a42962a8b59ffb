CONSTANTS
    Keys <- MCKeys
    Genesis = 0
    KeyParent <- MCKeyParent
    KeyPrefix <- MCKeyPrefix
    Names <- MCNames
    NameBits <- MCNameBits
    OurName = "a"
    Tasks <- MCTasks2
    MemberInputs <- MCMemberInputs
    NoKey = NoKey
SPECIFICATION Spec
INVARIANTS TypeOK ChainSelfVerifies SapTrusted

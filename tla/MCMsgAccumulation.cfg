CONSTANTS
    Elders <- MCElders
    Byz <- MCByz
    Recipients <- MCRecipients
    Payload = "msg"
    Payloads <- MCPayloads
    AuthKinds <- MCAuthKinds
    MaxByzMsgs = 1
SPECIFICATION Spec
INVARIANTS TypeOK QuorumNecessity
PROPERTIES AccumulatedEventuallyHandled

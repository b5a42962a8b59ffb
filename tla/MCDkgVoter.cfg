CONSTANTS
    Participants <- MCParticipants
    Byz <- MCByz
    NoKeys = NoKeys
    Outsiders <- MCOutsiders
SPECIFICATION Spec
INVARIANTS TypeOK StoredKeysAuthentic DkgStateFromCompleteKeys OutcomeAgreement
PROPERTIES StoredKeyNeverChanges
CHECK_DEADLOCK FALSE

CONSTANTS
    Participants <- MCParticipants
    Byz <- MCNoByz
    NoKeys = NoKeys
    Outsiders <- MCOutsiders
SPECIFICATION Spec
PROPERTIES NewKeyRefreshesTimer
CHECK_DEADLOCK FALSE

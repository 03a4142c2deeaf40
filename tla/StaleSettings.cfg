SPECIFICATION Spec
CONSTANTS
    Numbers <- MCNumbers
    Defaults <- MCDefaults
    Environments <- MCEnvironments
    Files <- MCFiles
    SetterCalls <- MCSetterCalls
    Channels <- MCChannels
    Texts <- MCTexts
    SessionId = 2
INVARIANT
    RequestChannelHasSettings
CHECK_DEADLOCK FALSE

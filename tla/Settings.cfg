SPECIFICATION Spec
CONSTANTS
    Numbers <- MCNumbers
    Defaults <- MCDefaults
    Environments <- MCEnvironments
    Files <- MCFiles
    SetterCalls <- MCSetterCalls
    Channels <- MCChannels
    Texts <- MCTexts
    SessionId = 2
INVARIANTS
    ParsesAsCut
    SessionIdIsAdded
    RequestChannelIsAsGiven
    PlainFileIsRead
\* A program may be done with its context.
CHECK_DEADLOCK FALSE

\* Up to three frames over a buffer smaller than a header.
CONSTANTS
    Byte = {0, 1}
    Width = 2
    Words = 4
    ToWire <- MCToWire
    FromWire <- MCFromWire
    SockBuf = 3
    Conversations <- MCConversations
SPECIFICATION FairSpec
INVARIANT FramingInv
PROPERTIES
    ImplementsChannel
    AllArrive
CHECK_DEADLOCK FALSE

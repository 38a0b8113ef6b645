SPECIFICATION Spec
CONSTANTS
    MessageKinds <- Events
    GroupKinds <- GroupEvents
    ReceivedKind = "GROUP_MESSAGE_RECEIVED"
    NameLength <- Lengths
    MaxBody = 5
INVARIANT TypeOK
PROPERTY OthersAreFramed

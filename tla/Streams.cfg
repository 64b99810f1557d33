SPECIFICATION Spec
CONSTANTS
    Requests <- MCRequests
    MaxEvents = 3
    MaxBindings = 2
INVARIANTS
    EndsHonestly
    ContentFaithful
    KeepaliveReaped
PROPERTIES
    AnthropicProtocol
    ChatProtocol
    ResponsesProtocol
    Terminates
CHECK_DEADLOCK FALSE

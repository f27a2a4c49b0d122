SPECIFICATION Spec
CONSTANTS
    find = find
    send = send
    runner = runner
    d1 = d1
    d2 = d2
    Starter <- runner
    Deciders <- MCDeciders
    Tools <- MCTools
    Gated <- MCGated
    MaxSteps = 1
    MaxCalls = 2
    Overlap = FALSE
    Editable = FALSE
    Faults <- AllFaults
INVARIANT TypeOK
INVARIANT OncePerProposal
INVARIANT ConversationSound
PROPERTY EndedStaysEnded
PROPERTY ImplementsGate
SYMMETRY Symmetry
CHECK_DEADLOCK FALSE

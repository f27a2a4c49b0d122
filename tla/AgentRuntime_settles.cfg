SPECIFICATION FairSpec
CONSTANTS
    find = find
    send = send
    runner = runner
    d1 = d1
    d2 = d2
    Starter <- runner
    Deciders <- MCDeciders
    Tools <- MCGated
    Gated <- MCGated
    MaxSteps = 1
    MaxCalls = 1
    Overlap = TRUE
    Editable = FALSE
    Faults <- CallFaults
INVARIANT HeldCallsApproved
INVARIANT OncePerClick
PROPERTY RunSettles
CHECK_DEADLOCK FALSE

\* The only node with members crashes.
SPECIFICATION PromptSpec
CONSTANTS
    Node <- Two
    Boot <- Two
    User = {u1}
    MaxDraws = 2
    MaxFaults = 1
INVARIANT EndsAreReported
CHECK_DEADLOCK FALSE

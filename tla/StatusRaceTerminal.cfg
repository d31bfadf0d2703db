SPECIFICATION Spec
CONSTANTS
    Workers = {w1}
    Cancellers = {c1}
    MaxRetries = 2
    Nobody = Nobody
INVARIANT TerminalKept

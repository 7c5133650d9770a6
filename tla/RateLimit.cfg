\* Two callers take tokens at the same time.
SPECIFICATION Spec
CONSTANTS
    Callers = {c1, c2}
    Burst = 2
    MaxTime = 4
CHECK_DEADLOCK FALSE
INVARIANT RateIsKept

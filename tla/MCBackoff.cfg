\* A 20-bit integer stands for the 64-bit one; the base and the cap are the code's.
SPECIFICATION Spec
CONSTANTS
    Base = 500
    MaxDelay = 30000
    Width = 20
    Jitters = 2
    MaxAttempts = 40
INVARIANT NeverCollapses
CHECK_DEADLOCK FALSE

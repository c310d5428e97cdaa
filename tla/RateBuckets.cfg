SPECIFICATION Spec
CONSTANTS
    Capacity <- MCCapacity
    Rate <- MCRate
    Whole = 3
    Second = 4
    None = None
    MaxTime = 5
    MaxBack = 1
INVARIANTS WithinLimit RefusalIsFree RetryIsAdmitted

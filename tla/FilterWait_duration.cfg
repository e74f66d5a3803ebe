SPECIFICATION FilterFair
CONSTANTS
    Syncer = {s1}
    Waiter = {w1}
    Free = Free
    MaxChanges = 1
PROPERTY WaitEnds
CHECK_DEADLOCK FALSE

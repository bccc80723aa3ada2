SPECIFICATION Spec
CONSTANTS
    Writers = {1, 2}
    Garbage = Garbage
INVARIANT PolicyMirrored
CHECK_DEADLOCK FALSE

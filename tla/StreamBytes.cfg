\* A file on disk is chosen while the cache holds its pieces.
SPECIFICATION Spec
CONSTANTS
    Pieces = {1, 2}
    Blocks = {1, 2}
    Cap = 1
    PreviewCap = 1
    Quick = {1}
    Sessions <- SwitchedOnly
CHECK_DEADLOCK FALSE
INVARIANT BytesAreHeld

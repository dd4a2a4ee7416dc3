CONSTANTS
    r1 = r1
    r2 = r2
    Repos = {r1}
    NoRepo = NoRepo
    e1 = e1
    e2 = e2
    Edits = {e1}
    MaxWorkers = 1
SPECIFICATION Spec
INVARIANTS
    UnsavedChangesPushed
CHECK_DEADLOCK FALSE

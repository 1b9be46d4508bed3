CONSTANTS
    Runs = {1, 2}
    Nodes = {n1, n2}
    Dirs = {"d1", "d2"}
    MaxRequests = 1
    Plans <- MCPlans
SPECIFICATION Spec
INVARIANTS AcceptedQuiet AcceptedClean EvidenceOwn
PROPERTIES Freed
CHECK_DEADLOCK FALSE

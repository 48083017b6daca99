SPECIFICATION Spec
CONSTANTS
    Plan = {p1}
    Approval = {a1, a2}
    Steps = 2
    Refs <- Chain
    Listed <- None
    MaxTries = 2
    Faults = {"api", "timeout", "shutdown", "crash", "database"}
    MaxFaults = 2
INVARIANTS TypeOK ResultsAreNotIntermediate
SYMMETRY SymApprovals

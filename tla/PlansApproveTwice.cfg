SPECIFICATION Spec
CONSTANTS
    Plan = {p1}
    Approval = {a1, a2}
    Steps = 1
    Refs <- One
    Listed <- None
    MaxTries = 1
    Faults = {}
    MaxFaults = 0
PROPERTY OnlyApprovableApproved

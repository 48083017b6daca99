SPECIFICATION Spec
CONSTANTS
    Job = {j1}
    Request = {r1}
    MaxJobs = 1
    MaxTries = 1
    MaxOutputs = 1
    Faults = {}
    MaxFaults = 0
PROPERTY CancelledStays

SPECIFICATION FairSpec
CONSTANTS
    Job = {j1}
    Request = {}
    MaxJobs = 1
    MaxTries = 1
    MaxOutputs = 1
    Faults = {"timeout"}
    MaxFaults = 1
PROPERTY RunningSettles

SPECIFICATION EventsSpec
CONSTANTS
    Job = {j1, j2}
    Request = {}
    MaxJobs = 1
    MaxTries = 3
    MaxOutputs = 0
    Faults = {"shutdown", "crash"}
    MaxFaults = 2
    Stream = {s1}
INVARIANTS UnsettledIsLive LastWordStands
PROPERTIES LifecycleSpec StreamGoesForward StreamEnds

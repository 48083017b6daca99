SPECIFICATION FairSpec
CONSTANTS
    Job = {j1}
    Request = {r1}
    MaxJobs = 1
    MaxTries = 2
    MaxOutputs = 2
    Faults = {"api", "timeout", "shutdown", "crash", "database"}
    MaxFaults = 2
INVARIANTS TypeOK OutputsAreStored OutputIsOneAttempt SettledRowIsComplete
PROPERTIES SignalledCancelIsFinal CancelSeenBeforeSuccess QueueDrains

SPECIFICATION StepsSpec
CONSTANTS
    Plan = {p1}
    Approval = {a1}
    Steps = 3
    Refs <- Fan
    Listed <- SlidesInList
    MaxTries = 2
    Faults = {"shutdown", "crash"}
    MaxFaults = 1
    StepCancel = {c1}
INVARIANTS SuccessIsOneExecution StepJobsSettle
PROPERTIES ApprovedPlanSettles PlansAreExecuted CancelledStepYieldsNothing

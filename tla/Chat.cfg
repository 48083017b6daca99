SPECIFICATION FairSpec
CONSTANTS
    Asset = {a1}
    Post = {p1, p2, p3}
    MaxRetries = 2
    Events = {"delete", "provider", "lost"}
    MaxEvents = 2
INVARIANTS TypeOK PlannerSawHistory PostIsAllOrNothing
PROPERTY PostEnds

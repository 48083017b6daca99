SPECIFICATION Spec
CONSTANTS
    Literal = {"img", "vid", "snd", "lost", ""}
    Name = {"a", "b", "title", "slides", "at"}
    MediaOf <- MCMediaOf
    Sessions <- MCSessions
    Plans <- AllPlans
INVARIANTS AcceptedPlansRun MockPlansWork InputsAreKnown ResultsAreUnused
